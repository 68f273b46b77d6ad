--------------------------- MODULE RoadmapProofs ---------------------------
(***************************************************************************)
(* Machine-checked proofs about Roadmap, for every roadmap, every lane     *)
(* limit and any number of failures: the journalled advance is atomic, a   *)
(* completed milestone is proven, and the scheduler keeps to its scope and *)
(* starves no lane.                                                        *)
(***************************************************************************)
EXTENDS Roadmap, FiniteSetTheorems, WellFoundedInduction, TLAPS

USE DEF NoTxn, mainline

(* The pending transaction is of the active milestone or, once the state   *)
(* is written, of the one before it; the steps that replay it find it.     *)
Journalled ==
  /\ milestone \in [Milestones -> {"PROPOSED", "ACTIVE", "COMPLETED"}]
  /\ active \in Milestones
  /\ receipts \subseteq Milestones
  /\ txn = NoTxn \/ (txn \in Milestones /\ txn < Last)
  /\ txn # NoTxn => txn = active \/ txn + 1 = active
  /\ pc \in {"receipt", "state", "unlink"} => txn # NoTxn
  /\ pc = "state" => txn \in receipts
  /\ pc = "unlink" => txn + 1 = active
  /\ pc = "marker" => active > 0
  /\ marker \in BOOLEAN

JournalInv == Journalled /\ AdvanceIsAtomic

(* The steps that touch none of it. *)
LEMMA JournalKept ==
  ASSUME JournalInv, UNCHANGED journal,
         pc' \notin {"receipt", "state", "unlink", "marker"}
  PROVE  JournalInv'
  BY DEF JournalInv, Journalled, AdvanceIsAtomic, journal

LEMMA JournalInit == Init => JournalInv
<1> SUFFICES ASSUME Init PROVE JournalInv
  OBVIOUS
<1>1. /\ milestone = [m \in Milestones |-> IF m = 0 THEN "ACTIVE" ELSE "PROPOSED"]
      /\ active = 0 /\ txn = NoTxn /\ receipts = {} /\ marker = FALSE
      /\ pc = "down"
  BY DEF Init
<1>2. 0 \in Milestones /\ \A m \in Milestones : m >= 0
  BY RoadmapAssumption DEF Milestones
<1>3. Journalled
  BY <1>1, <1>2 DEF Journalled
<1>4. AdvanceIsAtomic
  <2>1. \A m \in Milestones : m \in Int
    BY RoadmapAssumption DEF Milestones
  <2> QED BY <1>1, <1>2, <2>1 DEF AdvanceIsAtomic
<1> QED BY <1>3, <1>4 DEF JournalInv

LEMMA JournalBegin == JournalInv /\ BeginAdvance => JournalInv'
  BY RoadmapAssumption
  DEF BeginAdvance, Goto, JournalInv, Journalled, AdvanceIsAtomic, Milestones

LEMMA JournalReceipt == JournalInv /\ WriteReceipt => JournalInv'
<1> SUFFICES ASSUME JournalInv, WriteReceipt PROVE JournalInv'
  OBVIOUS
<1>1. /\ receipts' = receipts \cup {txn} /\ pc' = "state"
      /\ UNCHANGED <<milestone, active, txn, marker>>
  BY DEF WriteReceipt, Goto
<1> txn \in Milestones /\ txn < Last
  BY DEF WriteReceipt, JournalInv, Journalled
<1>2. Journalled'
  <2>1. receipts' \subseteq Milestones /\ txn' \in receipts'
    BY <1>1 DEF JournalInv, Journalled
  <2>2. txn' # NoTxn
    BY <1>1 DEF WriteReceipt, JournalInv, Journalled
  <2> QED BY <1>1, <2>1, <2>2 DEF JournalInv, Journalled
<1>3. AdvanceIsAtomic'
  BY <1>1 DEF JournalInv, AdvanceIsAtomic
<1> QED BY <1>2, <1>3 DEF JournalInv

LEMMA JournalState == JournalInv /\ WriteState => JournalInv'
<1> SUFFICES ASSUME JournalInv, WriteState PROVE JournalInv'
  OBVIOUS
<1>1. txn \in Milestones /\ txn + 1 \in Milestones /\ txn \in receipts
  BY RoadmapAssumption DEF WriteState, JournalInv, Journalled, Milestones
<1>2. /\ milestone' = [milestone EXCEPT ![txn] = "COMPLETED", ![txn + 1] = "ACTIVE"]
      /\ active' = txn + 1 /\ pc' = "unlink"
      /\ UNCHANGED <<txn, receipts, marker>>
  BY DEF WriteState, Goto
<1>3. Journalled'
  BY <1>1, <1>2, RoadmapAssumption DEF JournalInv, Journalled, Milestones
<1>4. \A m \in Milestones :
        milestone'[m] = IF m < active' THEN "COMPLETED"
                        ELSE IF m = active' THEN "ACTIVE" ELSE "PROPOSED"
  BY <1>1, <1>2, RoadmapAssumption
  DEF JournalInv, Journalled, AdvanceIsAtomic, Milestones
<1>5. /\ \A m \in Milestones : m < active' => m \in receipts'
      /\ \A m \in receipts' : m < active' \/ m = txn'
      /\ marker' => active' > 0
  BY <1>1, <1>2, RoadmapAssumption
  DEF JournalInv, Journalled, AdvanceIsAtomic, Milestones
<1> QED BY <1>3, <1>4, <1>5 DEF JournalInv, AdvanceIsAtomic

LEMMA JournalDrop == JournalInv /\ DropTransaction => JournalInv'
  BY RoadmapAssumption
  DEF DropTransaction, StartPromotion, Goto, JournalInv, Journalled,
      AdvanceIsAtomic, Milestones

LEMMA JournalMarker == JournalInv /\ CreateMarker => JournalInv'
  BY DEF CreateMarker, StartPromotion, Goto, JournalInv, Journalled, AdvanceIsAtomic

LEMMA JournalPreflight == JournalInv /\ Preflight => JournalInv'
<1> SUFFICES ASSUME JournalInv, Preflight PROVE JournalInv'
  OBVIOUS
<1>1. milestone[0] = "COMPLETED" => active > 0
  BY RoadmapAssumption DEF JournalInv, Journalled, AdvanceIsAtomic, Milestones
<1>2. /\ marker' = (marker \/ milestone[0] = "COMPLETED")
      /\ UNCHANGED <<milestone, active, txn, receipts>> /\ pc' = "recover"
  BY DEF Preflight, Goto
<1>3. marker' \in BOOLEAN
  BY <1>2 DEF JournalInv, Journalled
<1>4. marker' => active' > 0
  BY <1>1, <1>2 DEF JournalInv, AdvanceIsAtomic
<1> QED BY <1>2, <1>3, <1>4 DEF JournalInv, Journalled, AdvanceIsAtomic

LEMMA JournalRecover == JournalInv /\ Recover => JournalInv'
  BY DEF Recover, Goto, journal, JournalInv, Journalled, AdvanceIsAtomic

-----------------------------------------------------------------------------
(* Every other step leaves the journal alone and does not enter it. *)
Elsewhere ==
  /\ UNCHANGED journal
  /\ pc' \notin {"receipt", "state", "unlink", "marker"}

LEMMA PromotionElsewhere == Promotion => Elsewhere
<1> SUFFICES ASSUME Promotion PROVE Elsewhere
  OBVIOUS
<1>1. CASE PromotePauses
  BY <1>1 DEF PromotePauses, StartPromotion, Goto, Elsewhere, journal
<1>2. CASE EndPromotion
  BY <1>2 DEF EndPromotion, Goto, Elsewhere, journal
<1>3. ASSUME NEW i, NEW s, NEW n, NEW r, Promoted(i, s, n, r) PROVE Elsewhere
  BY <1>3 DEF Promoted, Raise, Forget, Goto, Elsewhere, journal
<1>4. ASSUME NEW i, LeftAlone(i) PROVE Elsewhere
  BY <1>4 DEF LeftAlone, Goto, Elsewhere, journal
<1>5. ASSUME NEW i \in Items,
             ReviewUnavailable(i) \/ ReviewWaits(i) \/ ReviewDecided(i)
               \/ PromoteReceipt(i) \/ PromoteWork(i)
      PROVE  Elsewhere
  BY <1>3, <1>4, <1>5
  DEF ReviewUnavailable, ReviewWaits, ReviewDecided, PromoteReceipt, PromoteWork
<1>6. ASSUME NEW i \in Items, RecordEvidence(i) PROVE Elsewhere
  BY <1>6 DEF RecordEvidence, Goto, Elsewhere, journal
<1> QED BY <1>1, <1>2, <1>5, <1>6 DEF Promotion

LEMMA ExecutionElsewhere == Execution => Elsewhere
<1> SUFFICES ASSUME Execution PROVE Elsewhere
  OBVIOUS
<1>1. CASE Schedule
  BY <1>1 DEF Schedule, Elsewhere, journal
<1>2. CASE Gathered
  BY <1>2 DEF Gathered, Raise, Forget, Goto, Elsewhere, journal
<1>3. CASE SaveState
  BY <1>3 DEF SaveState, Elsewhere, journal
<1>4. ASSUME NEW i \in Items, Enqueue(i) \/ Claim(i) PROVE Elsewhere
  BY <1>4 DEF Enqueue, Claim, Goto, Elsewhere, journal
<1>5. ASSUME NEW i \in Items,
             Passes(i) \/ Refused(i) \/ SentBack(i) \/ Raises(i)
      PROVE  Elsewhere
  BY <1>5 DEF Passes, Refused, SentBack, Raises, Ended, Goto, Elsewhere, journal
<1> QED BY <1>1, <1>2, <1>3, <1>4, <1>5 DEF Execution

(* One step per action. *)
LEMMA JournalStep == JournalInv /\ [Next]_vars => JournalInv'
<1> SUFFICES ASSUME JournalInv, [Next]_vars PROVE JournalInv'
  OBVIOUS
<1>0. Elsewhere => JournalInv'
  BY JournalKept DEF Elsewhere
<1>1. CASE Promotion \/ Execution
  BY <1>0, <1>1, PromotionElsewhere, ExecutionElsewhere
<1>2. CASE NoAdvance
  BY <1>0, <1>2 DEF NoAdvance, Goto, Elsewhere
<1>3. CASE AdvanceRefused
  BY <1>0, <1>3 DEF AdvanceRefused, Raise, Forget, Elsewhere
<1>4. CASE BeginAdvance \/ WriteReceipt \/ WriteState \/ DropTransaction \/ CreateMarker
  BY <1>4, JournalBegin, JournalReceipt, JournalState, JournalDrop, JournalMarker
<1>5. CASE Preflight \/ Recover
  BY <1>5, JournalPreflight, JournalRecover
<1>6. CASE Align
  BY <1>0, <1>6 DEF Align, Forget, Goto, Elsewhere
<1>7. CASE Crash
  BY <1>0, <1>7 DEF Crash, Forget, Elsewhere
<1>8. CASE Install
  <2>1. pc' = "down" /\ UNCHANGED journal
    BY <1>8 DEF Install
  <2> QED BY <1>0, <2>1 DEF Elsewhere
<1>9. CASE UNCHANGED vars
  BY <1>9 DEF vars, journal, JournalInv, Journalled, AdvanceIsAtomic
<1> QED BY <1>1, <1>2, <1>3, <1>4, <1>5, <1>6, <1>7, <1>8, <1>9
        DEF Next, Process, Advance

(* An advance is atomic wherever the process fails, for every roadmap:     *)
(* receipts, runtime state, transaction and migration marker agree in      *)
(* every state (advance_milestone_state, reconcile_milestone_advance,      *)
(* run_startup_preflight).                                                 *)
THEOREM AdvanceSafe == Spec => []AdvanceIsAtomic
<1>1. JournalInv => AdvanceIsAtomic
  BY DEF JournalInv
<1> QED BY JournalInit, JournalStep, <1>1, PTL DEF Spec
-----------------------------------------------------------------------------
(* Why a completed milestone stays proven: work that is settled never      *)
(* changes again, and evidence is written once, for settled work only.     *)
Settled == SATISFIED \cup {"REJECTED_VALUE"}

EvidenceInv ==
  /\ status \in [Items -> WorkStatus]
  /\ evidence \in [Items -> {"none", "weak", "sound"}]
  /\ unrecorded \subseteq Items
  /\ \A i \in Items : evidence[i] # "none" => status[i] \in Settled
  /\ \A i \in unrecorded : evidence[i] = "none" /\ status[i] \in Settled

ProvenFor(m) ==
  /\ \A i \in ItemsOf[m] : status[i] \in SATISFIED
  /\ \A i \in ItemsOf[m] \cup Criteria[m] : evidence[i] = "sound"

ProvenInv == \A m \in Milestones : m < active \/ m = txn => ProvenFor(m)

(* A step that moves work that is not settled, and writes no evidence. *)
Unsettling ==
  /\ status' \in [Items -> WorkStatus]
  /\ \A i \in Items : status[i] \in Settled => status'[i] = status[i]
  /\ UNCHANGED evidence
  /\ unrecorded' \subseteq Items
  /\ \A i \in unrecorded' :
       i \in unrecorded \/ (status[i] \notin Settled /\ status'[i] \in Settled)

(* Either way, what is proven stays proven. *)
Lasting ==
  /\ EvidenceInv'
  /\ \A i \in Items : status[i] \in Settled => status'[i] = status[i]
  /\ \A i \in Items : evidence[i] = "sound" => evidence'[i] = "sound"

LEMMA UnsettlingLasts ==
  ASSUME EvidenceInv, Unsettling PROVE Lasting
<1>1. /\ status' \in [Items -> WorkStatus]
      /\ evidence' \in [Items -> {"none", "weak", "sound"}]
      /\ unrecorded' \subseteq Items
  BY DEF EvidenceInv, Unsettling
<1>2. \A i \in Items : evidence'[i] # "none" => status'[i] \in Settled
  BY DEF EvidenceInv, Unsettling
<1>3. \A i \in unrecorded' : evidence'[i] = "none" /\ status'[i] \in Settled
  BY DEF EvidenceInv, Unsettling
<1> QED BY <1>1, <1>2, <1>3 DEF EvidenceInv, Unsettling, Lasting

LEMMA StillLasts ==
  ASSUME EvidenceInv, UNCHANGED <<status, evidence>>, unrecorded' \subseteq unrecorded
  PROVE  Lasting
<1>1. Unsettling
  BY DEF EvidenceInv, Unsettling
<1> QED BY <1>1, UnsettlingLasts

(* One item that is not settled moves to s. *)
LEMMA MoveLasts ==
  ASSUME EvidenceInv, NEW i \in Items, NEW s \in WorkStatus,
         status[i] \notin Settled, status' = [status EXCEPT ![i] = s],
         UNCHANGED evidence,
         unrecorded' \subseteq unrecorded \cup (IF s \in Settled THEN {i} ELSE {})
  PROVE  Lasting
<1>1. status' \in [Items -> WorkStatus]
  BY DEF EvidenceInv
<1>2. \A j \in Items : status'[j] = IF j = i THEN s ELSE status[j]
  BY DEF EvidenceInv
<1>3. unrecorded' \subseteq Items
  BY DEF EvidenceInv
<1>4. \A j \in unrecorded' :
        j \in unrecorded \/ (status[j] \notin Settled /\ status'[j] \in Settled)
  BY <1>2
<1>5. Unsettling
  BY <1>1, <1>2, <1>3, <1>4 DEF Unsettling
<1> QED BY <1>5, UnsettlingLasts

LEMMA RecordLasts ==
  ASSUME EvidenceInv, NEW i \in Items, RecordEvidence(i)
  PROVE  Lasting
<1>1. PICK g \in {"weak", "sound"} : evidence' = [evidence EXCEPT ![i] = g]
  BY DEF RecordEvidence, SemanticEvidence
<1>2. i \in unrecorded /\ unrecorded' = unrecorded \ {i} /\ status' = status
  BY DEF RecordEvidence
<1>3. \A j \in Items : evidence'[j] = IF j = i THEN g ELSE evidence[j]
  BY <1>1 DEF EvidenceInv
<1>4. evidence' \in [Items -> {"none", "weak", "sound"}]
  BY <1>1 DEF EvidenceInv
<1>5. /\ \A j \in Items : evidence'[j] # "none" => status'[j] \in Settled
      /\ \A j \in unrecorded' : evidence'[j] = "none" /\ status'[j] \in Settled
  BY <1>2, <1>3 DEF EvidenceInv
<1>6. \A j \in Items : evidence[j] = "sound" => evidence'[j] = "sound"
  BY <1>2, <1>3 DEF EvidenceInv
<1> QED BY <1>2, <1>4, <1>5, <1>6 DEF EvidenceInv, Lasting

LEMMA PromotedLasts ==
  ASSUME EvidenceInv, NEW i \in Items, IsNext(i), NEW s \in WorkStatus, NEW n,
         NEW r, r \subseteq (IF s \in Settled THEN {i} ELSE {}),
         Promoted(i, s, n, r)
  PROVE  Lasting
<1>1. status[i] \notin Settled
  BY DEF IsNext, Promotable, Settled, SATISFIED
<1>2. UNCHANGED evidence
  BY DEF Promoted
<1>3. CASE status' = [status EXCEPT ![i] = s] /\ unrecorded' = r
  BY <1>1, <1>2, <1>3, MoveLasts
<1>4. CASE status' = status /\ unrecorded' = {}
  BY <1>2, <1>4, StillLasts
<1> QED BY <1>3, <1>4 DEF Promoted, Raise, Forget

LEMMA PromotionLasts == EvidenceInv /\ Promotion => Lasting
<1> SUFFICES ASSUME EvidenceInv, Promotion PROVE Lasting
  OBVIOUS
<1>1. CASE PromotePauses
  <2>1. PICK due \in SUBSET {i \in Items : status[i] = "PAUSED_BACKEND"} :
          \E bad \in SUBSET due :
            status' = [i \in Items |-> IF i \in bad THEN "BLOCKED_TECHNICAL"
                                       ELSE IF i \in due THEN "READY" ELSE status[i]]
    BY <1>1 DEF PromotePauses
  <2>2. status' \in [Items -> WorkStatus]
    BY <2>1 DEF EvidenceInv, WorkStatus
  <2>3. \A i \in Items : status[i] \in Settled => status'[i] = status[i]
    BY <2>1 DEF Settled, SATISFIED
  <2>4. UNCHANGED <<evidence, unrecorded>>
    BY <1>1 DEF PromotePauses, StartPromotion
  <2>5. Unsettling
    BY <2>2, <2>3, <2>4 DEF Unsettling, EvidenceInv
  <2> QED BY <2>5, UnsettlingLasts
<1>2. CASE EndPromotion
  <2>1. UNCHANGED <<status, evidence, unrecorded>>
    BY <1>2 DEF EndPromotion, queue
  <2> QED BY <2>1, StillLasts
<1>3. ASSUME NEW i \in Items, LeftAlone(i) PROVE Lasting
  <2>1. UNCHANGED <<status, evidence, unrecorded>>
    BY <1>3 DEF LeftAlone, queue
  <2> QED BY <2>1, StillLasts
<1>4. {"BLOCKED_POLICY", "WAITING_EXTERNAL", "PASSED_ENGINEERING",
       "REJECTED_VALUE", "READY"} \subseteq WorkStatus
  BY DEF WorkStatus
<1>5. {"PASSED_ENGINEERING", "REJECTED_VALUE"} \subseteq Settled
  BY DEF Settled, SATISFIED
<1>6. ASSUME NEW i \in Items, ReviewUnavailable(i) \/ ReviewWaits(i) PROVE Lasting
  <2>1. IsNext(i)
    BY <1>6 DEF ReviewUnavailable, ReviewWaits, IsReview
  <2>2. \E s \in {"BLOCKED_POLICY", "WAITING_EXTERNAL"} : Promoted(i, s, i + 1, {})
    BY <1>6 DEF ReviewUnavailable, ReviewWaits
  <2> QED BY <2>1, <2>2, <1>4, PromotedLasts
<1>7. ASSUME NEW i \in Items, ReviewDecided(i) PROVE Lasting
  <2>1. IsNext(i)
    BY <1>7 DEF ReviewDecided, IsReview
  <2>2. PICK s \in {"PASSED_ENGINEERING", "REJECTED_VALUE"} : Promoted(i, s, i + 1, {i})
    BY <1>7 DEF ReviewDecided
  <2>3. s \in WorkStatus /\ {i} \subseteq (IF s \in Settled THEN {i} ELSE {})
    BY <1>4, <1>5
  <2> QED BY <2>1, <2>2, <2>3, PromotedLasts
<1>8. ASSUME NEW i \in Items, PromoteReceipt(i) PROVE Lasting
  <2>1. IsNext(i)
    BY <1>8 DEF PromoteReceipt
  <2>2. CASE Promoted(i, "WAITING_EXTERNAL", i, {})
    BY <2>1, <2>2, <1>4, PromotedLasts
  <2>3. CASE Promoted(i, "PASSED_ENGINEERING", i + 1, {i})
    <3>1. {i} \subseteq (IF "PASSED_ENGINEERING" \in Settled THEN {i} ELSE {})
      BY <1>5
    <3> QED BY <2>1, <2>3, <3>1, <1>4, PromotedLasts
  <2> QED BY <1>3, <1>8, <2>2, <2>3 DEF PromoteReceipt
<1>9. ASSUME NEW i \in Items, PromoteWork(i) PROVE Lasting
  <2>1. IsNext(i)
    BY <1>9 DEF PromoteWork
  <2>2. CASE Promoted(i, IF Work[i].automatable THEN "READY" ELSE "BLOCKED_POLICY",
                      i + 1, {})
    <3>1. (IF Work[i].automatable THEN "READY" ELSE "BLOCKED_POLICY") \in WorkStatus
      BY <1>4
    <3> QED BY <2>1, <2>2, <3>1, PromotedLasts
  <2> QED BY <1>3, <1>9, <2>2 DEF PromoteWork
<1> QED BY <1>1, <1>2, <1>6, <1>7, <1>8, <1>9, RecordLasts DEF Promotion

LEMMA ExecutionLasts == EvidenceInv /\ Execution => Lasting
<1> SUFFICES ASSUME EvidenceInv, Execution PROVE Lasting
  OBVIOUS
<1>1. CASE Schedule \/ SaveState
  <2>1. UNCHANGED <<status, evidence, unrecorded>>
    BY <1>1 DEF Schedule, SaveState, queue
  <2> QED BY <2>1, StillLasts
<1>2. CASE Gathered
  <2>1. UNCHANGED <<status, evidence>> /\ unrecorded' \subseteq unrecorded
    BY <1>2 DEF Gathered, Raise, Forget, queue
  <2> QED BY <2>1, StillLasts
<1>3. {"QUEUED", "RUNNING", "PASSED_ENGINEERING", "REJECTED_VALUE",
       "BLOCKED_TECHNICAL", "PAUSED_BACKEND", "WAITING_EXTERNAL"} \subseteq WorkStatus
  BY DEF WorkStatus
<1>4. \A i \in Items : status[i] \in {"READY", "QUEUED", "RUNNING"}
                         => status[i] \notin Settled
  BY DEF Settled, SATISFIED
<1>5. ASSUME NEW i \in Items, NEW s \in {"QUEUED", "RUNNING", "REJECTED_VALUE",
               "BLOCKED_TECHNICAL", "PAUSED_BACKEND", "WAITING_EXTERNAL"},
             status[i] \in {"READY", "QUEUED", "RUNNING"},
             status' = [status EXCEPT ![i] = s], UNCHANGED <<evidence, unrecorded>>
      PROVE  Lasting
  BY <1>3, <1>4, <1>5, MoveLasts
<1>6. ASSUME NEW i \in Items, Enqueue(i) \/ Claim(i) PROVE Lasting
  BY <1>5, <1>6 DEF Enqueue, Claim, memory
<1>7. ASSUME NEW i \in Items, Passes(i) PROVE Lasting
  <2>1. "PASSED_ENGINEERING" \in Settled
    BY DEF Settled, SATISFIED
  <2>2. /\ status[i] = "RUNNING" /\ UNCHANGED evidence
        /\ status' = [status EXCEPT ![i] = "PASSED_ENGINEERING"]
        /\ unrecorded' = unrecorded \cup {i}
    BY <1>7 DEF Passes, Ended
  <2> QED BY <1>3, <1>4, <2>1, <2>2, MoveLasts
<1>8. ASSUME NEW i \in Items, Refused(i) \/ SentBack(i) PROVE Lasting
  BY <1>5, <1>8 DEF Refused, SentBack, Ended
<1>9. ASSUME NEW i \in Items, Raises(i) PROVE Lasting
  BY <1>9, StillLasts DEF Raises, Ended
<1> QED BY <1>1, <1>2, <1>6, <1>7, <1>8, <1>9 DEF Execution

LEMMA RecoverLasts == EvidenceInv /\ Recover => Lasting
<1> SUFFICES ASSUME EvidenceInv, Recover PROVE Lasting
  OBVIOUS
<1>1. \E kept : status' = [i \in Items |->
                           IF status[i] # "RUNNING" THEN status[i]
                           ELSE IF i \in kept THEN "READY" ELSE "BLOCKED_TECHNICAL"]
  BY DEF Recover
<1>2. status' \in [Items -> WorkStatus]
  BY <1>1 DEF EvidenceInv, WorkStatus
<1>3. \A i \in Items : status[i] \in Settled => status'[i] = status[i]
  BY <1>1 DEF Settled, SATISFIED
<1>4. UNCHANGED <<evidence, unrecorded>>
  BY DEF Recover, memory
<1>5. Unsettling
  BY <1>2, <1>3, <1>4 DEF Unsettling, EvidenceInv
<1> QED BY <1>5, UnsettlingLasts

(* One step per action. *)
LEMMA EveryStepLasts == EvidenceInv /\ [Next]_vars => Lasting
<1> SUFFICES ASSUME EvidenceInv, [Next]_vars PROVE Lasting
  OBVIOUS
<1>1. CASE Promotion \/ Execution \/ Recover
  BY <1>1, PromotionLasts, ExecutionLasts, RecoverLasts
<1>2. CASE NoAdvance \/ BeginAdvance \/ WriteReceipt \/ WriteState
  BY <1>2, StillLasts DEF NoAdvance, BeginAdvance, WriteReceipt, WriteState, queue, memory
<1>3. CASE DropTransaction \/ CreateMarker
  BY <1>3, StillLasts DEF DropTransaction, CreateMarker, StartPromotion, queue, memory
<1>4. CASE AdvanceRefused \/ Crash
  BY <1>4, StillLasts DEF AdvanceRefused, Crash, Raise, Forget, queue
<1>5. CASE Preflight \/ Install
  BY <1>5, StillLasts DEF Preflight, Install, queue, memory
<1>6. CASE Align
  BY <1>6, StillLasts DEF Align, Forget, queue, memory
<1>7. CASE UNCHANGED vars
  BY <1>7, StillLasts DEF vars, queue, memory
<1> QED BY <1>1, <1>2, <1>3, <1>4, <1>5, <1>6, <1>7 DEF Next, Process, Advance

LEMMA ItemsOfItems ==
  \A m \in Milestones : ItemsOf[m] \subseteq Items /\ Criteria[m] \subseteq Items
  BY RoadmapAssumption DEF ItemsOf

LEMMA ProvenLasts ==
  ASSUME Lasting, NEW m \in Milestones, ProvenFor(m) PROVE ProvenFor(m)'
  BY ItemsOfItems DEF Lasting, ProvenFor, Settled

CompletionInv == JournalInv /\ EvidenceInv /\ ProvenInv

(* The set of milestones that must be proven grows only when an advance    *)
(* begins, by the active one.                                              *)
LEMMA ProvenStep == CompletionInv /\ [Next]_vars => ProvenInv'
<1> SUFFICES ASSUME CompletionInv, [Next]_vars,
                    NEW m \in Milestones, m < active' \/ m = txn'
             PROVE  ProvenFor(m)'
  BY DEF ProvenInv
<1>0. JournalInv /\ EvidenceInv /\ ProvenInv /\ Lasting
  BY EveryStepLasts DEF CompletionInv
<1>1. SUFFICES ProvenFor(m)
  BY <1>0, <1>1, ProvenLasts
<1>2. CASE UNCHANGED <<active, txn>>
  BY <1>0, <1>2 DEF ProvenInv
<1>3. CASE BeginAdvance
  <2>1. CASE m = active
    BY <1>3, <2>1, ItemsOfItems
    DEF BeginAdvance, AllPassed, Proven, Required, Accepted, ProvenFor, Satisfied
  <2>2. CASE m # active
    BY <1>0, <1>3, <2>2 DEF BeginAdvance, ProvenInv
  <2> QED BY <2>1, <2>2
<1>4. CASE WriteState
  <2>1. m < active \/ m = txn
    BY <1>0, <1>4, RoadmapAssumption
    DEF WriteState, JournalInv, Journalled, Milestones
  <2> QED BY <1>0, <2>1 DEF ProvenInv
<1>5. CASE DropTransaction
  <2>1. txn' = NoTxn /\ active' = active /\ m # NoTxn
    BY <1>5, RoadmapAssumption DEF DropTransaction, Milestones
  <2> QED BY <1>0, <2>1 DEF ProvenInv
<1>6. CASE UNCHANGED journal
  BY <1>2, <1>6 DEF journal
<1>7. CASE Promotion \/ Execution
  BY <1>6, <1>7, PromotionElsewhere, ExecutionElsewhere DEF Elsewhere
<1>8. CASE \/ NoAdvance \/ AdvanceRefused \/ WriteReceipt \/ CreateMarker
           \/ Preflight \/ Recover \/ Align \/ Crash \/ Install
  BY <1>2, <1>6, <1>8
  DEF NoAdvance, AdvanceRefused, WriteReceipt, CreateMarker, Preflight, Recover,
      Align, Crash, Install
<1>9. CASE UNCHANGED vars
  BY <1>6, <1>9 DEF vars
<1> QED BY <1>3, <1>4, <1>5, <1>7, <1>8, <1>9 DEF Next, Process, Advance

LEMMA CompletionInit == Init => CompletionInv
<1> SUFFICES ASSUME Init PROVE CompletionInv
  OBVIOUS
<1>1. EvidenceInv
  BY DEF Init, EvidenceInv, WorkStatus
<1>2. ProvenInv
  BY RoadmapAssumption DEF Init, ProvenInv, Milestones
<1> QED BY <1>1, <1>2, JournalInit DEF CompletionInv

(* A completed milestone is proven, and stays proven, for every roadmap,   *)
(* every exit criterion and any number of failures                         *)
(* (_advance_completed_milestone, advance_milestone_state).                *)
THEOREM CompletedSafe == Spec => []CompletedIsProven
<1>1. CompletionInv /\ [Next]_vars => CompletionInv'
  BY JournalStep, EveryStepLasts, ProvenStep DEF CompletionInv, Lasting
<1>2. CompletionInv => CompletedIsProven
  <2> SUFFICES ASSUME CompletionInv, NEW m \in Milestones,
                      m \in receipts \/ milestone[m] = "COMPLETED"
               PROVE  /\ ItemsOf[m] \subseteq Satisfied
                      /\ \A i \in ItemsOf[m] \cup Criteria[m] : evidence[i] = "sound"
    BY DEF CompletedIsProven
  <2>1. m < active \/ m = txn
    BY DEF CompletionInv, JournalInv, AdvanceIsAtomic
  <2>2. ProvenFor(m)
    BY <2>1 DEF CompletionInv, ProvenInv
  <2> QED BY <2>2, ItemsOfItems DEF ProvenFor, Satisfied
<1> QED BY CompletionInit, <1>1, <1>2, PTL DEF Spec
-----------------------------------------------------------------------------
(* The item is in scope and may be worked on. *)
Permitted(i) ==
  /\ Work[i].deps \subseteq Satisfied
  /\ \/ Work[i].milestone = active
     \/ Work[i].milestone = active + 1 /\ Work[i].lane \in AllowFuture[active]

(* Where the lanes of the next milestone matter, they are those that the   *)
(* policy of the active one opens; a cycle that starts has executed        *)
(* nothing.                                                                *)
FutureInv ==
  /\ pc \in {"down", "recover"} => stage = "init"
  /\ pc \in {"promote", "advance", "schedule", "run"} \/ (pc = "align" /\ stage = "executed")
       => future \subseteq AllowFuture[active]

(* What was sent out or is about to be is in scope.                        *)
ScopeInv ==
  /\ \A i \in Items : status[i] \in {"QUEUED", "RUNNING"} => Permitted(i)
  /\ pc = "run" => \A i \in picked : Permitted(i)

(* When a decision is made nothing runs: executions have ended, or their   *)
(* process has.                                                            *)
RunningInv ==
  \A i \in Items : status[i] = "RUNNING" =>
    /\ pc \in {"run", "down", "recover"}
    /\ pc = "run" => i \in picked \/ raised

(* How many decisions until core lane k is the first, from cursor c.       *)
Until(c, k) == (k - c) % 4

(* A lane that was passed over is nearer to the cursor by as many lanes.   *)
Rotation(c, t) == \A k \in 1..4 : t[k] + Until(c, k) <= 3

LaneInv == Rotation(lane, tally) /\ Rotation(cursor, waited)

(* The types that the other invariants do not have. *)
CycleTyped ==
  /\ returns \in 0..MaxReturns /\ behind \in BOOLEAN /\ raised \in BOOLEAN
  /\ withheld \subseteq Items
  /\ cursor \in 1..4 /\ lane \in 1..4
  /\ pc \in Steps /\ stage \in Stages
  /\ future \subseteq Lanes
  /\ satisfied \subseteq Items /\ picked \subseteq Items
  /\ next \in Nat /\ crashes \in 0..MaxCrashes
  /\ waited \in [1..4 -> 0..Tallied] /\ tally \in [1..4 -> 0..Tallied]

ScheduleInv == CycleTyped /\ FutureInv /\ ScopeInv /\ RunningInv /\ LaneInv


(* A set of naturals has a least element. *)
LEMMA LeastElement ==
  ASSUME NEW T, T \subseteq Nat, T # {}
  PROVE  \E x \in T : \A y \in T : x <= y
<1>1. \E x \in T : \A y \in T : ~(<<y, x>> \in OpToRel(<, Nat))
  BY WFMin, NatLessThanWellFounded, Zenon
<1>2. PICK x \in T : \A y \in T : <<y, x>> \notin OpToRel(<, Nat)
  BY <1>1
<1>3. \A y \in T : ~(y < x)
  <2>1. \A y \in Nat, z \in Nat : y < z => <<y, z>> \in OpToRel(<, Nat)
    BY DEF OpToRel
  <2> QED
    BY <1>2, <2>1
<1> QED
  BY <1>3

(* What is bounded below is least somewhere. *)
LEMMA LeastBy ==
  ASSUME NEW S, S # {}, NEW f \in [S -> Int], NEW b \in Int, \A s \in S : f[s] >= b
  PROVE  \E s \in S : \A t \in S : f[s] <= f[t]
<1> DEFINE T == {f[s] - b : s \in S}
<1>1. T \subseteq Nat /\ T # {}
  OBVIOUS
<1>2. PICK x \in T : \A y \in T : x <= y
  <2> HIDE DEF T
  <2> QED
    BY <1>1, LeastElement
<1>3. PICK s \in S : x = f[s] - b
  OBVIOUS
<1>4. \A t \in S : f[s] - b <= f[t] - b
  BY <1>2, <1>3
<1> QED
  BY <1>3, <1>4

(* An item's rank is a tuple of five numbers, the last its place in the    *)
(* roadmap.                                                                *)
LEMMA RankKeyType ==
  ASSUME NEW i \in Items
  PROVE  /\ RankKey(i) \in [1..5 -> Int] /\ RankKey(i)[5] = i
         /\ \A k \in 1..5 : RankKey(i)[k] >= -230
<1>1. i \in Nat
  BY RoadmapAssumption DEF Items
<1>2. Score(i) \in Int /\ Score(i) <= 230
  BY DEF Score, Points
<1>3. \A condition \in BOOLEAN : Points(condition, 1) \in 0..1
  BY DEF Points
<1> DEFINE a == Points(Work[i].kind \notin {"RESEARCH", "EXTERNAL_EVIDENCE",
                                            "CONTROLLED_EXPERIMENT"}, 1)
           b == Points(Work[i].lane # "COMPETITOR", 1)
           c == Points(Work[i].lane # "TRUST", 1)
<1>4. a \in 0..1 /\ b \in 0..1 /\ c \in 0..1
  BY <1>3
<1>5. RankKey(i) = <<-Score(i), a, b, c, i>>
  BY DEF RankKey
<1> HIDE DEF a, b, c
<1> QED
  BY <1>1, <1>2, <1>4, <1>5

(* No two items have the same rank: the best of some items is one of them  *)
(* (schedule_cycle sorts by _score and _tie_key).                          *)
LEMMA BestIn ==
  ASSUME NEW S, S \subseteq Items, S # {}
  PROVE  Best(S) \in S
<1> DEFINE First(T, k) == {s \in T : \A t \in T : RankKey(s)[k] <= RankKey(t)[k]}
<1>1. ASSUME NEW T, T \subseteq S, T # {}, NEW k \in 1..5
      PROVE  First(T, k) # {} /\ First(T, k) \subseteq T
  <2> DEFINE f == [s \in T |-> RankKey(s)[k]]
  <2>1. f \in [T -> Int] /\ \A s \in T : f[s] >= -230
    BY <1>1, RankKeyType
  <2>2. \E s \in T : \A t \in T : f[s] <= f[t]
    <3> HIDE DEF f
    <3> QED
      BY <1>1, <2>1, LeastBy
  <2> QED
    BY <2>2
<1> DEFINE A == First(S, 1)
           B == First(A, 2)
           C == First(B, 3)
           D == First(C, 4)
           E == First(D, 5)
<1> HIDE DEF First
<1>2. A # {} /\ A \subseteq S
  BY <1>1
<1> HIDE DEF A
<1>3. B # {} /\ B \subseteq A
  BY <1>1, <1>2
<1> HIDE DEF B
<1>4. C # {} /\ C \subseteq B
  BY <1>1, <1>2, <1>3
<1> HIDE DEF C
<1>5. D # {} /\ D \subseteq C
  BY <1>1, <1>2, <1>3, <1>4
<1> HIDE DEF D
<1>6. E # {} /\ E \subseteq D
  BY <1>1, <1>2, <1>3, <1>4, <1>5
<1>7. PICK i \in E : TRUE
  BY <1>6
<1>8. i \in A /\ i \in B /\ i \in C /\ i \in D /\ i \in E /\ i \in S
  BY <1>2, <1>3, <1>4, <1>5, <1>6, <1>7
<1>9. ASSUME NEW T, T \subseteq S, NEW k \in 1..5, i \in First(T, k), NEW j \in T
      PROVE  /\ j \in First(T, k) => RankKey(i)[k] = RankKey(j)[k]
             /\ j \notin First(T, k) => RankKey(i)[k] < RankKey(j)[k]
  <2>1. \A t \in S : RankKey(t)[k] \in Int
    BY RankKeyType
  <2> USE DEF First
  <2>2. j \in First(T, k) => RankKey(i)[k] = RankKey(j)[k]
    BY <1>9, <2>1
  <2>3. ASSUME j \notin First(T, k) PROVE RankKey(i)[k] < RankKey(j)[k]
    <3>1. PICK t \in T : ~(RankKey(j)[k] <= RankKey(t)[k])
      BY <2>3
    <3>2. RankKey(i)[k] <= RankKey(t)[k]
      BY <1>9
    <3> QED
      BY <1>9, <2>1, <3>1, <3>2
  <2> QED
    BY <2>2, <2>3
<1>10. ASSUME NEW j \in S \ {i} PROVE Before(i, j)
  <2>0. A \subseteq S /\ B \subseteq S /\ C \subseteq S /\ D \subseteq S
    BY <1>2, <1>3, <1>4, <1>5
  <2>1. /\ j \in A => RankKey(i)[1] = RankKey(j)[1]
        /\ j \notin A => RankKey(i)[1] < RankKey(j)[1]
    BY <1>8, <1>9, <1>10 DEF A
  <2>2. j \in A => /\ j \in B => RankKey(i)[2] = RankKey(j)[2]
                   /\ j \notin B => RankKey(i)[2] < RankKey(j)[2]
    BY <1>8, <1>9, <2>0 DEF B
  <2>3. j \in B => /\ j \in C => RankKey(i)[3] = RankKey(j)[3]
                   /\ j \notin C => RankKey(i)[3] < RankKey(j)[3]
    BY <1>8, <1>9, <2>0 DEF C
  <2>4. j \in C => /\ j \in D => RankKey(i)[4] = RankKey(j)[4]
                   /\ j \notin D => RankKey(i)[4] < RankKey(j)[4]
    BY <1>8, <1>9, <2>0 DEF D
  <2>5. j \in D => RankKey(i)[5] = RankKey(j)[5] \/ RankKey(i)[5] < RankKey(j)[5]
    BY <1>8, <1>9, <2>0 DEF E
  <2>6. RankKey(i)[5] # RankKey(j)[5]
    BY <1>8, <1>10, RankKeyType
  <2>7. ASSUME NEW k \in 1..5, RankKey(i)[k] < RankKey(j)[k],
               \A l \in 1..(k - 1) : RankKey(i)[l] = RankKey(j)[l]
        PROVE  Before(i, j)
    BY <2>7 DEF Before
  <2> DEFINE same(k) == RankKey(i)[k] = RankKey(j)[k]
             less(k) == RankKey(i)[k] < RankKey(j)[k]
  <2>8. \/ less(1)
        \/ same(1) /\ less(2)
        \/ same(1) /\ same(2) /\ less(3)
        \/ same(1) /\ same(2) /\ same(3) /\ less(4)
        \/ same(1) /\ same(2) /\ same(3) /\ same(4) /\ less(5)
    BY <1>3, <1>4, <1>5, <2>1, <2>2, <2>3, <2>4, <2>5, <2>6, Zenon
  <2>9. /\ 1..(1 - 1) = {} /\ 1..(2 - 1) = {1} /\ 1..(3 - 1) = {1, 2}
        /\ 1..(4 - 1) = {1, 2, 3} /\ 1..(5 - 1) = {1, 2, 3, 4}
    OBVIOUS
  <2>10. \E k \in 1..5 : less(k) /\ \A l \in 1..(k - 1) : same(l)
    <3> HIDE DEF same, less
    <3>1. CASE less(1)
      BY <2>9, <3>1
    <3>2. CASE same(1) /\ less(2)
      BY <2>9, <3>2
    <3>3. CASE same(1) /\ same(2) /\ less(3)
      BY <2>9, <3>3
    <3>4. CASE same(1) /\ same(2) /\ same(3) /\ less(4)
      BY <2>9, <3>4
    <3>5. CASE same(1) /\ same(2) /\ same(3) /\ same(4) /\ less(5)
      BY <2>9, <3>5
    <3> QED
      BY <2>8, <3>1, <3>2, <3>3, <3>4, <3>5
  <2> QED
    BY <2>7, <2>10
<1> QED
  BY <1>8, <1>10 DEF Best


(* The lanes in the order of a cycle are those of the configuration, and   *)
(* the lane at the cursor is the first.                                    *)
LEMMA FairLanesType ==
  ASSUME NEW c \in 1..4
  PROVE  /\ FairLanes(c)[1] = CoreLanes[c]
         /\ \A k \in 1..4 : \E l \in 1..4 : FairLanes(c)[l] = CoreLanes[k] /\ l - 1 = Until(c, k)
<1>1. FairLanes(c)[1] = CoreLanes[c]
  <2>1. ((c + 1 - 2) % 4) + 1 = c
    OBVIOUS
  <2> QED
    BY <2>1 DEF FairLanes
<1>2. ASSUME NEW k \in 1..4
      PROVE  \E l \in 1..4 : FairLanes(c)[l] = CoreLanes[k] /\ l - 1 = Until(c, k)
  <2> DEFINE l == Until(c, k) + 1
  <2>1. l \in 1..4 /\ l - 1 = Until(c, k)
    BY DEF Until
  <2>2. ((c + l - 2) % 4) + 1 = k
    BY DEF Until
  <2>3. FairLanes(c)[l] = CoreLanes[((c + l - 2) % 4) + 1]
    <3> HIDE DEF l
    <3> QED
      BY <2>1 DEF FairLanes
  <2>4. FairLanes(c)[l] = CoreLanes[k]
    <3> HIDE DEF l
    <3> QED
      BY <2>2, <2>3
  <2> QED
    BY <2>1, <2>4
<1> QED
  BY <1>1, <1>2

(* The first of some positions exists.                                     *)
LEMMA FirstOf ==
  ASSUME NEW T, T \subseteq 1..5, T # {}
  PROVE  LET f == CHOOSE k \in T : \A j \in T : k <= j
         IN  f \in T /\ \A j \in T : f <= j
<1>1. T \subseteq Nat
  OBVIOUS
<1>2. \E k \in T : \A j \in T : k <= j
  BY <1>1, LeastElement
<1> QED
  BY <1>2

(* What is picked is eligible, for reading or for writing.                 *)
LEMMA PickIn ==
  ASSUME NEW mutating \in BOOLEAN, NEW i \in Pick(mutating)
  PROVE  i \in Items /\ Eligible(i)
<1> DEFINE open == {k \in 1..5 : EligibleIn(FairLanes(lane)[k], mutating) # {}}
           first == CHOOSE k \in open : \A j \in open : k <= j
<1>1. open # {} /\ i = Best(EligibleIn(FairLanes(lane)[first], mutating))
  BY DEF Pick
<1>2. first \in open
  BY <1>1, FirstOf
<1> DEFINE S == EligibleIn(FairLanes(lane)[first], mutating)
<1>3. S # {} /\ S \subseteq Items /\ \A j \in S : Eligible(j)
  BY <1>2 DEF EligibleIn
<1> HIDE DEF S
<1>4. Best(S) \in S
  BY <1>3, BestIn
<1> QED
  BY <1>1, <1>3, <1>4 DEF S

(* When nothing runs, the lane at the cursor is served before any other:   *)
(* a core lane with eligible mutating work that is not served is not it.   *)
LEMMA CursorIsServed ==
  ASSUME lane \in 1..4, \A j \in Items : status[j] # "RUNNING",
         EligibleIn(CoreLanes[lane], TRUE) # {}
  PROVE  \E i \in Pick(TRUE) : Work[i].lane = CoreLanes[lane]
<1> DEFINE open == {k \in 1..5 : EligibleIn(FairLanes(lane)[k], TRUE) # {}}
           first == CHOOSE k \in open : \A j \in open : k <= j
<1>1. FairLanes(lane)[1] = CoreLanes[lane]
  BY FairLanesType
<1>2. 1 \in open
  <2>1. EligibleIn(FairLanes(lane)[1], TRUE) # {}
    BY <1>1
  <2> HIDE DEF open
  <2>2. \A k \in 1..5 : EligibleIn(FairLanes(lane)[k], TRUE) # {} => k \in open
    BY DEF open
  <2>3. 1 \in 1..5
    OBVIOUS
  <2> QED
    BY <2>1, <2>2, <2>3
<1>3. first \in open /\ first <= 1
  <2> HIDE DEF open
  <2>1. open \subseteq 1..5
    BY DEF open
  <2> QED
    BY <1>2, <2>1, FirstOf
<1>4. first = 1
  <2>1. first \in 1..5
    BY <1>3
  <2> HIDE DEF first, open
  <2> QED
    BY <1>3, <2>1
<1> DEFINE S == EligibleIn(CoreLanes[lane], TRUE)
<1>5. Pick(TRUE) = {Best(S)}
  BY <1>1, <1>2, <1>4 DEF Pick
<1>6. S \subseteq Items /\ \A j \in S : Work[j].lane = CoreLanes[lane]
  BY DEF EligibleIn
<1> HIDE DEF S
<1>7. Best(S) \in S
  BY <1>6, BestIn DEF S
<1> QED
  BY <1>5, <1>6, <1>7

(* A decision brings every lane that it passes over one place nearer to    *)
(* the cursor, and the lane at the cursor to the end.                      *)
LEMMA RotationStep ==
  ASSUME NEW c \in 1..4, NEW t \in [1..4 -> 0..Tallied], Rotation(c, t),
         NEW u \in [1..4 -> 0..Tallied],
         \A k \in 1..4 : \/ u[k] = 0
                         \/ u[k] = t[k] /\ k # c
                         \/ u[k] = t[k] + 1 /\ k # c
  PROVE  Rotated(c) \in 1..4 /\ Rotation(Rotated(c), u)
<1>1. Rotated(c) \in 1..4
  BY DEF Rotated
<1>2. ASSUME NEW k \in 1..4 PROVE u[k] + Until(Rotated(c), k) <= 3
  <2>1. t[k] + Until(c, k) <= 3 /\ t[k] \in Int /\ u[k] \in Int
    BY DEF Rotation, Tallied
  <2>2. Until(Rotated(c), k) \in 0..3
    BY <1>1 DEF Until
  <2>3. k # c => Until(Rotated(c), k) = Until(c, k) - 1
    <3>1. c \in {1, 2, 3, 4} /\ k \in {1, 2, 3, 4}
      OBVIOUS
    <3> QED
      BY <3>1 DEF Until, Rotated
  <2>4. Until(c, k) \in Int
    BY DEF Until
  <2> QED
    BY <2>1, <2>2, <2>3, <2>4
<1> QED
  BY <1>1, <1>2 DEF Rotation


-----------------------------------------------------------------------------
(* The cursor in memory and its history are those on disk after a failure  *)
(* and after they were saved; only a decision changes them.                *)
LaneStep ==
  \/ UNCHANGED <<lane, tally, cursor, waited>>
  \/ lane' = cursor /\ tally' = waited /\ UNCHANGED <<cursor, waited>>
  \/ UNCHANGED <<lane, tally>> /\ cursor' = lane /\ waited' = tally
  \/ Schedule

(* Every step is one of these (run_cycle, initialize).                     *)
LEMMA LaneSteps == Next => LaneStep
<1> SUFFICES ASSUME Next PROVE LaneStep
  OBVIOUS
<1>1. /\ Raise => LaneStep
      /\ \A c \in {cursor} : Forget(c) /\ Unsaved => LaneStep
      /\ Same /\ lane' = lane => LaneStep
      /\ \A t : Goto(t) /\ lane' = lane => LaneStep
      /\ Saved(lane, tally) /\ lane' = lane => LaneStep
  BY DEF Raise, Forget, Unsaved, Same, Goto, Saved, history, LaneStep
<1>2. ASSUME NEW i, NEW s, NEW n, NEW r, Promoted(i, s, n, r) PROVE LaneStep
  BY <1>1, <1>2 DEF Promoted
<1>3. CASE Promotion
  <2>1. CASE PromotePauses \/ EndPromotion
    BY <1>1, <2>1 DEF PromotePauses, EndPromotion, StartPromotion
  <2>2. ASSUME NEW i \in Items,
               ReviewUnavailable(i) \/ ReviewWaits(i) \/ ReviewDecided(i)
                 \/ PromoteReceipt(i) \/ PromoteWork(i) \/ RecordEvidence(i)
        PROVE  LaneStep
    BY <1>1, <1>2, <2>2
    DEF ReviewUnavailable, ReviewWaits, ReviewDecided, PromoteReceipt, PromoteWork, LeftAlone,
        RecordEvidence
  <2> QED
    BY <1>3, <2>1, <2>2 DEF Promotion
<1>4. CASE Advance
  BY <1>1, <1>4 DEF Advance, NoAdvance, AdvanceRefused, BeginAdvance, WriteReceipt, WriteState,
     DropTransaction, CreateMarker, StartPromotion, memory
<1>5. CASE Execution
  <2>1. CASE Schedule
    BY <2>1 DEF LaneStep
  <2>2. CASE Gathered \/ SaveState
    BY <1>1, <2>2 DEF Gathered, SaveState
  <2>3. ASSUME NEW i \in Items,
               Enqueue(i) \/ Claim(i) \/ Passes(i) \/ Refused(i) \/ SentBack(i) \/ Raises(i)
        PROVE  LaneStep
    BY <1>1, <2>3 DEF Enqueue, Claim, Passes, Refused, SentBack, Raises, Ended, memory
  <2> QED
    BY <1>5, <2>1, <2>2, <2>3 DEF Execution
<1>6. CASE Preflight \/ Recover \/ Align
  BY <1>1, <1>6 DEF Preflight, Recover, Align, memory, Forget
<1>7. CASE Crash \/ Install
  BY <1>1, <1>7 DEF Crash, Install, memory
<1> QED
  BY <1>3, <1>4, <1>5, <1>6, <1>7 DEF Next, Process

(* What a decision counts. *)
Hungry == {k \in 1..4 : EligibleIn(CoreLanes[k], TRUE) # {}}
Served == {k \in 1..4 : \E i \in Pick(TRUE) : Work[i].lane = CoreLanes[k]}
Counted == [k \in 1..4 |-> IF k \notin Hungry \ Served THEN 0
                           ELSE IF tally[k] < Tallied THEN tally[k] + 1 ELSE tally[k]]

(* A decision, without its conditions. *)
LEMMA ScheduleDecides ==
  ASSUME Schedule
  PROVE  /\ picked' = Pick(FALSE) \cup Pick(TRUE) /\ lane' = Rotated(lane) /\ future' = {}
         /\ tally' = Counted /\ UNCHANGED <<queue, journal, behind, satisfied, next, raised, crashes>>
         /\ \/ cursor' = Rotated(lane) /\ waited' = Counted /\ pc' = "recover" /\ stage' = "init"
            \/ UNCHANGED <<cursor, waited, stage>> /\ pc' = "run"
  BY DEF Schedule, Saved, Hungry, Served, Counted

(* No lane waits longer than it takes the cursor to reach it.              *)
LEMMA LaneNext ==
  ASSUME CycleTyped, RunningInv, LaneInv, Next
  PROVE  /\ LaneInv'
         /\ cursor' \in 1..4 /\ lane' \in 1..4
         /\ waited' \in [1..4 -> 0..Tallied] /\ tally' \in [1..4 -> 0..Tallied]
<1>1. /\ cursor \in 1..4 /\ lane \in 1..4
      /\ waited \in [1..4 -> 0..Tallied] /\ tally \in [1..4 -> 0..Tallied]
  BY DEF CycleTyped
<1>2. Rotation(lane, tally) /\ Rotation(cursor, waited)
  BY DEF LaneInv
<1> DEFINE Sound(c, t) == c \in 1..4 /\ t \in [1..4 -> 0..Tallied] /\ Rotation(c, t)
<1>3. Sound(lane, tally) /\ Sound(cursor, waited)
  BY <1>1, <1>2
<1>4. Sound(lane', tally') /\ Sound(cursor', waited')
  <2> HIDE DEF Sound
  <2>1. CASE Schedule
    <3>1. Counted \in [1..4 -> 0..Tallied]
      BY <1>1 DEF Counted, Tallied
    <3>2. lane \notin Hungry \ Served
      <4>1. \A j \in Items : status[j] # "RUNNING"
        BY <2>1 DEF Schedule, RunningInv
      <4> QED
        BY <1>1, <4>1, CursorIsServed DEF Hungry, Served
    <3>3. \A k \in 1..4 : \/ Counted[k] = 0
                          \/ Counted[k] = tally[k] /\ k # lane
                          \/ Counted[k] = tally[k] + 1 /\ k # lane
      BY <3>2 DEF Counted
    <3>4. Sound(Rotated(lane), Counted)
      <4> HIDE DEF Sound
      <4>1. Rotated(lane) \in 1..4 /\ Rotation(Rotated(lane), Counted)
        BY <1>1, <1>2, <3>1, <3>3, RotationStep
      <4> QED
        BY <3>1, <4>1 DEF Sound
    <3> QED
      BY <1>3, <2>1, <3>4, ScheduleDecides
  <2> QED
    BY <1>3, <2>1, LaneSteps DEF LaneStep
<1> QED
  BY <1>4 DEF LaneInv


-----------------------------------------------------------------------------
(* A step by its effect on the cycle: work that is sent out was picked or  *)
(* was out already, and nothing but the write of the runtime state makes   *)
(* another milestone the active one.                                       *)
Sent == {"QUEUED", "RUNNING"}

Starts ==
  /\ active' = active \/ WriteState
  /\ \A i \in Items : status'[i] \in Sent => status[i] \in Sent \/ (pc = "run" /\ i \in picked)
  /\ pc' = "run" => (pc = "run" /\ picked' \subseteq picked) \/ Schedule
  /\ RunningInv'

(* Steps outside of an execution send nothing out and run nothing. *)
Rests ==
  /\ active' = active
  /\ \A i \in Items : status'[i] \in Sent => status[i] = status'[i]
  /\ \/ pc' = "down"
     \/ pc' = "run" /\ pc = "run" /\ UNCHANGED <<picked, raised>>
     \/ pc' = "recover" /\ pc = "down"
     \/ pc' # "run" /\ pc \notin {"run", "down", "recover"}

(* Such a step leaves what runs to its execution or to the next recovery.  *)
LEMMA RestsStarts ==
  ASSUME RunningInv, Rests PROVE Starts
  BY DEF RunningInv, Rests, Starts, Sent

(* Promotion, the advance and what surrounds them (_promote_ready).        *)
LEMMA PromotionRests ==
  ASSUME EvidenceInv, Promotion PROVE Rests
<1> DEFINE Left == {"BLOCKED_POLICY", "WAITING_EXTERNAL", "PASSED_ENGINEERING",
                    "REJECTED_VALUE", "READY"}
<1>1. ASSUME NEW i \in Items, NEW s \in Left, NEW n, NEW r,
             pc = "promote", Promoted(i, s, n, r)
      PROVE  Rests
  <2>1. active' = active /\ pc' \in {"promote", "down"}
    BY <1>1 DEF Promoted, Raise, Forget, Goto, journal
  <2>2. status' = [status EXCEPT ![i] = s] \/ status' = status
    BY <1>1 DEF Promoted
  <2>3. \A j \in Items : status'[j] = status[j] \/ status'[j] \in Left
    BY <2>2 DEF EvidenceInv
  <2> QED
    BY <1>1, <2>1, <2>3 DEF Rests, Sent
<1>2. CASE PromotePauses
  <2>1. PICK due \in SUBSET {i \in Items : status[i] = "PAUSED_BACKEND"} :
          \E bad \in SUBSET due :
            status' = [i \in Items |-> IF i \in bad THEN "BLOCKED_TECHNICAL"
                                       ELSE IF i \in due THEN "READY" ELSE status[i]]
    BY <1>2 DEF PromotePauses
  <2>2. \A i \in Items : status'[i] \in Sent => status[i] = status'[i]
    BY <2>1 DEF Sent
  <2> QED
    BY <1>2, <2>2 DEF PromotePauses, StartPromotion, Goto, journal, Rests
<1>3. CASE EndPromotion
  BY <1>3 DEF EndPromotion, Goto, queue, journal, Rests
<1>4. ASSUME NEW i \in Items, LeftAlone(i), pc = "promote" PROVE Rests
  BY <1>4 DEF LeftAlone, Goto, queue, journal, Rests
<1>5. ASSUME NEW i \in Items, RecordEvidence(i) PROVE Rests
  BY <1>5 DEF RecordEvidence, Goto, journal, Rests
<1>6. ASSUME NEW i \in Items,
             ReviewUnavailable(i) \/ ReviewWaits(i) \/ ReviewDecided(i)
               \/ PromoteReceipt(i) \/ PromoteWork(i)
      PROVE  Rests
  <2>1. pc = "promote"
    BY <1>6 DEF ReviewUnavailable, ReviewWaits, ReviewDecided, PromoteReceipt, PromoteWork,
       IsReview, IsNext
  <2> QED
    BY <1>1, <1>4, <1>6, <2>1
    DEF ReviewUnavailable, ReviewWaits, ReviewDecided, PromoteReceipt, PromoteWork
<1> QED
  BY <1>2, <1>3, <1>5, <1>6 DEF Promotion

(* An advance touches no item (_advance_completed_milestone).              *)
LEMMA AdvanceRests ==
  ASSUME Advance, ~WriteState PROVE Rests
<1>1. CASE NoAdvance \/ BeginAdvance \/ WriteReceipt
  BY <1>1 DEF NoAdvance, BeginAdvance, WriteReceipt, Goto, queue, journal, Rests
<1>2. CASE AdvanceRefused
  BY <1>2 DEF AdvanceRefused, Raise, Forget, queue, journal, Rests
<1>3. CASE DropTransaction \/ CreateMarker
  BY <1>3 DEF DropTransaction, CreateMarker, StartPromotion, Goto, queue, Rests
<1> QED
  BY <1>1, <1>2, <1>3 DEF Advance

(* Nor do the steps around the cycle (run_startup_preflight, initialize).  *)
LEMMA OtherRests ==
  ASSUME Preflight \/ Align \/ Crash \/ Install PROVE Rests
<1>1. CASE Preflight
  BY <1>1 DEF Preflight, Goto, queue, Rests
<1>2. CASE Align
  BY <1>2 DEF Align, Forget, Goto, queue, journal, Rests
<1>3. CASE Crash
  BY <1>3 DEF Crash, Forget, queue, journal, Rests
<1>4. CASE Install
  BY <1>4 DEF Install, queue, journal, Rests
<1> QED
  BY <1>1, <1>2, <1>3, <1>4

(* What an execution sends out was picked (execute_selected in run_cycle). *)
LEMMA ExecutionStarts ==
  ASSUME EvidenceInv, RunningInv, Execution PROVE Starts
<1>1. CASE Schedule
  <2>1. UNCHANGED <<status, active>> /\ pc = "schedule" /\ pc' \in {"run", "recover"}
    BY <1>1 DEF Schedule, queue, journal
  <2> QED
    BY <1>1, <2>1 DEF Starts, Sent, RunningInv
<1>2. CASE Gathered
  <2>1. /\ UNCHANGED <<status, active>> /\ pc = "run" /\ picked = {}
        /\ pc' = "down" \/ (pc' = "align" /\ ~raised)
    BY <1>2 DEF Gathered, Raise, Forget, Goto, queue, journal
  <2> QED
    BY <2>1 DEF Starts, Sent, RunningInv
<1>3. CASE SaveState
  <2>1. UNCHANGED <<status, active>> /\ pc = "save" /\ pc' = "recover"
    BY <1>3 DEF SaveState, queue, journal
  <2> QED
    BY <2>1 DEF Starts, Sent, RunningInv
<1>4. ASSUME NEW i \in Items, NEW s, status' = [status EXCEPT ![i] = s],
             active' = active, pc = "run", pc' = "run", i \in picked,
             \/ UNCHANGED <<picked, raised>>
             \/ s # "RUNNING" /\ picked' = picked \ {i} /\ raised' = raised
      PROVE  Starts
  <2>1. \A j \in Items : status'[j] = IF j = i THEN s ELSE status[j]
    BY <1>4 DEF EvidenceInv
  <2> QED
    BY <1>4, <2>1 DEF Starts, Sent, RunningInv
<1>5. ASSUME NEW i \in Items, Enqueue(i) \/ Claim(i) PROVE Starts
  BY <1>4, <1>5 DEF Enqueue, Claim, Goto, journal, memory
<1>6. ASSUME NEW i \in Items, Passes(i) \/ Refused(i) \/ SentBack(i) PROVE Starts
  BY <1>4, <1>6 DEF Passes, Refused, SentBack, Ended, Goto, journal
<1>7. ASSUME NEW i \in Items, Raises(i) PROVE Starts
  BY <1>7 DEF Raises, Ended, Goto, journal, Starts, Sent, RunningInv
<1> QED
  BY <1>1, <1>2, <1>3, <1>5, <1>6, <1>7 DEF Execution

(* One step per action. *)
LEMMA EveryStepStarts ==
  ASSUME EvidenceInv, RunningInv, Next PROVE Starts
<1>1. CASE Promotion \/ (Advance /\ ~WriteState) \/ Preflight \/ Align \/ Crash \/ Install
  BY <1>1, PromotionRests, AdvanceRests, OtherRests, RestsStarts
<1>2. CASE WriteState
  <2>1. status' = status /\ pc = "state" /\ pc' = "unlink"
    BY <1>2 DEF WriteState, Goto, queue
  <2> QED
    BY <1>2, <2>1 DEF Starts, Sent, RunningInv
<1>3. CASE Recover
  <2>1. active' = active /\ pc' # "run" /\ \A i \in Items : status'[i] # "RUNNING"
    BY <1>3 DEF Recover, Goto, journal
  <2>2. \A i \in Items : status'[i] = "QUEUED" => status[i] = "QUEUED"
    BY <1>3 DEF Recover
  <2> QED
    BY <2>1, <2>2 DEF Starts, Sent, RunningInv
<1> QED
  BY <1>1, <1>2, <1>3, ExecutionStarts DEF Next, Process

(* The lanes of the next milestone are opened by the policy of the active  *)
(* one, or none is (_future_lane_milestones).                              *)
LEMMA FutureNext ==
  ASSUME FutureInv, Next, stage \in Stages PROVE FutureInv'
<1>1. /\ pc' = "down" /\ stage' = "init" => FutureInv'
      /\ UNCHANGED <<pc, stage, future, active>> => FutureInv'
  BY DEF FutureInv
<1>2. FutureLanes(status') \subseteq AllowFuture[active]
  BY DEF FutureLanes
<1>3. CASE Promotion
  <2>1. ASSUME NEW i \in Items, NEW s, NEW n, NEW r, pc = "promote", Promoted(i, s, n, r)
        PROVE  FutureInv'
    BY <1>1, <2>1 DEF Promoted, Raise, Forget, Goto, journal
  <2>2. CASE PromotePauses
    BY <1>2, <2>2 DEF PromotePauses, StartPromotion, Goto, journal, FutureInv
  <2>3. CASE EndPromotion
    BY <2>3 DEF EndPromotion, Goto, journal, FutureInv
  <2>4. ASSUME NEW i \in Items, pc = "promote", LeftAlone(i) PROVE FutureInv'
    BY <1>1, <2>4 DEF LeftAlone, Goto, journal
  <2>5. ASSUME NEW i \in Items, RecordEvidence(i) PROVE FutureInv'
    BY <1>1, <2>5 DEF RecordEvidence, Goto, journal
  <2>6. ASSUME NEW i \in Items,
               ReviewUnavailable(i) \/ ReviewWaits(i) \/ ReviewDecided(i)
                 \/ PromoteReceipt(i) \/ PromoteWork(i)
        PROVE  FutureInv'
    <3>1. pc = "promote"
      BY <2>6 DEF ReviewUnavailable, ReviewWaits, ReviewDecided, PromoteReceipt, PromoteWork,
         IsReview, IsNext
    <3> QED
      BY <2>1, <2>4, <2>6, <3>1
      DEF ReviewUnavailable, ReviewWaits, ReviewDecided, PromoteReceipt, PromoteWork
  <2> QED
    BY <1>3, <2>2, <2>3, <2>5, <2>6 DEF Promotion
<1>4. CASE Advance
  <2>1. CASE NoAdvance \/ BeginAdvance \/ WriteReceipt \/ WriteState
    BY <2>1 DEF NoAdvance, BeginAdvance, WriteReceipt, WriteState, Goto, journal, memory, FutureInv
  <2>2. CASE AdvanceRefused
    BY <1>1, <2>2 DEF AdvanceRefused, Raise, Forget
  <2>3. CASE DropTransaction
    BY <2>3 DEF DropTransaction, StartPromotion, Goto, memory, FutureInv
  <2>4. CASE CreateMarker
    BY <2>4 DEF CreateMarker, StartPromotion, Goto, FutureInv
  <2> QED
    BY <1>4, <2>1, <2>2, <2>3, <2>4 DEF Advance
<1>5. CASE Execution
  <2>1. CASE Schedule \/ SaveState
    BY <2>1 DEF Schedule, SaveState, journal, FutureInv
  <2>2. CASE Gathered
    BY <1>1, <2>2 DEF Gathered, Raise, Forget, Goto, journal, FutureInv
  <2>3. ASSUME NEW i \in Items,
               Enqueue(i) \/ Claim(i) \/ Passes(i) \/ Refused(i) \/ SentBack(i) \/ Raises(i)
        PROVE  FutureInv'
    BY <1>1, <2>3 DEF Enqueue, Claim, Passes, Refused, SentBack, Raises, Ended, Goto, journal,
       memory
  <2> QED
    BY <1>5, <2>1, <2>2, <2>3 DEF Execution
<1>6. CASE Preflight \/ Recover
  BY <1>6 DEF Preflight, Recover, Goto, journal, memory, FutureInv
<1>7. CASE Align
  BY <1>1, <1>7 DEF Align, Forget, Goto, journal, memory, FutureInv
<1>8. CASE Crash \/ Install
  BY <1>1, <1>8 DEF Crash, Install, Forget, journal, memory
<1> QED
  BY <1>3, <1>4, <1>5, <1>6, <1>7, <1>8 DEF Next, Process

(* What is in scope stays so while the milestone is the active one.        *)
LEMMA PermittedLasts ==
  ASSUME Lasting, NEW i \in Items, Permitted(i), active' = active
  PROVE  Permitted(i)'
<1>1. Satisfied \subseteq Satisfied'
  BY DEF Lasting, Satisfied, Settled
<1> QED
  BY <1>1 DEF Permitted

(* The decision is made in the scope (schedule_cycle), and what was sent   *)
(* out for a milestone is settled before the milestone is left.            *)
LEMMA ScopeNext ==
  ASSUME CompletionInv, ScheduleInv, Next PROVE ScopeInv'
<1>1. Lasting /\ Starts
  BY EveryStepLasts, EveryStepStarts DEF CompletionInv, ScheduleInv
<1>2. CASE WriteState
  <2>1. UNCHANGED <<status, evidence, picked>> /\ pc' = "unlink" /\ active' = txn + 1
    BY <1>2 DEF WriteState, Goto, queue, memory
  <2>2. active \in Milestones /\ txn \in Milestones /\ (txn = active \/ txn + 1 = active)
    BY <1>2 DEF WriteState, CompletionInv, JournalInv, Journalled
  <2>3. ASSUME NEW i \in Items, status[i] \in Sent PROVE Permitted(i)'
    <3>1. Permitted(i)
      BY <2>3 DEF ScheduleInv, ScopeInv, Sent
    <3>2. CASE txn + 1 = active
      BY <1>1, <2>1, <3>1, <3>2, PermittedLasts
    <3>3. CASE txn = active
      <4>1. ProvenFor(active)
        BY <2>2, <3>3 DEF CompletionInv, ProvenInv
      <4>2. Work[i].milestone # active
        BY <2>2, <2>3, <4>1 DEF ProvenFor, ItemsOf, Sent, SATISFIED
      <4>3. Work[i].milestone = active'
        BY <2>1, <3>1, <3>3, <4>2 DEF Permitted
      <4>4. Satisfied' = Satisfied
        BY <2>1 DEF Satisfied
      <4> QED
        BY <3>1, <4>3, <4>4 DEF Permitted
    <3> QED
      BY <2>2, <3>2, <3>3
  <2> QED
    BY <2>1, <2>3 DEF ScopeInv, Sent
<1>3. CASE ~WriteState
  <2>1. active' = active
    BY <1>1, <1>3 DEF Starts
  <2>2. ASSUME NEW i \in Items, status'[i] \in Sent PROVE Permitted(i)'
    <3>1. Permitted(i)
      BY <1>1, <2>2 DEF Starts, Sent, ScheduleInv, ScopeInv
    <3> QED
      BY <1>1, <2>1, <3>1, PermittedLasts
  <2>3. ASSUME pc' = "run", NEW i \in picked' PROVE Permitted(i)'
    <3>1. CASE pc = "run" /\ picked' \subseteq picked
      <4>1. i \in Items /\ Permitted(i)
        BY <2>3, <3>1 DEF ScheduleInv, ScopeInv, CycleTyped
      <4> QED
        BY <1>1, <2>1, <4>1, PermittedLasts
    <3>2. CASE Schedule
      <4>1. i \in Items /\ Eligible(i)
        BY <2>3, <3>2, ScheduleDecides, PickIn
      <4>2. future \subseteq AllowFuture[active]
        BY <3>2 DEF Schedule, ScheduleInv, FutureInv
      <4>3. Permitted(i)
        BY <4>1, <4>2 DEF Eligible, InScope, Permitted
      <4> QED
        BY <1>1, <2>1, <4>1, <4>3, PermittedLasts
    <3> QED
      BY <1>1, <2>3, <3>1, <3>2 DEF Starts
  <2> QED
    BY <2>2, <2>3 DEF ScopeInv, Sent
<1> QED
  BY <1>2, <1>3

(* The items that return to the queue are counted.                         *)
LEMMA ReturnsCounted ==
  ASSUME NEW kept \in SUBSET Items PROVE Cardinality(kept) \in Nat
<1>1. \E n \in Nat : Items = 1..n
  BY RoadmapAssumption DEF Items
<1>2. IsFiniteSet(Items)
  BY <1>1, FS_Interval
<1> QED
  BY <1>2, FS_Subset, FS_CardinalityType

(* The variables of the cycle that LaneNext does not type.                 *)
CycleRest ==
  /\ returns \in 0..MaxReturns /\ behind \in BOOLEAN /\ raised \in BOOLEAN
  /\ pc \in Steps /\ stage \in Stages
  /\ future \subseteq Lanes
  /\ satisfied \subseteq Items /\ picked \subseteq Items
  /\ next \in Nat /\ crashes \in 0..MaxCrashes

(* Every variable keeps its type through the steps of a cycle.             *)
LEMMA RestNext ==
  ASSUME CycleRest, EvidenceInv, Journalled, Next PROVE CycleRest'
<1> USE DEF Steps, Stages
<1>0. {MaxReturns, MaxCrashes} \subseteq Nat /\ Items \subseteq Nat
  BY RoadmapAssumption DEF Items
<1> DEFINE outer == <<returns, behind>>
           idle == <<stage, future, satisfied, next, picked, raised>>
<1>1. /\ Raise /\ UNCHANGED outer => CycleRest'
      /\ \A c : Forget(c) /\ UNCHANGED outer /\ crashes' \in 0..MaxCrashes => CycleRest'
      /\ \A t \in Steps : Goto(t) /\ UNCHANGED outer /\ UNCHANGED idle => CycleRest'
  <2>1. ASSUME NEW c, Forget(c), UNCHANGED outer, crashes' \in 0..MaxCrashes PROVE CycleRest'
    <3>1. /\ pc' = "down" /\ stage' = "init" /\ future' = {} /\ satisfied' = {}
          /\ next' = 1 /\ picked' = {} /\ raised' = FALSE
      BY <2>1 DEF Forget
    <3> QED
      BY <2>1, <3>1 DEF CycleRest
  <2>2. ASSUME NEW t \in Steps, Goto(t), UNCHANGED outer, UNCHANGED idle PROVE CycleRest'
    BY <2>2 DEF Goto, Same, CycleRest
  <2>3. Raise /\ UNCHANGED outer => CycleRest'
    BY <2>1 DEF Raise, CycleRest
  <2> QED
    BY <2>1, <2>2, <2>3
<1>2. FutureLanes(status') \subseteq Lanes
  BY RoadmapAssumption DEF FutureLanes, Journalled
<1>3. ASSUME NEW st, NEW lanes, lanes \subseteq Lanes, StartPromotion(st, lanes),
             UNCHANGED <<returns, behind>>, stage' \in Stages
      PROVE  CycleRest'
  BY <1>3 DEF StartPromotion, Goto, Same, CycleRest
<1>4. CASE Promotion
  <2>1. ASSUME NEW i \in Items, NEW s, NEW n \in Nat, NEW r, Promoted(i, s, n, r)
        PROVE  CycleRest'
    BY <1>1, <2>1 DEF Promoted, Goto, Same, CycleRest
  <2>2. CASE PromotePauses
    BY <1>2, <1>3, <2>2 DEF PromotePauses, CycleRest
  <2>3. CASE EndPromotion
    BY <2>3 DEF EndPromotion, Goto, Same, queue, CycleRest
  <2>4. ASSUME NEW i \in Items, LeftAlone(i) PROVE CycleRest'
    BY <1>0, <2>4 DEF LeftAlone, Goto, Same, queue, CycleRest
  <2>5. ASSUME NEW i \in Items, RecordEvidence(i) PROVE CycleRest'
    BY <1>1, <2>5 DEF RecordEvidence
  <2>6. ASSUME NEW i \in Items,
               ReviewUnavailable(i) \/ ReviewWaits(i) \/ ReviewDecided(i)
                 \/ PromoteReceipt(i) \/ PromoteWork(i)
        PROVE  CycleRest'
    <3>1. i \in Nat /\ i + 1 \in Nat
      BY <1>0
    <3> QED
      BY <2>1, <2>4, <2>6, <3>1
      DEF ReviewUnavailable, ReviewWaits, ReviewDecided, PromoteReceipt, PromoteWork
  <2> QED
    BY <1>4, <2>2, <2>3, <2>5, <2>6 DEF Promotion
<1>5. CASE Advance
  <2>1. CASE NoAdvance \/ BeginAdvance \/ WriteReceipt \/ WriteState
    BY <1>1, <2>1 DEF NoAdvance, BeginAdvance, WriteReceipt, WriteState, queue, memory
  <2>2. CASE AdvanceRefused
    BY <1>1, <2>2 DEF AdvanceRefused, queue
  <2>3. CASE DropTransaction
    <3>1. stage' \in Stages
      BY <2>3 DEF DropTransaction, memory, CycleRest
    <3> QED
      BY <1>1, <1>3, <2>3, <3>1 DEF DropTransaction, queue, memory
  <2>4. CASE CreateMarker
    BY <1>3, <2>4 DEF CreateMarker, queue, CycleRest
  <2> QED
    BY <1>5, <2>1, <2>2, <2>3, <2>4 DEF Advance
<1>6. CASE Execution
  <2>1. CASE Schedule
    <3>1. picked' \subseteq Items
      BY <2>1, ScheduleDecides, PickIn
    <3> QED
      BY <2>1, <3>1, ScheduleDecides DEF queue, CycleRest
  <2>2. CASE SaveState
    BY <2>2 DEF SaveState, queue, CycleRest
  <2>3. CASE Gathered
    BY <1>1, <2>3 DEF Gathered, Goto, Same, queue, CycleRest
  <2>4. ASSUME NEW i \in Items, Enqueue(i) \/ Claim(i) PROVE CycleRest'
    BY <1>1, <2>4 DEF Enqueue, Claim, memory
  <2>5. ASSUME NEW i \in Items, Passes(i) \/ Refused(i) \/ SentBack(i) \/ Raises(i)
        PROVE  CycleRest'
    <3>1. returns' \in 0..MaxReturns /\ raised' \in BOOLEAN
      <4>1. raised' = raised \/ raised' = TRUE
        BY <2>5 DEF Passes, Refused, SentBack, Raises
      <4>2. returns' = returns \/ (returns < MaxReturns /\ returns' = returns + 1)
        BY <2>5 DEF Passes, Refused, SentBack, Raises
      <4>3. raised' \in BOOLEAN
        BY <4>1 DEF CycleRest
      <4>4. returns' \in 0..MaxReturns
        <5>1. returns \in 0..MaxReturns /\ MaxReturns \in Nat
          BY <1>0 DEF CycleRest
        <5> QED
          BY <4>2, <5>1
      <4> QED
        BY <4>3, <4>4
    <3>2. behind' \in BOOLEAN
      BY <2>5 DEF Passes, Refused, SentBack, Raises, CycleRest, Mutating
    <3>3. Ended(i)
      BY <2>5 DEF Passes, Refused, SentBack, Raises
    <3> QED
      BY <3>1, <3>2, <3>3 DEF Ended, Goto, Same, CycleRest
  <2> QED
    BY <1>6, <2>1, <2>2, <2>3, <2>4, <2>5 DEF Execution
<1>7. CASE Recover
  <2>1. PICK kept \in SUBSET {i \in Items : status[i] = "RUNNING"} :
          returns' = returns + Cardinality(kept) /\ returns' <= MaxReturns
    BY <1>7 DEF Recover
  <2>2. Cardinality(kept) \in Nat
    BY ReturnsCounted
  <2>3. returns' \in 0..MaxReturns
    BY <1>0, <2>1, <2>2 DEF CycleRest
  <2> QED
    BY <1>7, <2>3 DEF Recover, Goto, Same, memory, CycleRest
<1>8. CASE Preflight
  BY <1>1, <1>8 DEF Preflight, queue, memory
<1>9. CASE Align
  BY <1>1, <1>9 DEF Align, Goto, Same, queue, memory, CycleRest
<1>10. CASE Crash
  <2>1. crashes' \in 0..MaxCrashes
    BY <1>0, <1>10 DEF Crash, CycleRest
  <2> QED
    BY <1>1, <1>10, <2>1 DEF Crash, queue
<1>11. CASE Install
  BY <1>11 DEF Install, Same, queue, memory, CycleRest
<1> QED
  BY <1>4, <1>5, <1>6, <1>7, <1>8, <1>9, <1>10, <1>11 DEF Next, Process

(* Only a review is withheld, and a new main forgets them all.             *)
LEMMA WithheldNext ==
  ASSUME withheld \subseteq Items, Next PROVE withheld' \subseteq Items
<1>1. CASE Promotion
  <2>1. ASSUME NEW i \in Items,
               ReviewUnavailable(i) \/ ReviewWaits(i) \/ ReviewDecided(i)
                 \/ PromoteReceipt(i) \/ PromoteWork(i) \/ RecordEvidence(i)
        PROVE  withheld' \subseteq Items
    BY <2>1
    DEF ReviewUnavailable, ReviewWaits, ReviewDecided, PromoteReceipt, PromoteWork,
        RecordEvidence
  <2>2. PromotePauses \/ EndPromotion => UNCHANGED withheld
    BY DEF PromotePauses, EndPromotion
  <2> QED
    BY <1>1, <2>1, <2>2 DEF Promotion
<1>2. CASE Advance
  BY <1>2
  DEF Advance, NoAdvance, AdvanceRefused, BeginAdvance, WriteReceipt, WriteState,
      DropTransaction, CreateMarker
<1>3. CASE Execution
  <2>1. ASSUME NEW i \in Items,
               Enqueue(i) \/ Claim(i) \/ Passes(i) \/ Refused(i) \/ SentBack(i) \/ Raises(i)
        PROVE  withheld' \subseteq Items
    BY <2>1 DEF Enqueue, Claim, Passes, Refused, SentBack, Raises
  <2>2. Schedule \/ Gathered \/ SaveState => UNCHANGED withheld
    BY DEF Schedule, Gathered, SaveState
  <2> QED
    BY <1>3, <2>1, <2>2 DEF Execution
<1>4. CASE Preflight \/ Recover \/ Align \/ Crash \/ Install
  BY <1>4 DEF Preflight, Recover, Align, Crash, Install
<1> QED
  BY <1>1, <1>2, <1>3, <1>4 DEF Next, Process

(* The cycle starts with an empty memory and the cursor at the first lane. *)
LEMMA ScheduleInit == Init => ScheduleInv
<1> SUFFICES ASSUME Init PROVE ScheduleInv
  OBVIOUS
<1>1. {MaxReturns, MaxCrashes} \subseteq Nat
  BY RoadmapAssumption
<1>2. CycleTyped
  <2>1. returns \in 0..MaxReturns /\ crashes \in 0..MaxCrashes
    BY <1>1 DEF Init
  <2>2. waited \in [1..4 -> 0..Tallied] /\ tally \in [1..4 -> 0..Tallied]
    BY DEF Init, Tallied
  <2>3. /\ cursor \in 1..4 /\ lane \in 1..4 /\ next \in Nat
        /\ pc \in Steps /\ stage \in Stages /\ behind \in BOOLEAN /\ raised \in BOOLEAN
    <3>1. /\ cursor = 1 /\ lane = 1 /\ next = 1
          /\ pc = "down" /\ stage = "init" /\ behind = FALSE /\ raised = FALSE
      BY DEF Init
    <3>2. behind \in BOOLEAN /\ raised \in BOOLEAN
      BY <3>1
    <3>3. pc \in Steps /\ stage \in Stages
      BY <3>1 DEF Steps, Stages
    <3> QED
      BY <3>1, <3>2, <3>3
  <2>4. future = {} /\ satisfied = {} /\ picked = {} /\ withheld = {}
    BY DEF Init
  <2> QED
    BY <2>1, <2>2, <2>3, <2>4 DEF CycleTyped
<1>3. FutureInv
  BY DEF Init, FutureInv
<1>4. \A i \in Items : status[i] \notin {"QUEUED", "RUNNING"}
  BY DEF Init
<1>5. LaneInv
  BY DEF Init, LaneInv, Rotation, Until
<1> QED
  BY <1>2, <1>3, <1>4, <1>5 DEF Init, ScheduleInv, ScopeInv, RunningInv

(* The scheduler keeps to its scope and starves no lane, for every roadmap *)
(* and every configuration of the lanes, wherever the process fails        *)
(* (schedule_cycle, run_cycle).                                            *)
THEOREM ScheduleSound == Spec => []ScheduleIsSound
<1>1. CompletionInv /\ [Next]_vars => CompletionInv'
  BY JournalStep, EveryStepLasts, ProvenStep DEF CompletionInv, Lasting
<1>2. CompletionInv /\ ScheduleInv /\ [Next]_vars => ScheduleInv'
  <2> SUFFICES ASSUME CompletionInv, ScheduleInv, [Next]_vars PROVE ScheduleInv'
    OBVIOUS
  <2>1. CASE Next
    <3>1. CycleRest /\ EvidenceInv /\ Journalled /\ stage \in Stages
      BY DEF ScheduleInv, CycleTyped, CycleRest, CompletionInv, JournalInv
    <3>2. CycleRest'
      BY <2>1, <3>1, RestNext
    <3>3. /\ LaneInv' /\ cursor' \in 1..4 /\ lane' \in 1..4
          /\ waited' \in [1..4 -> 0..Tallied] /\ tally' \in [1..4 -> 0..Tallied]
      BY <2>1, LaneNext DEF ScheduleInv
    <3>4. FutureInv' /\ ScopeInv'
      BY <2>1, <3>1, FutureNext, ScopeNext DEF ScheduleInv
    <3>5. RunningInv'
      BY <2>1, <3>1, EveryStepStarts DEF ScheduleInv, Starts
    <3>6. withheld' \subseteq Items
      BY <2>1, WithheldNext DEF ScheduleInv, CycleTyped
    <3> QED
      BY <3>2, <3>3, <3>4, <3>5, <3>6 DEF ScheduleInv, CycleTyped, CycleRest
  <2>2. CASE UNCHANGED vars
    BY <2>2
    DEF vars, queue, journal, memory, history, ScheduleInv, CycleTyped, FutureInv, ScopeInv,
        RunningInv, LaneInv, Rotation, Permitted, Satisfied
  <2> QED
    BY <2>1, <2>2
<1>3. CompletionInv /\ ScheduleInv => ScheduleIsSound
  <2> SUFFICES ASSUME CompletionInv, ScheduleInv PROVE ScheduleIsSound
    OBVIOUS
  <2>1. TypeOK
    BY DEF CompletionInv, JournalInv, Journalled, EvidenceInv, ScheduleInv, CycleTyped, TypeOK
  <2>2. ScopeIsRespected
    BY DEF ScheduleInv, ScopeInv, Permitted, ScopeIsRespected
  <2>3. ASSUME NEW k \in 1..4 PROVE tally[k] <= 3
    <3>1. tally[k] + Until(lane, k) <= 3 /\ Until(lane, k) \in 0..3 /\ tally[k] \in Int
      BY DEF ScheduleInv, CycleTyped, LaneInv, Rotation, Until, Tallied
    <3> QED
      BY <3>1
  <2> QED
    BY <2>1, <2>2, <2>3 DEF LaneIsServed, ScheduleIsSound
<1> QED
  BY CompletionInit, ScheduleInit, <1>1, <1>2, <1>3, PTL DEF Spec
=============================================================================
