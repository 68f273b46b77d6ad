--------------------------- MODULE V3QueueProofs ---------------------------
(***************************************************************************)
(* Machine-checked proofs about V3Queue for any number of items and        *)
(* controllers: of the controllers alone (Spec), that what is on disk can  *)
(* be recovered, that what is RUNNING is owned, and that the files         *)
(* implement the atomic life cycle; and beside any number of invocations   *)
(* of `tcfactory recover` (SpecBeside), that no live claim is taken away   *)
(* before two of them overlap.                                             *)
(***************************************************************************)
EXTENDS V3QueueBeside, TLAPS

(* What an operation carries at each of its steps: an item as long as it   *)
(* is in flight, its target from the moment it is requested, and the       *)
(* entry's directory, status and new record once the entry has been read.  *)
OpFits(o, step) ==
  /\ step \in LockedSteps \cup {"inspect", "move", "retire"} => o.item \in Items
  /\ step \in LockedSteps => InPlace(o) \/ o.target \in WorkStatus
  /\ step \in {"inspect", "move", "retire"} =>
       o.from \in WorkStatus /\ o.target \in WorkStatus
  /\ step \in {"journal", "rewrite", "rename", "unjournal", "unlease"} =>
       o.from \in WorkStatus /\ o.dir \in WorkStatus /\ o.next \in Record
  /\ step \in {"lease", "journal", "rename", "unjournal", "unlease"} =>
       ~InPlace(o)

OpTyped == \A p \in Procs : OpFits(op[p], pc[p])

TypeInv == TypeOK /\ OpTyped

LEMMA NoOpType == NoOp \in Operation
  BY DEF NoOp, Operation, NoRecord

(* An operation that begins is well formed. *)
LEMMA BeginType ==
  ASSUME NEW k \in {"transition", "claim", "bind", "refresh", "reconcile"},
         NEW i \in Items, NEW t \in WorkStatus \cup {"ABSENT"},
         NEW ret \in {"recover", "serving", "reconcile"}
  PROVE  Begin(k, i, t, ret) \in Operation
  BY DEF Begin, Operation, NoRecord

(* A process at rest, or in a pass without an operation, needs nothing.    *)
LEMMA IdleFits ==
  ASSUME NEW o,
         NEW step \in {"off", "reconcile", "recover", "serving"}
  PROVE  OpFits(o, step)
  BY DEF OpFits, LockedSteps

(* A step of p that leaves the other processes' positions alone.           *)
LEMMA OnlyOne ==
  ASSUME TypeInv, NEW p \in Procs, NEW o \in Operation, NEW step \in Steps,
         op' = [op EXCEPT ![p] = o], pc' = [pc EXCEPT ![p] = step],
         OpFits(o, step)
  PROVE  /\ op' \in [Procs -> Operation]
         /\ pc' \in [Procs -> Steps]
         /\ OpTyped'
  BY DEF TypeInv, TypeOK, OpTyped

(* The same, for a step that moves p's position only.                      *)
LEMMA OnlyStep ==
  ASSUME TypeInv, NEW p \in Procs, NEW step \in Steps,
         op' = op, pc' = [pc EXCEPT ![p] = step], OpFits(op[p], step)
  PROVE  /\ op' \in [Procs -> Operation]
         /\ pc' \in [Procs -> Steps]
         /\ OpTyped'
  BY DEF TypeInv, TypeOK, OpTyped

(* An exception out of a recovery pass, or a crash. *)
LEMMA AbortType ==
  ASSUME TypeInv, NEW p \in Procs, Abort(p)
  PROVE  /\ pc' \in [Procs -> Steps]
         /\ op' \in [Procs -> Operation]
         /\ todo' \in [Procs -> SUBSET Items]
         /\ held' \in [Procs -> SUBSET Items]
         /\ lock' \in [Items -> Procs \cup {Nobody}]
         /\ cycle' \in Controllers \cup {Nobody}
         /\ OpTyped'
<1>1. OpFits(NoOp, "off") /\ "off" \in Steps
  BY IdleFits DEF Steps
<1>2. /\ op' \in [Procs -> Operation]
      /\ pc' \in [Procs -> Steps]
      /\ OpTyped'
  BY <1>1, OnlyOne, NoOpType DEF Abort, Goto
<1> QED
  BY <1>2 DEF TypeInv, TypeOK, Abort

(* The end of an operation. *)
LEMMA FinishType ==
  ASSUME TypeInv, NEW p \in Procs, Finish(p)
  PROVE  /\ pc' \in [Procs -> Steps]
         /\ op' \in [Procs -> Operation]
         /\ lock' \in [Items -> Procs \cup {Nobody}]
         /\ OpTyped'
<1>1. op[p].ret \in {"off", "reconcile", "recover", "serving"}
  BY DEF TypeInv, TypeOK, Operation
<1>2. OpFits(NoOp, op[p].ret) /\ op[p].ret \in Steps
  BY <1>1, IdleFits DEF Steps
<1>3. /\ op' \in [Procs -> Operation]
      /\ pc' \in [Procs -> Steps]
      /\ OpTyped'
  BY <1>2, OnlyOne, NoOpType DEF Finish, Goto
<1> QED
  BY <1>3 DEF TypeInv, TypeOK, Finish

(* What load returns for an entry that locate finds. *)
LEMMA LoadedType ==
  ASSUME TypeOK, NEW i \in Items, Located(i)
  PROVE  /\ At(i) \in WorkStatus
         /\ Loaded(i) \in Record
         /\ Loaded(i) = file[i][At(i)]
<1>1. PICK s \in WorkStatus : Paths(i) = {s}
  BY DEF Located
<1>2. At(i) \in WorkStatus /\ Paths(i) = {At(i)}
  BY <1>1 DEF At
<1>3. file[i][At(i)] # NoRecord
  BY <1>2 DEF Paths
<1> QED
  BY <1>2, <1>3 DEF Loaded, TypeOK

(* os.replace keeps the type of the directories. *)
LEMMA ReplaceType ==
  ASSUME TypeOK, NEW i \in Items, NEW s \in WorkStatus, NEW t \in WorkStatus,
         Replace(i, s, t)
  PROVE  file' \in [Items -> [WorkStatus -> Record \cup {NoRecord}]]
  BY DEF TypeOK, Replace

(* An exception under an item's flock keeps every variable's type. *)
LEMMA RaiseType ==
  ASSUME TypeInv, NEW p \in Procs, Raise(p)
  PROVE  TypeInv'
<1>1. lease' \in [Items -> Lease \cup {NoLease}]
  BY DEF TypeInv, TypeOK, Raise
<1>2. file' = file /\ journal' = journal
  BY DEF Raise
<1>3. CASE /\ Finish(p)
           /\ held' = [held EXCEPT ![p] = @ \ {op[p].item}]
           /\ UNCHANGED <<cycle, todo>>
  BY <1>1, <1>2, <1>3, FinishType DEF TypeInv, TypeOK
<1>4. CASE Abort(p)
  BY <1>1, <1>2, <1>4, AbortType DEF TypeInv, TypeOK
<1> QED
  BY <1>3, <1>4 DEF Raise

(* A step of a recovery pass keeps every variable's type. *)
LEMMA RecoveryType ==
  ASSUME TypeInv, NEW p \in Procs, Recovery(p)
  PROVE  TypeInv'
<1> USE QueueConstants DEF Procs
<1>1. ASSUME NEW i \in Items, ReadIntent(p, i)
      PROVE  TypeInv'
  <2>1. CASE journal[i] # NoIntent
    <3> DEFINE o == Opened(
                 Begin("reconcile", i, journal[i].target, "reconcile"),
                 journal[i].source, journal[i].source, NoRecord)
    <3>1. journal[i].source \in WorkStatus /\ journal[i].target \in WorkStatus
      BY <2>1 DEF TypeInv, TypeOK, Intent
    <3>2. o = [kind |-> "reconcile", item |-> i, target |-> journal[i].target,
               from |-> journal[i].source, dir |-> journal[i].source,
               next |-> NoRecord, ret |-> "reconcile"]
      BY DEF Begin, Opened
    <3>3. o \in Operation
      BY <3>1, <3>2 DEF Operation
    <3>4. OpFits(o, "inspect") /\ "inspect" \in Steps
      BY <3>1, <3>2 DEF OpFits, LockedSteps, Steps
    <3>5. /\ op' = [op EXCEPT ![p] = o]
          /\ Goto(p, "inspect")
          /\ todo' = [todo EXCEPT ![p] = @ \ {i}]
          /\ UNCHANGED <<disk, lock, cycle, held>>
      BY <1>1, <2>1 DEF ReadIntent
    <3> HIDE DEF o
    <3>6. /\ op' \in [Procs -> Operation]
          /\ pc' \in [Procs -> Steps]
          /\ OpTyped'
      BY <3>3, <3>4, <3>5, OnlyOne DEF Goto
    <3> QED
      BY <3>5, <3>6 DEF TypeInv, TypeOK, disk
  <2>2. CASE journal[i] = NoIntent
    BY <1>1, <2>2, AbortType DEF ReadIntent, TypeInv, TypeOK, disk
  <2> QED
    BY <2>1, <2>2
<1>2. ASSUME Abort(p), UNCHANGED disk
      PROVE  TypeInv'
  BY <1>2, AbortType DEF TypeInv, TypeOK, disk
<1>3. CASE Inspect(p)
  <2>1. /\ OpFits(op[p], "retire") /\ OpFits(op[p], "move")
        /\ {"retire", "move"} \subseteq Steps
    BY <1>3 DEF Inspect, TypeInv, OpTyped, OpFits, LockedSteps, Steps
  <2>2. CASE /\ Goto(p, "retire") \/ Goto(p, "move")
             /\ UNCHANGED <<disk, lock, cycle, op, todo, held>>
    <3>1. /\ op' \in [Procs -> Operation]
          /\ pc' \in [Procs -> Steps]
          /\ OpTyped'
      BY <2>1, <2>2, OnlyStep DEF Goto
    <3> QED
      BY <2>2, <3>1 DEF TypeInv, TypeOK, disk
  <2> QED
    BY <1>2, <1>3, <2>2 DEF Inspect
<1>4. CASE MoveEntry(p)
  <2>1. OpFits(op[p], "retire") /\ "retire" \in Steps
    BY <1>4 DEF MoveEntry, TypeInv, OpTyped, OpFits, LockedSteps, Steps
  <2>2. CASE /\ Replace(op[p].item, op[p].from, op[p].target)
             /\ Goto(p, "retire")
             /\ UNCHANGED <<journal, lease, lock, cycle, op, todo, held>>
    <3>1. file' \in [Items -> [WorkStatus -> Record \cup {NoRecord}]]
      BY <2>1, <2>2, ReplaceType DEF OpFits, TypeInv
    <3>2. /\ op' \in [Procs -> Operation]
          /\ pc' \in [Procs -> Steps]
          /\ OpTyped'
      BY <2>1, <2>2, OnlyStep DEF Goto
    <3> QED
      BY <2>2, <3>1, <3>2 DEF TypeInv, TypeOK
  <2> QED
    BY <1>2, <1>4, <2>2 DEF MoveEntry
<1>5. CASE RetireIntent(p)
  <2>1. OpFits(NoOp, "reconcile") /\ "reconcile" \in Steps
    BY IdleFits DEF Steps
  <2>2. CASE /\ journal' = [journal EXCEPT ![op[p].item] = NoIntent]
             /\ op' = [op EXCEPT ![p] = NoOp]
             /\ Goto(p, "reconcile")
             /\ UNCHANGED <<file, lease, lock, cycle, todo, held>>
    <3>1. /\ op' \in [Procs -> Operation]
          /\ pc' \in [Procs -> Steps]
          /\ OpTyped'
      BY <2>1, <2>2, OnlyOne, NoOpType DEF Goto
    <3> QED
      BY <2>2, <3>1 DEF TypeInv, TypeOK
  <2> QED
    BY <1>2, <1>5, <2>2 DEF RetireIntent
<1>6. CASE ListRunning(p)
  <2>1. OpFits(op[p], "recover") /\ "recover" \in Steps
    BY IdleFits DEF Steps
  <2>2. /\ op' \in [Procs -> Operation]
        /\ pc' \in [Procs -> Steps]
        /\ OpTyped'
    BY <1>6, <2>1, OnlyStep DEF Goto, ListRunning
  <2> QED
    BY <1>6, <2>2 DEF ListRunning, TypeInv, TypeOK, disk
<1>7. ASSUME NEW i \in Items, RecoverClaim(p, i)
      PROVE  TypeInv'
  <2>1. CASE /\ lock' = [lock EXCEPT ![i] = p]
             /\ op' = [op EXCEPT ![p] =
                  Begin("transition", i, "BLOCKED_TECHNICAL", "recover")]
             /\ todo' = [todo EXCEPT ![p] = @ \ {i}]
             /\ Goto(p, "read")
             /\ UNCHANGED <<disk, cycle, held>>
    <3> DEFINE o == Begin("transition", i, "BLOCKED_TECHNICAL", "recover")
    <3>1. o \in Operation
      BY BeginType DEF WorkStatus
    <3>2. OpFits(o, "read") /\ "read" \in Steps
      BY DEF OpFits, Begin, WorkStatus, Steps, LockedSteps
    <3> HIDE DEF o
    <3>3. /\ op' \in [Procs -> Operation]
          /\ pc' \in [Procs -> Steps]
          /\ OpTyped'
      BY <2>1, <3>1, <3>2, OnlyOne DEF Goto, o
    <3> QED
      BY <2>1, <3>3 DEF TypeInv, TypeOK, disk
  <2>2. CASE /\ todo' = [todo EXCEPT ![p] = @ \ {i}]
             /\ UNCHANGED <<disk, lock, cycle, pc, op, held>>
    BY <2>2 DEF TypeInv, TypeOK, OpTyped, disk
  <2> QED
    BY <1>2, <1>7, <2>1, <2>2 DEF RecoverClaim
<1>8. CASE EndRecovery(p)
  <2> DEFINE step == IF p \in Controllers THEN "serving" ELSE "off"
  <2>1. OpFits(op[p], step) /\ step \in Steps
    BY IdleFits DEF Steps
  <2>2. pc' = [pc EXCEPT ![p] = step] /\ op' = op
    BY <1>8 DEF Goto, EndRecovery
  <2> HIDE DEF step
  <2>3. /\ op' \in [Procs -> Operation]
        /\ pc' \in [Procs -> Steps]
        /\ OpTyped'
    BY <2>1, <2>2, OnlyStep
  <2> QED
    BY <1>8, <2>3 DEF EndRecovery, TypeInv, TypeOK, disk
<1> QED
  BY <1>1, <1>3, <1>4, <1>5, <1>6, <1>7, <1>8 DEF Recovery

(* A step under an item's flock keeps every variable's type. *)
LEMMA LockedType ==
  ASSUME TypeInv, NEW p \in Procs, Locked(p)
  PROVE  TypeInv'
<1> USE QueueConstants DEF Procs
<1>0. pc[p] \in LockedSteps => op[p].item \in Items
  BY DEF TypeInv, OpTyped, OpFits
<1>1. CASE WriteLease(p)
  <2>0. [owner |-> p, ttl |-> LeaseTicks] \in Lease
    BY DEF Lease
  <2>1. lease' \in [Items -> Lease \cup {NoLease}]
    BY <1>1, <2>0 DEF WriteLease, TypeInv, TypeOK
  <2>2. OpFits(op[p], "read") /\ "read" \in Steps
    BY <1>1 DEF WriteLease, TypeInv, OpTyped, OpFits, LockedSteps, Steps
  <2>3. /\ op' \in [Procs -> Operation]
        /\ pc' \in [Procs -> Steps]
        /\ OpTyped'
    BY <1>1, <2>2, OnlyStep DEF Goto, WriteLease
  <2> QED
    BY <1>1, <2>1, <2>3 DEF WriteLease, TypeInv, TypeOK
<1>2. CASE ReadEntry(p)
  <2> DEFINE r == Loaded(op[p].item)
             o == Opened(op[p], r.status, At(op[p].item), Updated(op[p], r))
             step == IF InPlace(op[p]) THEN "rewrite" ELSE "journal"
  <2>1. CASE Raise(p)
    BY <2>1, RaiseType
  <2>2. CASE /\ Located(op[p].item)
             /\ op' = [op EXCEPT ![p] = o]
             /\ Goto(p, step)
             /\ UNCHANGED <<disk, lock, cycle, todo, held>>
    <3>1. op[p].item \in Items /\ op[p] \in Operation
          /\ (InPlace(op[p]) \/ op[p].target \in WorkStatus)
      BY <1>2 DEF ReadEntry, TypeInv, TypeOK, OpTyped, OpFits, LockedSteps
    <3>2. At(op[p].item) \in WorkStatus /\ r \in Record
      BY <2>2, <3>1, LoadedType DEF TypeInv
    <3>3. Updated(op[p], r) \in Record
      BY <3>1, <3>2 DEF Updated, Record
    <3>4. o = [kind |-> op[p].kind, item |-> op[p].item,
               target |-> op[p].target, from |-> r.status,
               dir |-> At(op[p].item), next |-> Updated(op[p], r),
               ret |-> op[p].ret]
      BY DEF Opened
    <3>5. r.status \in WorkStatus
      BY <3>2 DEF Record
    <3> HIDE DEF r
    <3>6. o \in Operation
      BY <3>1, <3>2, <3>3, <3>4, <3>5 DEF Operation
    <3>7. OpFits(o, step) /\ step \in Steps
      BY <3>1, <3>2, <3>3, <3>4, <3>5
      DEF OpFits, LockedSteps, Steps, InPlace
    <3> HIDE DEF o, step
    <3>8. /\ op' \in [Procs -> Operation]
          /\ pc' \in [Procs -> Steps]
          /\ OpTyped'
      BY <2>2, <3>6, <3>7, OnlyOne DEF Goto
    <3> QED
      BY <2>2, <3>8 DEF TypeInv, TypeOK, disk
  <2> QED
    BY <1>2, <2>1, <2>2 DEF ReadEntry
<1>3. CASE WriteIntent(p)
  <2>1. journal' \in [Items -> Intent \cup {NoIntent}]
    BY <1>3 DEF WriteIntent, TypeInv, TypeOK, OpTyped, OpFits, Intent,
                LockedSteps
  <2>2. OpFits(op[p], "rewrite") /\ "rewrite" \in Steps
    BY <1>3 DEF WriteIntent, TypeInv, OpTyped, OpFits, LockedSteps, Steps
  <2>3. /\ op' \in [Procs -> Operation]
        /\ pc' \in [Procs -> Steps]
        /\ OpTyped'
    BY <1>3, <2>2, OnlyStep DEF Goto, WriteIntent
  <2> QED
    BY <1>3, <2>1, <2>3 DEF WriteIntent, TypeInv, TypeOK
<1>4. CASE RewriteEntry(p)
  <2>1. file' \in [Items -> [WorkStatus -> Record \cup {NoRecord}]]
    BY <1>4 DEF RewriteEntry, TypeInv, TypeOK, Operation
  <2>2. CASE Finish(p)
    BY <1>4, <2>1, <2>2, FinishType DEF RewriteEntry, TypeInv, TypeOK
  <2>3. CASE ~InPlace(op[p]) /\ Goto(p, "rename") /\ UNCHANGED <<op, lock>>
    <3>1. OpFits(op[p], "rename") /\ "rename" \in Steps
      BY <1>4, <2>3
      DEF RewriteEntry, TypeInv, OpTyped, OpFits, LockedSteps, Steps
    <3>2. /\ op' \in [Procs -> Operation]
          /\ pc' \in [Procs -> Steps]
          /\ OpTyped'
      BY <2>3, <3>1, OnlyStep DEF Goto
    <3> QED
      BY <1>4, <2>1, <2>3, <3>2 DEF RewriteEntry, TypeInv, TypeOK
  <2> QED
    BY <1>4, <2>2, <2>3 DEF RewriteEntry
<1>5. CASE RenameEntry(p)
  <2>1. CASE Raise(p)
    BY <2>1, RaiseType
  <2>2. CASE /\ Replace(op[p].item, op[p].dir, op[p].target)
             /\ Goto(p, "unjournal")
             /\ UNCHANGED <<journal, lease, lock, cycle, op, todo, held>>
    <3>1. /\ OpFits(op[p], "unjournal") /\ "unjournal" \in Steps
          /\ op[p].dir \in WorkStatus /\ op[p].target \in WorkStatus
      BY <1>5
      DEF RenameEntry, TypeInv, OpTyped, OpFits, LockedSteps, Steps
    <3>2. file' \in [Items -> [WorkStatus -> Record \cup {NoRecord}]]
      BY <1>0, <1>5, <2>2, <3>1, ReplaceType
      DEF RenameEntry, TypeInv, LockedSteps
    <3>3. /\ op' \in [Procs -> Operation]
          /\ pc' \in [Procs -> Steps]
          /\ OpTyped'
      BY <2>2, <3>1, OnlyStep DEF Goto
    <3> QED
      BY <2>2, <3>2, <3>3 DEF TypeInv, TypeOK
  <2> QED
    BY <1>5, <2>1, <2>2 DEF RenameEntry
<1>6. CASE RemoveIntent(p)
  <2>1. journal' \in [Items -> Intent \cup {NoIntent}]
    BY <1>6 DEF RemoveIntent, TypeInv, TypeOK
  <2>2. CASE Finish(p) /\ held' = [held EXCEPT ![p] = @ \cup {op[p].item}]
    BY <1>0, <1>6, <2>1, <2>2, FinishType
    DEF RemoveIntent, TypeInv, TypeOK, LockedSteps
  <2>3. CASE Goto(p, "unlease") /\ UNCHANGED <<op, lock, held>>
    <3>1. OpFits(op[p], "unlease") /\ "unlease" \in Steps
      BY <1>6 DEF RemoveIntent, TypeInv, OpTyped, OpFits, LockedSteps, Steps
    <3>2. /\ op' \in [Procs -> Operation]
          /\ pc' \in [Procs -> Steps]
          /\ OpTyped'
      BY <2>3, <3>1, OnlyStep DEF Goto
    <3> QED
      BY <1>6, <2>1, <2>3, <3>2 DEF RemoveIntent, TypeInv, TypeOK
  <2> QED
    BY <1>6, <2>2, <2>3 DEF RemoveIntent
<1>7. CASE RemoveLease(p)
  BY <1>7, FinishType DEF RemoveLease, TypeInv, TypeOK
<1> QED
  BY <1>1, <1>2, <1>3, <1>4, <1>5, <1>6, <1>7 DEF Locked

(* A call of the cycle keeps every variable's type. *)
LEMMA ServeType ==
  ASSUME TypeInv, NEW p \in Controllers, Serve(p)
  PROVE  TypeInv'
<1> USE QueueConstants DEF Procs
<1>1. ASSUME NEW i \in Items,
             NEW k \in {"transition", "claim", "bind", "refresh"},
             NEW t \in WorkStatus \cup {"ABSENT"}, NEW step \in {"lease", "read"},
             k \in {"bind", "refresh"} \/ t \in WorkStatus,
             step = "lease" => k = "claim",
             Enter(p, i, k, t, step)
      PROVE  /\ op' \in [Procs -> Operation]
             /\ pc' \in [Procs -> Steps]
             /\ lock' \in [Items -> Procs \cup {Nobody}]
             /\ OpTyped'
  <2> DEFINE o == Begin(k, i, t, "serving")
  <2>1. o \in Operation
    BY BeginType
  <2>2. OpFits(o, step) /\ step \in Steps
    BY <1>1 DEF OpFits, Begin, LockedSteps, Steps, InPlace
  <2>3. op' = [op EXCEPT ![p] = o] /\ pc' = [pc EXCEPT ![p] = step]
    BY <1>1 DEF Enter, Goto
  <2> HIDE DEF o
  <2> QED
    BY <1>1, <2>1, <2>2, <2>3, OnlyOne DEF Enter, TypeInv, TypeOK
<1>2. ASSUME NEW i \in Items, Put(p, i)
      PROVE  TypeInv'
  <2>1. PICK s \in RoadmapStatus :
          file' = [file EXCEPT ![i][s] = [status |-> s, bound |-> FALSE]]
    BY <1>2 DEF Put
  <2>2. [status |-> s, bound |-> FALSE] \in Record
    BY DEF Record
  <2>3. file' \in [Items -> [WorkStatus -> Record \cup {NoRecord}]]
    BY <2>1, <2>2 DEF TypeInv, TypeOK
  <2> QED
    BY <1>2, <2>3 DEF Put, TypeInv, TypeOK, OpTyped
<1>3. ASSUME NEW i \in Items, BeginTransition(p, i)
      PROVE  TypeInv'
  BY <1>1, <1>3 DEF BeginTransition, TypeInv, TypeOK, disk
<1>4. ASSUME NEW i \in Items, BeginClaim(p, i)
      PROVE  TypeInv'
  BY <1>1, <1>4 DEF BeginClaim, TypeInv, TypeOK, WorkStatus
<1>5. ASSUME NEW i \in Items, BeginBind(p, i)
      PROVE  TypeInv'
  BY <1>1, <1>5 DEF BeginBind, TypeInv, TypeOK, disk
<1>6. ASSUME NEW i \in Items, BeginRefresh(p, i)
      PROVE  TypeInv'
  BY <1>1, <1>6 DEF BeginRefresh, TypeInv, TypeOK, disk
<1>7. ASSUME NEW i \in Items, Renew(p, i)
      PROVE  TypeInv'
  <2>1. lease[i] \in Lease
    BY <1>7 DEF Renew, Renewable, NoLease, TypeInv, TypeOK
  <2>2. [lease[i] EXCEPT !.ttl = LeaseTicks] \in Lease
    BY <2>1 DEF Lease
  <2>3. lease' \in [Items -> Lease \cup {NoLease}]
    BY <1>7, <2>2 DEF Renew, TypeInv, TypeOK
  <2> QED
    BY <1>7, <2>3 DEF Renew, TypeInv, TypeOK, OpTyped
<1>8. ASSUME NEW i \in Items, LoseLease(p, i)
      PROVE  TypeInv'
  <2>1. "BLOCKED_TECHNICAL" \in WorkStatus
    BY DEF WorkStatus
  <2>2. CASE Enter(p, i, "transition", "BLOCKED_TECHNICAL", "read")
    BY <1>1, <1>8, <2>1, <2>2 DEF LoseLease, TypeInv, TypeOK, disk
  <2>3. CASE UNCHANGED <<pc, op, lock>>
    BY <1>8, <2>3 DEF LoseLease, TypeInv, TypeOK, OpTyped, disk
  <2> QED
    BY <1>8, <2>2, <2>3 DEF LoseLease
<1>9. ASSUME NEW i \in Items, ExecutionRaises(p, i)
      PROVE  TypeInv'
  BY <1>9 DEF ExecutionRaises, TypeInv, TypeOK, OpTyped, disk
<1>10. CASE EndCycle(p)
  <2>1. OpFits(op[p], "off") /\ "off" \in Steps
    BY IdleFits DEF Steps
  <2>2. /\ op' \in [Procs -> Operation]
        /\ pc' \in [Procs -> Steps]
        /\ OpTyped'
    BY <1>10, <2>1, OnlyStep DEF Goto, EndCycle
  <2> QED
    BY <1>10, <2>2 DEF EndCycle, TypeInv, TypeOK, disk
<1> QED
  BY <1>2, <1>3, <1>4, <1>5, <1>6, <1>7, <1>8, <1>9, <1>10 DEF Serve

(* Every step keeps the type of every variable, those of `recover` too.    *)
LEMMA CliType ==
  ASSUME TypeInv, [NextCli]_vars
  PROVE  TypeInv'
<1> USE QueueConstants DEF Procs
<1>1. CASE Tick
  <2>1. ASSUME NEW i \in Items, lease[i].ttl > 0
        PROVE  [lease[i] EXCEPT !.ttl = @ - 1] \in Lease
    <3>1. lease[i] \in Lease
      BY <2>1 DEF TypeInv, TypeOK, NoLease
    <3>2. lease[i].ttl - 1 \in 0 .. LeaseTicks
      BY <2>1, <3>1 DEF Lease
    <3> QED
      BY <3>1, <3>2 DEF Lease
  <2>2. lease' \in [Items -> Lease \cup {NoLease}]
    BY <1>1, <2>1 DEF TypeInv, TypeOK, Tick
  <2> QED
    BY <1>1, <2>2 DEF TypeInv, TypeOK, Tick, OpTyped
<1>2. ASSUME NEW p \in Procs, StartCycle(p) \/ StartRecover(p)
      PROVE  TypeInv'
  <2>1. OpFits(op[p], "reconcile") /\ "reconcile" \in Steps
    BY IdleFits DEF Steps
  <2>2. /\ op' \in [Procs -> Operation]
        /\ pc' \in [Procs -> Steps]
        /\ OpTyped'
    BY <1>2, <2>1, OnlyStep DEF Goto, StartCycle, StartRecover
  <2> QED
    BY <1>2, <2>2 DEF StartCycle, StartRecover, TypeInv, TypeOK, disk, Journalled
<1>3. ASSUME NEW p \in Procs, Crash(p)
      PROVE  TypeInv'
  <2>1. lease' \in [Items -> Lease \cup {NoLease}]
    BY <1>3 DEF TypeInv, TypeOK, Crash, Lease, NoLease
  <2> QED
    BY <1>3, <2>1, AbortType DEF TypeInv, TypeOK, Crash
<1>4. CASE UNCHANGED vars
  BY <1>4 DEF vars, TypeInv, TypeOK, OpTyped
<1> QED
  BY <1>1, <1>2, <1>3, <1>4, RecoveryType, LockedType, ServeType
  DEF NextCli, Next, Controller

(* So does every step of the controllers alone. *)
LEMMA NextType ==
  ASSUME TypeInv, [Next]_vars
  PROVE  TypeInv'
  BY CliType DEF NextCli

LEMMA InitType == Init => TypeInv
<1> SUFFICES ASSUME Init PROVE TypeInv
  OBVIOUS
<1>1. \A p \in Procs : OpFits(op[p], pc[p])
  BY IdleFits DEF Init
<1> QED
  BY <1>1, NoOpType, QueueConstants DEF Init, TypeInv, TypeOK, OpTyped, Steps, Procs

(* Every variable keeps its type in every behaviour of the queue: TypeOK   *)
(* with the facts about the operation in flight that make it inductive.    *)
THEOREM TypeCorrect == Spec => []TypeInv
<1>1. TypeInv /\ [Next]_vars => TypeInv'
  BY NextType
<1> QED
  BY InitType, <1>1, PTL DEF Spec

(* The queue's type invariant, as the runs check it. *)
THEOREM TypeSafe == Spec => []TypeOK
  BY TypeCorrect, PTL DEF TypeInv

-----------------------------------------------------------------------------
(* Safety of the queue.  One controller at a time is awake, so the disk is *)
(* as its own step left it; what a crash leaves is what the next           *)
(* reconciliation can complete.                                            *)

(* Without Loaded: what ExecutionIsOwned and RunningIsLeased say.          *)
Running(i) == \E s \in WorkStatus : file[i][s].status = "RUNNING"

Leased == \A i \in Items : Running(i) => lease[i].owner # Nobody

(* Where each intent is, seen from the process that is awake: still to be  *)
(* looked at, or that of the operation in flight.                          *)
Intents(p) ==
  /\ pc[p] = "reconcile" => Journalled \subseteq todo[p]
  /\ pc[p] \in {"inspect", "move", "retire"} =>
       Journalled \subseteq todo[p] \cup {op[p].item}
  /\ pc[p] \in {"recover", "serving", "lease", "read", "journal", "unlease"} =>
       Journalled = {}
  /\ pc[p] \in {"rewrite", "rename", "unjournal"} =>
       Journalled \subseteq IF InPlace(op[p]) THEN {} ELSE {op[p].item}
  /\ pc[p] = "move" => Rewritten(op[p].item, op[p].from, op[p].target)
  /\ pc[p] = "retire" => Moved(op[p].item, op[p].from, op[p].target)

(* What an operation o of p on item i was begun for. *)
Begun(p, o, i) ==
  /\ lock[i] = p
  /\ o.kind \in {"transition", "claim", "bind", "refresh"}
  /\ \/ o.ret = "serving"
     \/ o.ret = "recover" /\ o.kind = "transition" /\ held[p] = {}
  /\ (o.target = "RUNNING") <=> (o.kind = "claim")
  /\ o.kind = "bind" => i \in ExternalItems
  /\ o.kind = "claim" => pc[p] = "lease" \/ lease[i].owner = p
  /\ o.kind = "claim" /\ pc[p] \in {"lease", "read"} => ~Running(i)
  /\ InPlace(o) /\ i \in held[p] => Running(i)

(* How far its writes have come. *)
Written(p, o, i) ==
  /\ pc[p] \in {"journal", "rewrite"} =>
       /\ file[i][o.dir] # NoRecord /\ file[i][o.dir].status = o.dir
       /\ Permitted(o, file[i][o.dir])
       /\ o.next = Updated(o, file[i][o.dir])
  /\ pc[p] \in {"journal", "rewrite", "rename"} => o.from = o.dir
  /\ pc[p] \in {"rewrite", "rename"} /\ ~InPlace(o) =>
       journal[i] = [source |-> o.dir, target |-> o.target]
  /\ pc[p] = "rename" => file[i][o.dir] = o.next
  /\ pc[p] \in {"unjournal", "unlease"} => file[i][o.target] = o.next
  /\ pc[p] \in {"rename", "unjournal", "unlease"} => o.next.status = o.target
  /\ pc[p] = "unlease" => o.target # "RUNNING"

Executes(p) ==
  /\ pc[p] \notin LockedSteps \cup {"serving"} => held[p] = {}
  /\ \A i \in held[p] :
       lease[i].owner = p /\ (lock[i] = p \/ Running(i))

(* All that holds of a process between two of its steps. *)
InStep(p) ==
  /\ pc[p] # "off" => cycle = p
  /\ Executes(p)
  /\ Intents(p)
  /\ pc[p] \in LockedSteps => Begun(p, op[p], op[p].item) /\ Written(p, op[p], op[p].item)

QueueInv ==
  /\ TypeInv /\ SingleEntry /\ WriteAhead /\ Leased
  /\ \A p \in Controllers : InStep(p)

(* An entry that is there is what locate and load find. *)
LEMMA Found ==
  ASSUME TypeOK, SingleEntry, NEW i \in Items, NEW s \in WorkStatus, file[i][s] # NoRecord
  PROVE  Located(i) /\ At(i) = s /\ Loaded(i) = file[i][s]
<1>1. Paths(i) = {s}
  BY DEF Paths, SingleEntry
<1>2. Located(i) /\ At(i) = s
  BY <1>1 DEF Located, At
<1> QED
  BY <1>2 DEF Loaded

(* Without an entry no status is found. *)
LEMMA FoundRunning ==
  ASSUME TypeOK, SingleEntry, NEW i \in Items
  PROVE  /\ (Loaded(i).status = "RUNNING") <=> Running(i)
         /\ Loaded(i).status # "ABSENT" => Located(i)
<1>1. CASE Located(i)
  <2>1. At(i) \in WorkStatus /\ Loaded(i) \in Record /\ Loaded(i) = file[i][At(i)]
    BY <1>1, LoadedType
  <2>2. file[i][At(i)] # NoRecord
    BY <2>1 DEF Record, NoRecord, WorkStatus
  <2>3. \A s \in WorkStatus : s # At(i) => file[i][s].status = "ABSENT"
    BY <2>1, <2>2 DEF SingleEntry, NoRecord
  <2> QED
    BY <1>1, <2>1, <2>3 DEF Running
<1>2. CASE ~Located(i)
  <2>1. \A s \in WorkStatus : file[i][s] = NoRecord
    BY <1>2, Found
  <2> QED
    BY <1>2, <2>1 DEF Running, Loaded, NoRecord
<1> QED
  BY <1>1, <1>2

(* While p is awake, or nobody is, the other controllers are at rest. *)
LEMMA Alone ==
  ASSUME QueueInv, NEW p \in Controllers, cycle \in {p, Nobody}
  PROVE  \A q \in Controllers \ {p} : pc[q] = "off" /\ held[q] = {}
  BY QueueConstants DEF QueueInv, InStep, Executes, Procs, LockedSteps

(* A step of p is safe when p is. *)
LEMMA Others ==
  ASSUME QueueInv, NEW p \in Controllers, cycle \in {p, Nobody},
         \A q \in Controllers \ {p} : pc'[q] = pc[q] /\ held'[q] = held[q],
         InStep(p)'
  PROVE  \A q \in Controllers : InStep(q)'
<1>1. ASSUME NEW q \in Controllers, pc'[q] = "off", held'[q] = {}
      PROVE  InStep(q)'
  BY <1>1 DEF InStep, Executes, Intents, LockedSteps
<1> QED
  BY <1>1, Alone

(* A step that leaves entries and intents alone. *)
LEMMA DiskSame ==
  ASSUME QueueInv, UNCHANGED <<file, journal>>
  PROVE  /\ SingleEntry' /\ WriteAhead'
         /\ \A i \in Items : Running(i)' <=> Running(i)
         /\ Journalled' = Journalled
  BY DEF QueueInv, SingleEntry, WriteAhead, Running, Journalled

(* A process that stops leaves everything as the next cycle may find it.   *)
LEMMA AbortSafe ==
  ASSUME QueueInv, TypeInv', NEW p \in Controllers, pc[p] # "off", Abort(p),
         UNCHANGED <<file, journal>>,
         \A i \in Items : Running(i) => lease'[i].owner # Nobody
  PROVE  QueueInv'
<1>1. /\ pc'[p] = "off" /\ held'[p] = {}
      /\ \A q \in Controllers \ {p} : pc'[q] = pc[q] /\ held'[q] = held[q]
  BY DEF Abort, Goto, QueueInv, TypeInv, TypeOK, Procs
<1>2. InStep(p)'
  BY <1>1 DEF InStep, Executes, Intents, LockedSteps
<1>3. cycle = p
  BY DEF QueueInv, InStep
<1> QED
  BY <1>1, <1>2, <1>3, Others, DiskSame DEF QueueInv, Leased

(* A step of p that leaves the disk alone, but for leases it may renew.    *)
LEMMA QuietSafe ==
  ASSUME QueueInv, TypeInv', NEW p \in Controllers, cycle \in {p, Nobody},
         \A q \in Controllers \ {p} : pc'[q] = pc[q] /\ held'[q] = held[q],
         UNCHANGED <<file, journal>>,
         \A i \in Items : Running(i) => lease'[i].owner # Nobody,
         InStep(p)'
  PROVE  QueueInv'
  BY Others, DiskSame DEF QueueInv, Leased

(* A step of reconcile_transactions and recover_expired_claims is safe.    *)
LEMMA RecoverySafe ==
  ASSUME QueueInv, TypeInv', NEW p \in Controllers, Recovery(p)
  PROVE  QueueInv'
<1> USE DEF Procs
<1>0. /\ pc[p] # "off" => cycle = p
      /\ pc[p] \notin LockedSteps \cup {"serving"} => held[p] = {}
      /\ Intents(p)
      /\ \A i \in Items : Running(i) => lease[i].owner # Nobody
      /\ TypeOK
  BY DEF QueueInv, InStep, Executes, Leased, TypeInv
<1>1. ASSUME pc[p] # "off", Abort(p), UNCHANGED disk
      PROVE  QueueInv'
  BY <1>0, <1>1, AbortSafe DEF disk
<1>2. ASSUME NEW i \in Items, ReadIntent(p, i)
      PROVE  QueueInv'
  <2>1. CASE journal[i] # NoIntent
    <3>1. /\ pc'[p] = "inspect" /\ op'[p].item = i /\ todo'[p] = todo[p] \ {i}
          /\ UNCHANGED <<disk, cycle, held>>
          /\ pc[p] = "reconcile"
          /\ \A q \in Controllers \ {p} : pc'[q] = pc[q] /\ held'[q] = held[q]
      BY <1>0, <1>2, <2>1 DEF ReadIntent, Goto, TypeOK, Opened, Begin
    <3>2. Journalled' \subseteq todo'[p] \cup {i}
      BY <1>0, <3>1 DEF Intents, Journalled, disk
    <3>3. InStep(p)'
      BY <1>0, <3>1, <3>2 DEF InStep, Executes, Intents, LockedSteps
    <3> QED
      BY <1>0, <3>1, <3>3, QuietSafe DEF disk
  <2>2. CASE journal[i] = NoIntent
    BY <1>1, <1>2, <2>2 DEF ReadIntent
  <2> QED
    BY <2>1, <2>2
<1>3. CASE Inspect(p)
  <2>1. ASSUME \/ /\ Moved(op[p].item, op[p].from, op[p].target)
                  /\ Goto(p, "retire")
               \/ /\ Rewritten(op[p].item, op[p].from, op[p].target)
                  /\ Goto(p, "move"),
               UNCHANGED <<disk, lock, cycle, op, todo, held>>
        PROVE  QueueInv'
    <3>1. /\ pc[p] = "inspect"
          /\ \A q \in Controllers \ {p} : pc'[q] = pc[q] /\ held'[q] = held[q]
      BY <1>0, <1>3, <2>1 DEF Inspect, Goto, TypeOK
    <3>2. Intents(p)'
      BY <1>0, <2>1, <3>1 DEF Intents, Goto, TypeOK, Moved, Rewritten, Journalled, disk
    <3>3. InStep(p)'
      BY <1>0, <2>1, <3>1, <3>2 DEF InStep, Executes, LockedSteps, Goto, TypeOK
    <3> QED
      BY <1>0, <2>1, <3>1, <3>3, QuietSafe DEF disk
  <2> QED
    BY <1>1, <1>3, <2>1 DEF Inspect
<1>4. CASE MoveEntry(p)
  <2> DEFINE i == op[p].item
             s == op[p].from
             t == op[p].target
  <2>1. /\ i \in Items /\ s \in WorkStatus /\ t \in WorkStatus
        /\ pc[p] = "move" /\ Rewritten(i, s, t)
    BY <1>0, <1>4 DEF MoveEntry, Intents, QueueInv, TypeInv, OpTyped, OpFits
  <2>2. file[i][s] # NoRecord /\ s # t
    BY <2>1 DEF Rewritten, NoRecord, WorkStatus
  <2>3. /\ Replace(i, s, t) /\ Goto(p, "retire")
        /\ UNCHANGED <<journal, lease, lock, cycle, op, todo, held>>
    BY <1>4, <2>2 DEF MoveEntry
  <2>4. /\ \A j \in Items \ {i} : file'[j] = file[j]
        /\ \A x \in WorkStatus : x # s => file[i][x] = NoRecord
        /\ file'[i] = [x \in WorkStatus |-> IF x = t THEN file[i][s] ELSE NoRecord]
    BY <1>0, <2>1, <2>2, <2>3 DEF Replace, TypeOK, QueueInv, SingleEntry
  <2>5. SingleEntry' /\ WriteAhead'
    <3>1. SingleEntry'
      BY <1>0, <2>1, <2>4 DEF QueueInv, SingleEntry
    <3>2. ASSUME NEW j \in Items, NEW x \in WorkStatus,
                 file'[j][x] # NoRecord, file'[j][x].status # x
          PROVE  j # i
      BY <2>1, <2>4, <3>2 DEF Rewritten
    <3>3. WriteAhead'
      BY <1>0, <2>3, <2>4, <3>2 DEF QueueInv, WriteAhead
    <3> QED
      BY <3>1, <3>3
  <2>6. \A j \in Items : Running(j)' <=> Running(j)
    BY <2>1, <2>2, <2>4 DEF Running, NoRecord
  <2>7. Moved(i, s, t)'
    BY <2>1, <2>2, <2>3, <2>4 DEF Moved, Rewritten
  <2>8. InStep(p)'
    BY <1>0, <2>1, <2>3, <2>7
    DEF InStep, Executes, Intents, LockedSteps, Goto, TypeOK, Journalled
  <2>9. \A q \in Controllers \ {p} : pc'[q] = pc[q] /\ held'[q] = held[q]
    BY <1>0, <2>3 DEF Goto, TypeOK
  <2> QED
    BY <1>0, <2>1, <2>3, <2>5, <2>6, <2>8, <2>9, Others DEF QueueInv, Leased
<1>5. CASE RetireIntent(p)
  <2> DEFINE i == op[p].item
             t == op[p].target
  <2>1. /\ i \in Items /\ t \in WorkStatus
        /\ pc[p] = "retire" /\ Moved(i, op[p].from, t)
    BY <1>0, <1>5 DEF RetireIntent, Intents, QueueInv, TypeInv, OpTyped, OpFits
  <2>2. CASE journal[i] = NoIntent
    BY <1>1, <1>5, <2>1, <2>2 DEF RetireIntent
  <2>3. CASE journal[i] # NoIntent
    <3>1. /\ journal' = [journal EXCEPT ![i] = NoIntent]
          /\ pc' = [pc EXCEPT ![p] = "reconcile"]
          /\ UNCHANGED <<file, lease, lock, cycle, todo, held>>
      BY <1>5, <2>3 DEF RetireIntent, Goto
    <3>2. file[i][t].status = t /\ file[i][t] # NoRecord
      BY <2>1 DEF Moved, NoRecord, WorkStatus
    <3>3. SingleEntry' /\ WriteAhead'
      BY <1>0, <2>1, <3>1, <3>2 DEF QueueInv, SingleEntry, WriteAhead, TypeOK
    <3>4. InStep(p)'
      BY <1>0, <2>1, <3>1
      DEF InStep, Executes, Intents, LockedSteps, TypeOK, Journalled
    <3> QED
      BY <1>0, <2>1, <3>1, <3>3, <3>4, Others DEF QueueInv, Leased, Running, TypeOK
  <2> QED
    BY <2>2, <2>3
<1>6. CASE ListRunning(p)
  <2>1. /\ pc[p] = "reconcile" /\ Journalled = {}
        /\ pc' = [pc EXCEPT ![p] = "recover"]
        /\ UNCHANGED <<disk, lock, cycle, op, held>>
    BY <1>0, <1>6 DEF ListRunning, Intents, Goto
  <2>2. InStep(p)'
    BY <1>0, <2>1 DEF InStep, Executes, Intents, LockedSteps, TypeOK, Journalled, disk
  <2> QED
    BY <1>0, <2>1, <2>2, QuietSafe DEF disk, TypeOK
<1>7. ASSUME NEW i \in Items, RecoverClaim(p, i)
      PROVE  QueueInv'
  <2>0. pc[p] = "recover" /\ Journalled = {} /\ held[p] = {}
    BY <1>0, <1>7 DEF RecoverClaim, Intents, LockedSteps
  <2>1. CASE /\ lock' = [lock EXCEPT ![i] = p]
             /\ op' = [op EXCEPT ![p] =
                  Begin("transition", i, "BLOCKED_TECHNICAL", "recover")]
             /\ Goto(p, "read")
             /\ UNCHANGED <<disk, cycle, held>>
    <3>1. /\ pc'[p] = "read" /\ lock'[i] = p
          /\ op'[p] = Begin("transition", i, "BLOCKED_TECHNICAL", "recover")
          /\ \A q \in Controllers \ {p} : pc'[q] = pc[q] /\ held'[q] = held[q]
      BY <1>0, <2>1 DEF Goto, TypeOK
    <3>2. Begun(p, op[p], op[p].item)' /\ Written(p, op[p], op[p].item)'
      BY <2>0, <2>1, <3>1 DEF Begun, Written, Begin, InPlace
    <3>3. Intents(p)'
      BY <2>0, <2>1, <3>1 DEF Intents, Journalled, disk
    <3>4. InStep(p)'
      BY <1>0, <2>0, <2>1, <3>1, <3>2, <3>3 DEF InStep, Executes
    <3> QED
      BY <1>0, <2>0, <2>1, <3>1, <3>4, QuietSafe DEF disk
  <2>2. CASE UNCHANGED <<disk, lock, cycle, pc, op, held>>
    <3>1. InStep(p)'
      BY <1>0, <2>0, <2>2 DEF InStep, Executes, Intents, LockedSteps, Journalled, disk
    <3> QED
      BY <1>0, <2>0, <2>2, <3>1, QuietSafe DEF disk
  <2> QED
    BY <1>1, <1>7, <2>0, <2>1, <2>2 DEF RecoverClaim
<1>8. CASE EndRecovery(p)
  <2>1. /\ pc[p] = "recover" /\ Journalled = {}
        /\ pc' = [pc EXCEPT ![p] = "serving"]
        /\ UNCHANGED <<disk, lock, cycle, op, todo, held>>
    BY <1>0, <1>8 DEF EndRecovery, Intents, Goto
  <2>2. InStep(p)'
    BY <1>0, <2>1 DEF InStep, Executes, Intents, LockedSteps, TypeOK, Journalled, disk
  <2> QED
    BY <1>0, <2>1, <2>2, QuietSafe DEF disk, TypeOK
<1> QED
  BY <1>2, <1>3, <1>4, <1>5, <1>6, <1>7, <1>8 DEF Recovery

(* An exception under an item's flock, before anything has been written.   *)
LEMMA RaiseSafe ==
  ASSUME QueueInv, TypeInv', NEW p \in Controllers, pc[p] = "read", Raise(p)
  PROVE  QueueInv'
<1> USE DEF Procs
<1>1. /\ cycle = p /\ TypeOK /\ Journalled = {} /\ op[p].item \in Items
      /\ op[p].kind = "claim" => ~Running(op[p].item)
      /\ op[p].ret # "serving" => held[p] = {}
      /\ \A i \in held[p] : lease[i].owner = p /\ (lock[i] = p \/ Running(i))
      /\ \A i \in Items : Running(i) => lease[i].owner # Nobody
  BY DEF QueueInv, InStep, Executes, Intents, Begun, LockedSteps, Leased,
         TypeInv, OpTyped, OpFits
<1>2. \A i \in Items : Running(i) => lease'[i].owner # Nobody
  BY <1>1 DEF Raise, TypeOK
<1>3. CASE Abort(p)
  BY <1>1, <1>2, <1>3, AbortSafe DEF Raise
<1>4. CASE /\ op[p].ret = "serving"
           /\ Finish(p)
           /\ held' = [held EXCEPT ![p] = @ \ {op[p].item}]
           /\ UNCHANGED <<cycle, todo>>
  <2>1. /\ pc' = [pc EXCEPT ![p] = "serving"]
        /\ \A i \in held'[p] : i \in held[p] /\ i # op[p].item
        /\ \A i \in Items : i # op[p].item =>
             lease'[i] = lease[i] /\ lock'[i] = lock[i]
        /\ UNCHANGED <<file, journal>>
    BY <1>1, <1>4 DEF Finish, Goto, Raise, TypeOK
  <2>2. InStep(p)'
    BY <1>1, <1>4, <2>1
    DEF InStep, Executes, Intents, LockedSteps, TypeOK, Journalled, Running
  <2> QED
    BY <1>1, <1>2, <1>4, <2>1, <2>2, QuietSafe DEF TypeOK
<1> QED
  BY <1>3, <1>4 DEF Raise

(* A step under an item's flock is safe. *)
LEMMA LockedSafe ==
  ASSUME QueueInv, TypeInv', NEW p \in Controllers, Locked(p)
  PROVE  QueueInv'
<1> USE DEF Procs
<1> DEFINE o == op[p]
           i == op[p].item
<1>0. /\ pc[p] \in LockedSteps /\ cycle = p /\ TypeOK /\ i \in Items
      /\ o \in Operation /\ OpFits(o, pc[p])
      /\ Begun(p, o, i) /\ Written(p, o, i) /\ Intents(p)
      /\ lease[i].owner = p => lease[i].owner # Nobody
      /\ o.item = i
  BY QueueConstants
  DEF Locked, WriteLease, ReadEntry, WriteIntent, RewriteEntry, RenameEntry,
      RemoveIntent, RemoveLease, QueueInv, TypeInv, TypeOK, OpTyped, OpFits,
      InStep, LockedSteps
<1>1. /\ \A j \in held[p] : lease[j].owner = p /\ (lock[j] = p \/ Running(j))
      /\ \A j \in Items : Running(j) => lease[j].owner # Nobody
      /\ SingleEntry /\ WriteAhead
  BY DEF QueueInv, InStep, Executes, Leased
<1> HIDE DEF o, i
<1>2. CASE WriteLease(p)
  <2>1. /\ pc[p] = "lease" /\ pc' = [pc EXCEPT ![p] = "read"]
        /\ lease' = [lease EXCEPT ![i] = [owner |-> p, ttl |-> LeaseTicks]]
        /\ UNCHANGED <<file, journal, lock, cycle, op, todo, held>>
    BY <1>2 DEF WriteLease, Goto, i
  <2>2. Begun(p, o, i)' /\ Written(p, o, i)'
    BY <1>0, <2>1 DEF Begun, Written, TypeOK, Running, o, i
  <2>3. Intents(p)'
    BY <1>0, <2>1 DEF Intents, Journalled, TypeOK
  <2>4. Executes(p)'
    BY <1>0, <1>1, <2>1 DEF Executes, TypeOK, Running, LockedSteps
  <2>5. InStep(p)'
    BY <1>0, <2>1, <2>2, <2>3, <2>4 DEF InStep, o, i
  <2>6. \A j \in Items : Running(j) => lease'[j].owner # Nobody
    BY <1>0, <1>1, <2>1, QueueConstants DEF TypeOK
  <2> QED
    BY <1>0, <2>1, <2>5, <2>6, QuietSafe DEF TypeOK
<1>3. CASE ReadEntry(p)
  <2>0. pc[p] = "read" /\ Journalled = {}
    BY <1>0, <1>3 DEF ReadEntry, Intents
  <2>1. CASE Raise(p)
    BY <2>0, <2>1, RaiseSafe
  <2>2. CASE /\ Located(i)
             /\ Permitted(o, Loaded(i))
             /\ op' = [op EXCEPT ![p] = Opened(o, Loaded(i).status, At(i),
                                               Updated(o, Loaded(i)))]
             /\ Goto(p, IF InPlace(o) THEN "rewrite" ELSE "journal")
             /\ UNCHANGED <<disk, lock, cycle, todo, held>>
    <3> DEFINE s == At(i)
    <3>1. /\ s \in WorkStatus /\ file[i][s] \in Record
          /\ Loaded(i) = file[i][s] /\ file[i][s] # NoRecord
      BY <1>0, <2>2, LoadedType DEF Record, NoRecord, WorkStatus
    <3>2. file[i][s].status = s
      <4>1. journal[i].source # s
        BY <1>0, <2>0, <3>1 DEF Journalled, NoIntent, WorkStatus
      <4>2. file[i][s].status # s =>
              journal[i] = [source |-> s, target |-> file[i][s].status]
        BY <1>0, <1>1, <3>1 DEF WriteAhead
      <4> QED
        BY <4>1, <4>2
    <3> HIDE DEF s
    <3>3. /\ o' = [kind |-> o.kind, item |-> i, target |-> o.target,
                   from |-> s, dir |-> s, next |-> Updated(o, file[i][s]),
                   ret |-> o.ret]
          /\ i' = i
          /\ pc' = [pc EXCEPT ![p] = IF InPlace(o) THEN "rewrite" ELSE "journal"]
          /\ UNCHANGED <<file, journal, lease, lock, cycle, todo, held>>
      BY <1>0, <2>2, <3>1, <3>2 DEF Opened, Goto, TypeOK, o, i, s, disk
    <3>4. /\ InPlace(o') <=> InPlace(o)
          /\ Permitted(o', file[i][s]) /\ Updated(o', file[i][s]) = o'.next
      BY <1>0, <2>2, <3>1, <3>3 DEF InPlace, Permitted, Updated
    <3>5. Begun(p, o, i)'
      <4>1. /\ o'.kind = o.kind /\ o'.target = o.target /\ o'.ret = o.ret
            /\ pc'[p] \notin {"lease", "read"} /\ pc[p] = "read"
            /\ lock'[i'] = lock[i] /\ lease'[i'] = lease[i] /\ held' = held
        BY <1>0, <2>0, <3>3 DEF TypeOK
      <4>2. Running(i)' <=> Running(i)
        BY <3>3 DEF Running
      <4> QED
        BY <1>0, <3>3, <3>4, <4>1, <4>2 DEF Begun
    <3>6. Written(p, o, i)'
      BY <1>0, <3>1, <3>2, <3>3, <3>4 DEF Written, TypeOK, Permitted, Updated
    <3>7. Intents(p)'
      BY <1>0, <2>0, <3>3, <3>4 DEF Intents, Journalled, TypeOK
    <3>8. Executes(p)'
      BY <1>0, <1>1, <3>3 DEF Executes, TypeOK, Running, LockedSteps
    <3>9. InStep(p)'
      BY <1>0, <3>3, <3>5, <3>6, <3>7, <3>8 DEF InStep, o, i
    <3> QED
      BY <1>0, <1>1, <3>3, <3>9, QuietSafe DEF TypeOK
  <2> QED
    BY <1>3, <2>1, <2>2 DEF ReadEntry, o, i
<1>4. CASE WriteIntent(p)
  <2>1. /\ pc[p] = "journal" /\ pc' = [pc EXCEPT ![p] = "rewrite"]
        /\ journal' = [journal EXCEPT ![i] =
             [source |-> o.from, target |-> o.target]]
        /\ UNCHANGED <<file, lease, lock, cycle, op, todo, held>>
        /\ ~InPlace(o)
    BY <1>0, <1>4 DEF WriteIntent, Goto, OpFits, o, i
  <2>2. Journalled = {} /\ Journalled' \subseteq {i}
    BY <1>0, <2>1 DEF Intents, Journalled, TypeOK
  <2>3. SingleEntry' /\ WriteAhead'
    <3>1. ASSUME NEW j \in Items, NEW x \in WorkStatus, file[j][x] # NoRecord
          PROVE  file[j][x].status = x
      <4>1. journal[j].source # x
        BY <1>0, <2>2 DEF Journalled, NoIntent, WorkStatus
      <4>2. file[j][x].status # x =>
              journal[j] = [source |-> x, target |-> file[j][x].status]
        BY <1>0, <1>1, <3>1 DEF WriteAhead
      <4> QED
        BY <4>1, <4>2
    <3> QED
      BY <1>0, <1>1, <2>1, <3>1 DEF SingleEntry, WriteAhead, TypeOK
  <2>4. Begun(p, o, i)' /\ Written(p, o, i)'
    BY <1>0, <2>1 DEF Begun, Written, TypeOK, Running, Permitted, Updated, InPlace, o, i
  <2>5. Intents(p)'
    BY <1>0, <2>1, <2>2 DEF Intents, TypeOK, o, i
  <2>6. Executes(p)'
    BY <1>0, <1>1, <2>1 DEF Executes, TypeOK, Running, LockedSteps
  <2>7. InStep(p)'
    BY <1>0, <2>1, <2>4, <2>5, <2>6 DEF InStep, o, i
  <2> QED
    BY <1>0, <1>1, <2>1, <2>3, <2>7, Others DEF QueueInv, Leased, Running, TypeOK
<1>5. CASE RewriteEntry(p)
  <2> DEFINE s == op[p].dir
             r == op[p].next
  <2>1. /\ pc[p] = "rewrite" /\ s \in WorkStatus /\ r \in Record
        /\ file' = [file EXCEPT ![i][s] = r]
        /\ UNCHANGED <<journal, lease, cycle, todo, held>>
    BY <1>0, <1>5 DEF RewriteEntry, OpFits, o, i
  <2>2. /\ file[i][s] # NoRecord /\ file[i][s].status = s
        /\ r = Updated(o, file[i][s]) /\ o.from = s
        /\ ~InPlace(o) => journal[i] = [source |-> s, target |-> o.target]
    BY <1>0, <2>1 DEF Written, o
  <2>3. r.status = (IF InPlace(o) THEN s ELSE o.target) /\ r # NoRecord
    BY <2>1, <2>2 DEF Updated, Record, NoRecord, WorkStatus
  <2> HIDE DEF s, r
  <2>4. /\ \A j \in Items \ {i} : file'[j] = file[j]
        /\ \A x \in WorkStatus : x # s => file'[i][x] = NoRecord /\ file[i][x] = NoRecord
        /\ file'[i][s] = r
    BY <1>0, <1>1, <2>1, <2>2 DEF TypeOK, SingleEntry
  <2>5. SingleEntry'
    BY <1>0, <1>1, <2>4 DEF SingleEntry
  <2>6. WriteAhead'
    <3>1. ASSUME NEW x \in WorkStatus, file'[i][x] # NoRecord, file'[i][x].status # x
          PROVE  journal[i] = [source |-> x, target |-> file'[i][x].status]
      BY <2>2, <2>3, <2>4, <3>1
    <3> QED
      BY <1>0, <1>1, <2>1, <2>4, <3>1 DEF WriteAhead
  <2>7. /\ \A j \in Items :
             Running(j)' <=> IF j = i THEN r.status = "RUNNING" ELSE Running(j)
        /\ Running(i) <=> s = "RUNNING"
    <3>1. Running(i) <=> s = "RUNNING"
      BY <1>0, <2>1, <2>2, <2>4 DEF Running, NoRecord
    <3>2. ASSUME NEW j \in Items, j # i
          PROVE  Running(j)' <=> Running(j)
      BY <2>4, <3>2 DEF Running
    <3>3. ASSUME NEW j \in Items, j = i
          PROVE  Running(j)' <=> r.status = "RUNNING"
      BY <2>1, <2>4, <3>3 DEF Running, NoRecord
    <3> QED
      BY <3>1, <3>2, <3>3
  <2>8. CASE InPlace(o)
    <3>1. Finish(p) /\ o.ret = "serving" /\ Journalled = {}
      BY <1>0, <1>5, <2>1, <2>8 DEF RewriteEntry, Begun, Intents, InPlace, o
    <3>2. /\ pc' = [pc EXCEPT ![p] = "serving"]
          /\ lock' = [lock EXCEPT ![i] = Nobody]
      BY <3>1 DEF Finish, Goto, o, i
    <3>3. \A j \in held'[p] : lease'[j].owner = p /\ (lock'[j] = p \/ Running(j)')
      BY <1>0, <1>1, <2>1, <2>3, <2>7, <2>8, <3>2 DEF TypeOK, Begun
    <3>4. InStep(p)'
      BY <1>0, <2>1, <3>1, <3>2, <3>3
      DEF InStep, Executes, Intents, LockedSteps, TypeOK, Journalled
    <3>5. Leased'
      BY <1>0, <1>1, <2>1, <2>3, <2>7, <2>8 DEF Leased
    <3> QED
      BY <1>0, <2>1, <2>5, <2>6, <3>2, <3>4, <3>5, Others DEF QueueInv, TypeOK
  <2>9. CASE ~InPlace(o)
    <3>1. pc' = [pc EXCEPT ![p] = "rename"] /\ UNCHANGED <<op, lock>>
      BY <1>5, <2>9 DEF RewriteEntry, Goto, o
    <3>2. o' = o /\ i' = i /\ s = o.dir /\ r = o.next
      BY <3>1 DEF o, i, s, r
    <3>3. r.status = "RUNNING" => o.kind = "claim" /\ lease[i].owner = p
      BY <1>0, <2>1, <2>3, <2>7, <2>9 DEF Begun
    <3>4. Leased'
      BY <1>0, <1>1, <2>1, <2>7, <3>3 DEF Leased
    <3>5. Begun(p, o, i)'
      BY <1>0, <2>1, <2>9, <3>1, <3>2 DEF Begun, TypeOK
    <3>6. Written(p, o, i)'
      BY <1>0, <2>1, <2>2, <2>3, <2>4, <2>9, <3>1, <3>2 DEF Written, TypeOK
    <3>7. Intents(p)'
      BY <1>0, <2>1, <2>9, <3>1 DEF Intents, Journalled, TypeOK, o, i
    <3>8. \A j \in held'[p] : lease'[j].owner = p /\ (lock'[j] = p \/ Running(j)')
      BY <1>0, <1>1, <2>1, <2>7, <3>1 DEF TypeOK, Begun
    <3>9. InStep(p)'
      BY <1>0, <2>1, <3>1, <3>5, <3>6, <3>7, <3>8
      DEF InStep, Executes, LockedSteps, TypeOK, o, i
    <3> QED
      BY <1>0, <2>1, <2>5, <2>6, <3>1, <3>4, <3>9, Others DEF QueueInv, TypeOK
  <2> QED
    BY <2>8, <2>9
<1>6. CASE RenameEntry(p)
  <2> DEFINE s == op[p].dir
             t == op[p].target
  <2>1. /\ pc[p] = "rename" /\ s \in WorkStatus /\ t \in WorkStatus
        /\ o.next \in Record /\ ~InPlace(o)
    BY <1>0, <1>6 DEF RenameEntry, OpFits, LockedSteps, o
  <2>2. /\ file[i][s] = o.next /\ o.next.status = t /\ file[i][s] # NoRecord
    BY <1>0, <2>1 DEF Written, o, Record, NoRecord, WorkStatus
  <2>3. /\ Replace(i, s, t) /\ pc' = [pc EXCEPT ![p] = "unjournal"]
        /\ UNCHANGED <<journal, lease, lock, cycle, op, todo, held>>
    BY <1>6, <2>2 DEF RenameEntry, Goto, o, i
  <2>4. o' = o /\ i' = i /\ s = o.dir /\ t = o.target
    BY <2>3 DEF o, i
  <2> HIDE DEF s, t
  <2>5. /\ \A j \in Items \ {i} : file'[j] = file[j]
        /\ \A x \in WorkStatus : x # s => file[i][x] = NoRecord
        /\ file'[i] = [x \in WorkStatus |-> IF x = t THEN o.next ELSE NoRecord]
    BY <1>0, <1>1, <2>1, <2>2, <2>3 DEF Replace, TypeOK, SingleEntry
  <2>6. SingleEntry'
    BY <1>0, <1>1, <2>1, <2>5 DEF SingleEntry
  <2>7. WriteAhead'
    <3>1. \A x \in WorkStatus : file'[i][x] # NoRecord => file'[i][x].status = x
      BY <2>1, <2>2, <2>5
    <3> QED
      BY <1>0, <1>1, <2>3, <2>5, <3>1 DEF WriteAhead
  <2>8. \A j \in Items : Running(j)' <=> Running(j)
    <3>1. Running(i) <=> o.next.status = "RUNNING"
      BY <2>1, <2>2, <2>5 DEF Running, NoRecord
    <3>2. ASSUME NEW j \in Items, j = i
          PROVE  Running(j)' <=> o.next.status = "RUNNING"
      BY <2>1, <2>2, <2>5, <3>2 DEF Running, NoRecord
    <3>3. ASSUME NEW j \in Items, j # i
          PROVE  Running(j)' <=> Running(j)
      BY <2>5, <3>3 DEF Running
    <3> QED
      BY <3>1, <3>2, <3>3
  <2>9. Begun(p, o, i)' /\ Written(p, o, i)'
    BY <1>0, <2>1, <2>2, <2>3, <2>4, <2>5 DEF Begun, Written, TypeOK
  <2>10. Intents(p)'
    BY <1>0, <2>1, <2>3 DEF Intents, Journalled, TypeOK, o, i
  <2>11. \A j \in held'[p] : lease'[j].owner = p /\ (lock'[j] = p \/ Running(j)')
    BY <1>0, <1>1, <2>3, <2>8 DEF TypeOK
  <2>12. InStep(p)'
    BY <1>0, <2>3, <2>9, <2>10, <2>11
    DEF InStep, Executes, LockedSteps, TypeOK, o, i
  <2> QED
    BY <1>0, <1>1, <2>3, <2>6, <2>7, <2>8, <2>12, Others DEF QueueInv, Leased, TypeOK
<1>7. CASE RemoveIntent(p)
  <2>1. /\ pc[p] = "unjournal" /\ o.target \in WorkStatus /\ ~InPlace(o)
        /\ journal' = [journal EXCEPT ![i] = NoIntent]
        /\ UNCHANGED <<file, lease, cycle, todo>>
        /\ o.next \in Record
    BY <1>0, <1>7 DEF RemoveIntent, OpFits, LockedSteps, o, i
  <2>2. file[i][o.target] = o.next /\ o.next.status = o.target /\ o.next # NoRecord
    BY <1>0, <2>1 DEF Written, Record, NoRecord, WorkStatus
  <2>3. Journalled' = {}
    BY <1>0, <2>1 DEF Intents, Journalled, TypeOK, o, i
  <2>4. SingleEntry' /\ WriteAhead'
    <3>1. \A x \in WorkStatus : file[i][x] # NoRecord => file[i][x].status = x
      BY <1>0, <1>1, <2>1, <2>2 DEF SingleEntry
    <3> QED
      BY <1>0, <1>1, <2>1, <3>1 DEF SingleEntry, WriteAhead, TypeOK
  <2>5. CASE o.target = "RUNNING"
    <3>1. /\ Finish(p) /\ o.ret = "serving" /\ o.kind = "claim" /\ lease[i].owner = p
          /\ held' = [held EXCEPT ![p] = @ \cup {i}]
      BY <1>0, <1>7, <2>1, <2>5 DEF RemoveIntent, Begun, o, i
    <3>2. /\ pc' = [pc EXCEPT ![p] = "serving"]
          /\ lock' = [lock EXCEPT ![i] = Nobody]
      BY <3>1 DEF Finish, Goto, o, i
    <3>3. Running(i)
      BY <2>1, <2>2, <2>5 DEF Running
    <3>4. \A j \in held'[p] : lease'[j].owner = p /\ (lock'[j] = p \/ Running(j)')
      BY <1>0, <1>1, <2>1, <3>1, <3>2, <3>3 DEF TypeOK, Running
    <3>5. InStep(p)'
      BY <1>0, <2>1, <2>3, <3>2, <3>4
      DEF InStep, Executes, Intents, LockedSteps, TypeOK
    <3> QED
      BY <1>0, <1>1, <2>1, <2>4, <3>1, <3>2, <3>5, Others DEF QueueInv, Leased, Running, TypeOK
  <2>6. CASE o.target # "RUNNING"
    <3>1. pc' = [pc EXCEPT ![p] = "unlease"] /\ UNCHANGED <<op, lock, held>>
      BY <1>7, <2>6 DEF RemoveIntent, Goto, o
    <3>2. o' = o /\ i' = i
      BY <3>1 DEF o, i
    <3>3. Begun(p, o, i)' /\ Written(p, o, i)'
      BY <1>0, <2>1, <2>2, <2>6, <3>1, <3>2 DEF Begun, Written, TypeOK
    <3>4. \A j \in held'[p] : lease'[j].owner = p /\ (lock'[j] = p \/ Running(j)')
      BY <1>0, <1>1, <2>1, <3>1 DEF TypeOK, Running
    <3>5. Intents(p)'
      BY <1>0, <2>3, <3>1 DEF Intents, TypeOK
    <3>6. InStep(p)'
      BY <1>0, <2>1, <3>1, <3>3, <3>4, <3>5
      DEF InStep, Executes, LockedSteps, TypeOK, o, i
    <3> QED
      BY <1>0, <1>1, <2>1, <2>4, <3>1, <3>6, Others DEF QueueInv, Leased, Running, TypeOK
  <2> QED
    BY <2>5, <2>6
<1>8. CASE RemoveLease(p)
  <2>1. /\ pc[p] = "unlease" /\ o.target \in WorkStatus /\ ~InPlace(o)
        /\ lease' = [lease EXCEPT ![i] = NoLease]
        /\ pc' = [pc EXCEPT ![p] = o.ret]
        /\ lock' = [lock EXCEPT ![i] = Nobody]
        /\ held' = [held EXCEPT ![p] = @ \ {i}]
        /\ UNCHANGED <<file, journal, cycle, todo>>
        /\ o.next \in Record
    BY <1>0, <1>8 DEF RemoveLease, OpFits, LockedSteps, Finish, Goto, o, i
  <2>2. /\ file[i][o.target] = o.next /\ o.next # NoRecord
        /\ o.next.status = o.target /\ o.target # "RUNNING"
        /\ o.ret = "serving" \/ (o.ret = "recover" /\ held[p] = {})
        /\ Journalled = {}
    BY <1>0, <2>1 DEF Written, Begun, Intents, Record, NoRecord, WorkStatus
  <2>3. ~Running(i)
    BY <1>0, <1>1, <2>1, <2>2 DEF Running, SingleEntry, NoRecord
  <2>4. \A j \in Items : Running(j) => lease'[j].owner # Nobody
    BY <1>0, <1>1, <2>1, <2>3 DEF TypeOK
  <2>5. \A j \in held'[p] : lease'[j].owner = p /\ (lock'[j] = p \/ Running(j)')
    BY <1>0, <1>1, <2>1 DEF TypeOK, Running
  <2>6. Executes(p)'
    BY <1>0, <2>1, <2>2, <2>5 DEF Executes, TypeOK
  <2>7. InStep(p)'
    BY <1>0, <2>1, <2>2, <2>6 DEF InStep, Intents, LockedSteps, TypeOK, Journalled
  <2> QED
    BY <1>0, <2>1, <2>4, <2>7, QuietSafe DEF TypeOK
<1> QED
  BY <1>2, <1>3, <1>4, <1>5, <1>6, <1>7, <1>8 DEF Locked

(* Entering an item's flock for a call of the cycle is safe. *)
LEMMA EnterSafe ==
  ASSUME QueueInv, TypeInv', NEW p \in Controllers, NEW i \in Items,
         NEW k \in {"transition", "claim", "bind", "refresh"}, NEW t,
         NEW step \in {"lease", "read"}, Enter(p, i, k, t, step),
         (t = "RUNNING") <=> (k = "claim"), (step = "lease") <=> (k = "claim"),
         k = "claim" => ~Running(i), k # "claim" => lease' = lease,
         k = "bind" => i \in ExternalItems,
         \A j \in Items \ {i} : lease'[j] = lease[j],
         held'[p] \subseteq held[p],
         \A q \in Controllers \ {p} : held'[q] = held[q],
         UNCHANGED <<file, journal, cycle, todo>>
  PROVE  QueueInv'
<1> USE DEF Procs
<1>1. /\ pc[p] = "serving" /\ lock[i] = Nobody
      /\ lock' = [lock EXCEPT ![i] = p]
      /\ op' = [op EXCEPT ![p] = Begin(k, i, t, "serving")]
      /\ pc' = [pc EXCEPT ![p] = step]
  BY DEF Enter, Goto
<1>2. /\ TypeOK /\ cycle = p /\ Journalled = {}
      /\ \A j \in held[p] : lease[j].owner = p /\ (lock[j] = p \/ Running(j))
      /\ \A j \in Items : Running(j) => lease[j].owner # Nobody
  BY <1>1 DEF QueueInv, TypeInv, InStep, Intents, Executes, Leased
<1>3. i \in held[p] => Running(i) /\ lease'[i] = lease[i]
  BY <1>1, <1>2, QueueConstants
<1>4. /\ op'[p] = Begin(k, i, t, "serving") /\ op'[p].item = i
      /\ pc'[p] = step /\ lock'[i] = p
      /\ \A j \in Items : Running(j)' <=> Running(j)
  BY <1>1, <1>2 DEF TypeOK, Begin, Running
<1>5. Begun(p, op[p], op[p].item)' /\ Written(p, op[p], op[p].item)'
  <2>1. \A j \in Items : j = i /\ j \in held'[p] => Running(j)'
    BY <1>3, <1>4
  <2> QED
    BY <1>4, <2>1 DEF Begun, Written, Begin, Running
<1>6. Executes(p)'
  BY <1>1, <1>2, <1>3, <1>4 DEF Executes, TypeOK, LockedSteps
<1>7. Intents(p)'
  BY <1>2, <1>4 DEF Intents, Journalled
<1>8. InStep(p)'
  BY <1>2, <1>5, <1>6, <1>7 DEF InStep
<1>9. \A j \in Items : Running(j) => lease'[j].owner # Nobody
  BY <1>2
<1>10. \A q \in Controllers \ {p} : pc'[q] = pc[q]
  BY <1>1, <1>2 DEF TypeOK
<1> QED
  BY <1>2, <1>8, <1>9, <1>10, QuietSafe

(* A call of the cycle is safe. *)
LEMMA ServeSafe ==
  ASSUME QueueInv, TypeInv', NEW p \in Controllers, Serve(p)
  PROVE  QueueInv'
<1> USE DEF Procs
<1>1. pc[p] = "serving" /\ cycle = p /\ TypeOK /\ SingleEntry /\ WriteAhead
      /\ Journalled = {} /\ held[p] \subseteq Items
      /\ (\A j \in held[p] : lease[j].owner = p /\ (lock[j] = p \/ Running(j)))
      /\ (\A j \in Items : Running(j) => lease[j].owner # Nobody)
  BY DEF Serve, Put, BeginTransition, BeginClaim, BeginBind, BeginRefresh, Enter,
         Renew, LoseLease, ExecutionRaises, EndCycle, QueueInv, InStep, Intents,
         Executes, Leased, TypeInv, TypeOK
<1>2. ASSUME NEW i \in Items, Put(p, i)
      PROVE  QueueInv'
  <2>1. PICK s \in RoadmapStatus :
          file' = [file EXCEPT ![i][s] = [status |-> s, bound |-> FALSE]]
    BY <1>2 DEF Put
  <2>2. /\ Paths(i) = {} /\ s \in WorkStatus /\ s # "RUNNING"
        /\ UNCHANGED <<journal, lease, lock, cycle, pc, op, todo, held>>
    BY <1>2, QueueConstants DEF Put
  <2>3. /\ \A j \in Items \ {i} : file'[j] = file[j]
        /\ \A x \in WorkStatus : file[i][x] = NoRecord
        /\ \A x \in WorkStatus : file'[i][x] =
             IF x = s THEN [status |-> s, bound |-> FALSE] ELSE NoRecord
    BY <1>1, <2>1, <2>2 DEF TypeOK, Paths
  <2>4. SingleEntry' /\ WriteAhead'
    BY <1>1, <2>2, <2>3 DEF SingleEntry, WriteAhead
  <2>5. \A j \in Items : Running(j)' <=> Running(j)
    BY <2>2, <2>3 DEF Running, NoRecord
  <2>6. InStep(p)'
    BY <1>1, <2>2, <2>5
    DEF InStep, Executes, Intents, LockedSteps, Journalled
  <2> QED
    BY <1>1, <2>2, <2>4, <2>5, <2>6, Others DEF QueueInv, Leased
<1>3. ASSUME NEW i \in Items, BeginTransition(p, i)
      PROVE  QueueInv'
  <2>1. PICK t \in Requested : Enter(p, i, "transition", t, "read")
    BY <1>3 DEF BeginTransition
  <2> QED
    BY <1>3, <2>1, EnterSafe, QueueConstants DEF BeginTransition, disk
<1>4. ASSUME NEW i \in Items, BeginClaim(p, i)
      PROVE  QueueInv'
  <2>1. ~Running(i)
    BY <1>1, <1>4, FoundRunning DEF BeginClaim
  <2>2. \A j \in Items \ {i} : lease'[j] = lease[j]
    BY <1>1, <1>4 DEF BeginClaim, TypeOK
  <2> QED
    BY <1>4, <2>1, <2>2, EnterSafe DEF BeginClaim
<1>5. ASSUME NEW i \in Items, BeginBind(p, i)
      PROVE  QueueInv'
  BY <1>5, EnterSafe DEF BeginBind, disk
<1>6. ASSUME NEW i \in Items, BeginRefresh(p, i)
      PROVE  QueueInv'
  BY <1>6, EnterSafe DEF BeginRefresh, disk
<1>7. ASSUME NEW i \in Items, Renew(p, i)
      PROVE  QueueInv'
  <2>1. /\ \A j \in Items : lease'[j].owner = lease[j].owner
        /\ UNCHANGED <<file, journal, lock, cycle, pc, op, todo, held>>
    BY <1>1, <1>7 DEF Renew, TypeOK, Lease, NoLease
  <2>2. InStep(p)'
    BY <1>1, <2>1 DEF InStep, Executes, Intents, LockedSteps, Journalled, Running
  <2> QED
    BY <1>1, <2>1, <2>2, QuietSafe
<1>8. ASSUME NEW i \in Items, LoseLease(p, i)
      PROVE  QueueInv'
  <2>1. /\ held' = [held EXCEPT ![p] = @ \ {i}]
        /\ UNCHANGED <<file, journal, lease, cycle, todo>>
    BY <1>8 DEF LoseLease, disk
  <2>2. /\ held'[p] \subseteq held[p]
        /\ \A q \in Controllers \ {p} : held'[q] = held[q]
    BY <1>1, <2>1 DEF TypeOK
  <2>3. CASE Enter(p, i, "transition", "BLOCKED_TECHNICAL", "read")
    BY <2>1, <2>2, <2>3, EnterSafe
  <2>4. CASE UNCHANGED <<pc, op, lock>>
    <3>1. InStep(p)'
      BY <1>1, <2>1, <2>2, <2>4
      DEF InStep, Executes, Intents, LockedSteps, Journalled, Running
    <3> QED
      BY <1>1, <2>1, <2>2, <2>4, <3>1, QuietSafe
  <2> QED
    BY <1>8, <2>3, <2>4 DEF LoseLease
<1>9. ASSUME NEW i \in Items, ExecutionRaises(p, i)
      PROVE  QueueInv'
  <2>1. /\ held' = [held EXCEPT ![p] = @ \ {i}]
        /\ UNCHANGED <<file, journal, lease, lock, cycle, pc, op, todo>>
    BY <1>9 DEF ExecutionRaises, disk
  <2>2. /\ held'[p] \subseteq held[p]
        /\ \A q \in Controllers \ {p} : held'[q] = held[q]
    BY <1>1, <2>1 DEF TypeOK
  <2>3. InStep(p)'
    BY <1>1, <2>1, <2>2
    DEF InStep, Executes, Intents, LockedSteps, Journalled, Running
  <2> QED
    BY <1>1, <2>1, <2>2, <2>3, QuietSafe
<1>10. CASE EndCycle(p)
  <2>1. /\ held[p] = {} /\ pc' = [pc EXCEPT ![p] = "off"]
        /\ UNCHANGED <<file, journal, lease, lock, op, todo, held>>
    BY <1>10 DEF EndCycle, Goto, disk
  <2>2. InStep(p)'
    BY <1>1, <2>1 DEF InStep, Executes, Intents, LockedSteps, TypeOK
  <2> QED
    BY <1>1, <2>1, <2>2, QuietSafe DEF TypeOK
<1> QED
  BY <1>2, <1>3, <1>4, <1>5, <1>6, <1>7, <1>8, <1>9, <1>10 DEF Serve

(* A process dies: its flocks go, and its leases now name a dead process.  *)
LEMMA CrashSafe ==
  ASSUME QueueInv, TypeInv', NEW p \in Controllers, Crash(p)
  PROVE  QueueInv'
<1> USE DEF Procs
<1>1. /\ pc' = [pc EXCEPT ![p] = "off"]
      /\ op' = [op EXCEPT ![p] = NoOp]
      /\ todo' = [todo EXCEPT ![p] = {}]
      /\ held' = [held EXCEPT ![p] = {}]
      /\ lock' = [i \in Items |-> IF lock[i] = p THEN Nobody ELSE lock[i]]
      /\ cycle' = IF cycle = p THEN Nobody ELSE cycle
      /\ UNCHANGED <<file, journal>>
      /\ TypeOK
  BY DEF Crash, Abort, Goto, QueueInv, TypeInv
<1>2. \A i \in Items : /\ lease[i].owner # p => lease'[i] = lease[i]
                       /\ lease[i].owner = p => lease'[i].owner = Dead
  BY <1>1, QueueConstants DEF Crash, TypeOK, Lease, NoLease
<1>3. \A i \in Items : Running(i)' <=> Running(i)
  BY <1>1 DEF Running
<1>4. Leased'
  BY <1>2, <1>3, QueueConstants DEF QueueInv, Leased
<1>5. InStep(p)'
  BY <1>1 DEF TypeOK, InStep, Executes, Intents, LockedSteps
<1>6. ASSUME NEW q \in Controllers, q # p
      PROVE  InStep(q)'
  <2>1. /\ pc'[q] = pc[q] /\ op'[q] = op[q] /\ todo'[q] = todo[q]
        /\ held'[q] = held[q] /\ held[q] \subseteq Items
        /\ pc[q] # "off" => cycle = q
        /\ pc'[q] # "off" => cycle' = q
    BY <1>1, <1>6 DEF TypeOK, QueueInv, InStep
  <2>2. \A i \in Items : /\ lock[i] = q => lock'[i] = q
                         /\ lease[i].owner = q => lease'[i].owner = q
    BY <1>1, <1>2, <1>6
  <2>3. Executes(q)'
    BY <1>3, <2>1, <2>2 DEF Executes, QueueInv, InStep
  <2>4. Intents(q)'
    BY <1>1, <2>1
    DEF Intents, QueueInv, InStep, Journalled, Rewritten, Moved
  <2>5. ASSUME pc[q] \in LockedSteps
        PROVE  Begun(q, op[q], op[q].item)' /\ Written(q, op[q], op[q].item)'
    <3>1. /\ op[q].item \in Items
          /\ Begun(q, op[q], op[q].item) /\ Written(q, op[q], op[q].item)
      BY <2>5 DEF QueueInv, InStep, TypeInv, OpTyped, OpFits
    <3>2. Begun(q, op[q], op[q].item)'
      BY <1>3, <2>1, <2>2, <3>1 DEF Begun
    <3>3. Written(q, op[q], op[q].item)'
      BY <1>1, <2>1, <3>1 DEF Written
    <3> QED
      BY <3>2, <3>3
  <2> QED
    BY <2>1, <2>3, <2>4, <2>5 DEF InStep
<1> QED
  BY <1>1, <1>4, <1>5, <1>6, DiskSame DEF QueueInv

(* Time that passes changes what is left of the leases, not whose they are. *)
LEMMA TickSafe ==
  ASSUME QueueInv, TypeInv', Tick
  PROVE  QueueInv'
<1> USE DEF Procs
<1>1. /\ \A i \in Items : lease'[i].owner = lease[i].owner
      /\ UNCHANGED <<file, journal, lock, cycle, pc, op, todo, held>>
  BY DEF Tick, QueueInv, TypeInv, TypeOK, Lease, NoLease
<1>2. ASSUME NEW p \in Controllers
      PROVE  InStep(p)'
  <2>1. /\ held[p] \subseteq Items
        /\ pc[p] \in LockedSteps => op[p].item \in Items
        /\ InStep(p)
    BY DEF QueueInv, TypeInv, TypeOK, OpTyped, OpFits
  <2>2. Executes(p)' /\ Intents(p)'
    BY <1>1, <2>1
    DEF InStep, Executes, Intents, Journalled, Rewritten, Moved, Running
  <2>3. ASSUME pc[p] \in LockedSteps
        PROVE  Begun(p, op[p], op[p].item)' /\ Written(p, op[p], op[p].item)'
    BY <1>1, <2>1, <2>3 DEF InStep, Begun, Written, Running
  <2> QED
    BY <1>1, <2>1, <2>2, <2>3 DEF InStep
<1> QED
  BY <1>1, <1>2, DiskSame DEF QueueInv, Leased, Running

(* The queue is safe between any two steps. *)
LEMMA QueueSafe == Spec => []QueueInv
<1>1. Init => QueueInv
  <2> SUFFICES ASSUME Init PROVE QueueInv
    OBVIOUS
  <2>1. SingleEntry /\ WriteAhead /\ Leased
    BY DEF Init, SingleEntry, WriteAhead, Leased, Running, NoRecord
  <2>2. \A p \in Controllers : InStep(p)
    BY DEF Init, InStep, Executes, Intents, LockedSteps, Procs
  <2> QED
    BY <2>1, <2>2, InitType DEF QueueInv
<1>2. QueueInv /\ [Next]_vars => QueueInv'
  <2> SUFFICES ASSUME QueueInv, [Next]_vars PROVE QueueInv'
    OBVIOUS
  <2> USE DEF Procs
  <2>1. TypeInv'
    BY NextType DEF QueueInv
  <2>2. ASSUME NEW p \in Controllers, StartCycle(p)
        PROVE  QueueInv'
    <3>1. /\ pc[p] = "off" /\ cycle = Nobody /\ cycle' = p
          /\ pc' = [pc EXCEPT ![p] = "reconcile"]
          /\ todo' = [todo EXCEPT ![p] = Journalled]
          /\ UNCHANGED <<file, journal, lease, lock, op, held>>
          /\ TypeOK /\ held[p] = {}
      BY <2>2 DEF StartCycle, Goto, disk, QueueInv, TypeInv, InStep, Executes,
                  LockedSteps
    <3>2. InStep(p)'
      BY <3>1 DEF InStep, Executes, Intents, LockedSteps, TypeOK, Journalled
    <3> QED
      BY <2>1, <3>1, <3>2, QuietSafe DEF QueueInv, Leased, TypeOK
  <2>3. CASE UNCHANGED vars
    BY <2>1, <2>3
    DEF vars, QueueInv, SingleEntry, WriteAhead, Leased, Running, InStep,
        Executes, Intents, Begun, Written, Journalled, Rewritten, Moved
  <2> QED
    BY <2>1, <2>2, <2>3, RecoverySafe, LockedSafe, ServeSafe, CrashSafe, TickSafe
    DEF Next, Controller
<1> QED
  BY <1>1, <1>2, PTL DEF Spec

(* What is on disk is well-formed and can be recovered, whatever step the  *)
(* next crash follows: one entry per item, and an intent for every entry   *)
(* that is not where it says (_transition_owned, reconcile_transactions).  *)
THEOREM EntriesRecoverable == Spec => []EntryIsRecoverable
<1>1. QueueInv => EntryIsRecoverable
  BY DEF QueueInv, TypeInv, EntryIsRecoverable
<1> QED
  BY QueueSafe, <1>1, PTL

(* RUNNING work always has a lease, and what a cycle executes is RUNNING   *)
(* under its own lease while it holds the controller lock (claim,          *)
(* recover_interrupted, _transition_owned).                                *)
THEOREM RunningOwned == Spec => []RunningIsOwned
<1>1. ASSUME QueueInv
      PROVE  RunningIsOwned
  <2>1. /\ TypeOK /\ SingleEntry /\ Leased
        /\ \A p \in Controllers : InStep(p) /\ held[p] \subseteq Items
    BY <1>1 DEF QueueInv, TypeInv, TypeOK, Procs
  <2>2. RunningIsLeased
    BY <2>1, FoundRunning DEF RunningIsLeased, Leased, NoLease
  <2>3. ASSUME NEW p \in Controllers, NEW i \in held[p]
        PROVE  /\ cycle = p
               /\ lease[i].owner = p
               /\ lock[i] # p => Loaded(i).status = "RUNNING"
    <3>1. pc[p] # "off"
      BY <2>1, <2>3 DEF InStep, Executes, LockedSteps
    <3> QED
      BY <2>1, <2>3, <3>1, FoundRunning DEF InStep, Executes
  <2> QED
    BY <2>2, <2>3 DEF RunningIsOwned, ExecutionIsOwned
<1> QED
  BY QueueSafe, <1>1, PTL

(* The logical record that an item's directories f amount to. *)
RecordIn(f) ==
  IF {s \in WorkStatus : f[s] # NoRecord} = {} THEN NoRecord
  ELSE f[CHOOSE s \in WorkStatus : f[s] # NoRecord]

LEMMA EntryIn ==
  \A i \in Items : Entry(i) = RecordIn(file[i]) /\ Entry(i)' = RecordIn(file'[i])
  BY DEF Entry, Paths, RecordIn

(* The one entry of an item is its logical record, wherever it is.         *)
LEMMA RecordOf ==
  ASSUME NEW f, NEW s \in WorkStatus, f[s] # NoRecord,
         \A x \in WorkStatus : x # s => f[x] = NoRecord
  PROVE  RecordIn(f) = f[s]
  BY DEF RecordIn

(* A move of an entry between two directories leaves its record as it is.  *)
LEMMA ReplaceSame ==
  ASSUME TypeOK, SingleEntry, NEW i \in Items, NEW s \in WorkStatus,
         NEW t \in WorkStatus, file[i][s] # NoRecord, Replace(i, s, t)
  PROVE  \A j \in Items : Entry(j)' = Entry(j)
<1>1. /\ \A j \in Items \ {i} : file'[j] = file[j]
      /\ \A x \in WorkStatus : x # s => file[i][x] = NoRecord
      /\ file'[i][t] = file[i][s]
      /\ \A x \in WorkStatus : x # t => file'[i][x] = NoRecord
  BY DEF Replace, TypeOK, SingleEntry
<1>2. Entry(i) = file[i][s]
  BY <1>1, RecordOf, EntryIn
<1>3. Entry(i)' = file[i][s]
  BY <1>1, RecordOf, EntryIn
<1>4. \A j \in Items \ {i} : Entry(j)' = Entry(j)
  BY <1>1, EntryIn
<1> QED
  BY <1>2, <1>3, <1>4

(* The table and the validator of the life cycle are the queue's.          *)
LEMMA SameRules ==
  /\ Lifecycle!ALLOWED_TRANSITIONS = ALLOWED_TRANSITIONS
  /\ Lifecycle!NoRecord = NoRecord
  /\ \A e, r : Lifecycle!ValidRecord(e, r) <=> ValidRecord(e, r)
  BY DEF Lifecycle!ALLOWED_TRANSITIONS, ALLOWED_TRANSITIONS, WorkStatus,
         Lifecycle!WorkStatus, Lifecycle!NoRecord, NoRecord,
         Lifecycle!ValidRecord, ValidRecord, Lifecycle!EvidenceGated, EvidenceGated

(* A record with one field replaced. *)
LEMMA Replaced ==
  ASSUME NEW r \in Record, NEW v
  PROVE  /\ [r EXCEPT !.status = v] = [status |-> v, bound |-> r.bound]
         /\ [r EXCEPT !.bound = v] = [status |-> r.status, bound |-> v]
  BY DEF Record

(* The rewrite of _atomic_write is the moment an item changes: it binds a  *)
(* receipt, moves the item along the table, or changes nothing.            *)
LEMMA RewriteMoves ==
  ASSUME QueueInv, NEW p \in Controllers, RewriteEntry(p)
  PROVE  Lifecycle!Next \/ \A j \in Items : Entry(j)' = Entry(j)
<1> DEFINE o == op[p]
           i == op[p].item
           s == op[p].dir
           r == op[p].next
           old == file[i][s]
<1>1. /\ pc[p] = "rewrite" /\ i \in Items /\ s \in WorkStatus /\ r \in Record
      /\ Begun(p, o, i) /\ Written(p, o, i) /\ TypeOK /\ SingleEntry
      /\ file' = [file EXCEPT ![i][s] = r]
  BY DEF RewriteEntry, QueueInv, TypeInv, OpTyped, OpFits, InStep, LockedSteps, Procs
<1>2. /\ old # NoRecord /\ old \in Record
      /\ Permitted(o, old) /\ r = Updated(o, old)
  BY <1>1 DEF Written, TypeOK
<1>3. /\ \A j \in Items \ {i} : file'[j] = file[j]
      /\ \A x \in WorkStatus : x # s =>
           file[i][x] = NoRecord /\ file'[i][x] = NoRecord
      /\ file'[i][s] = r /\ r # NoRecord
  <2>1. r # NoRecord
    BY <1>1 DEF Record, NoRecord, WorkStatus
  <2>2. \A x \in WorkStatus : x # s => file[i][x] = NoRecord
    BY <1>1, <1>2 DEF SingleEntry
  <2> QED
    BY <1>1, <2>1, <2>2 DEF TypeOK
<1>4. Entry(i) = old
  BY <1>1, <1>2, <1>3, RecordOf, EntryIn
<1>5. ASSUME NEW j \in Items
      PROVE  Entry(j)' = IF j = i THEN r ELSE Entry(j)
  <2>1. CASE j = i
    BY <1>1, <1>3, <2>1, RecordOf, EntryIn
  <2>2. CASE j # i
    BY <1>3, <2>2, EntryIn
  <2> QED
    BY <2>1, <2>2
<1>6. [j \in Items |-> Entry(j)]' =
        [[j \in Items |-> Entry(j)] EXCEPT ![i] = r]
  BY <1>5
<1>7. CASE o.kind = "bind"
  <2>1. i \in ExternalItems
    BY <1>1, <1>7 DEF Begun
  <2>2. r = [old EXCEPT !.bound = TRUE]
    <3>1. r = [status |-> old.status, bound |-> TRUE]
      BY <1>2, <1>7 DEF Updated, InPlace
    <3> QED
      BY <1>2, <3>1, Replaced
  <2>3. Lifecycle!Bind(i)
    BY <1>1, <1>2, <1>4, <1>6, <2>1, <2>2, SameRules DEF Lifecycle!Bind
  <2> QED
    BY <1>1, <2>3 DEF Lifecycle!Next
<1>8. CASE o.kind = "refresh"
  <2>1. r = old
    BY <1>2, <1>8 DEF Updated, InPlace, Record
  <2> QED
    BY <1>4, <1>5, <2>1
<1>9. CASE ~InPlace(o)
  <2>1. /\ o.target \in ALLOWED_TRANSITIONS[old.status]
        /\ ValidRecord(i \in ExternalItems, r)
    BY <1>2, <1>9 DEF Permitted, LegalTransition
  <2>2. r = [old EXCEPT !.status = o.target]
    <3>1. r = [status |-> o.target, bound |-> old.bound]
      BY <1>2, <1>9 DEF Updated, InPlace, Record
    <3> QED
      BY <1>2, <3>1, Replaced
  <2>3. Lifecycle!Move(i)
    <3>1. [j \in Items |-> Entry(j)][i] = old
      BY <1>1, <1>4
    <3>2. /\ [j \in Items |-> Entry(j)][i] # NoRecord
          /\ o.target \in ALLOWED_TRANSITIONS[[j \in Items |-> Entry(j)][i].status]
          /\ [[j \in Items |-> Entry(j)][i] EXCEPT !.status = o.target] = r
      BY <1>2, <2>1, <2>2, <3>1
    <3> QED
      BY <1>6, <2>1, <3>2, SameRules DEF Lifecycle!Move
  <2> QED
    BY <1>1, <2>3 DEF Lifecycle!Next
<1> QED
  BY <1>7, <1>8, <1>9 DEF InPlace

(* The queue, with its journal, leases, crashes and recovery, implements   *)
(* the atomic life cycle: every step is a put, a binding or a legal move   *)
(* of one item, or is invisible to the callers.                            *)
THEOREM ImplementsLifecycle == Spec => LifecycleSpec
<1>1. Init => Lifecycle!Init
  <2> SUFFICES ASSUME Init PROVE Lifecycle!Init
    OBVIOUS
  <2>1. \A i \in Items : Entry(i) = NoRecord
    BY DEF Init, Entry, Paths
  <2> QED
    BY <2>1, SameRules DEF Lifecycle!Init
<1>2. QueueInv /\ [Next]_vars =>
        [Lifecycle!Next]_([i \in Items |-> Entry(i)])
  <2> SUFFICES ASSUME QueueInv, [Next]_vars
               PROVE  Lifecycle!Next \/ \A j \in Items : Entry(j)' = Entry(j)
    OBVIOUS
  <2> USE DEF Procs
  <2>1. CASE UNCHANGED file
    BY <2>1 DEF Entry, Paths
  <2>2. ASSUME NEW p \in Controllers, NEW i \in Items, Put(p, i)
        PROVE  Lifecycle!Next
    <3>1. PICK s \in RoadmapStatus :
            /\ ValidRecord(i \in ExternalItems, [status |-> s, bound |-> FALSE])
            /\ file' = [file EXCEPT ![i][s] = [status |-> s, bound |-> FALSE]]
      BY <2>2 DEF Put
    <3> DEFINE r == [status |-> s, bound |-> FALSE]
    <3>2. Paths(i) = {} /\ s \in WorkStatus /\ r # NoRecord /\ TypeOK
      BY <2>2, QueueConstants DEF Put, QueueInv, TypeInv, WorkStatus, NoRecord
    <3>3. Entry(i) = NoRecord
      BY <3>2 DEF Entry
    <3>4. ASSUME NEW j \in Items
          PROVE  Entry(j)' = IF j = i THEN r ELSE Entry(j)
      <4>1. CASE j = i
        <5>1. /\ file'[i][s] = r
              /\ \A x \in WorkStatus : x # s => file'[i][x] = NoRecord
          BY <3>1, <3>2 DEF TypeOK, Paths
        <5> QED
          BY <3>2, <4>1, <5>1, RecordOf, EntryIn
      <4>2. CASE j # i
        BY <3>1, <3>2, <4>2, EntryIn DEF TypeOK
      <4> QED
        BY <4>1, <4>2
    <3>5. [j \in Items |-> Entry(j)]' =
            [[j \in Items |-> Entry(j)] EXCEPT ![i] = r]
      BY <3>4
    <3>6. Lifecycle!Put(i)
      BY <3>1, <3>3, <3>5, SameRules DEF Lifecycle!Put
    <3> QED
      BY <3>6 DEF Lifecycle!Next
  <2>3. ASSUME NEW p \in Controllers, MoveEntry(p)
        PROVE  UNCHANGED file \/ \A j \in Items : Entry(j)' = Entry(j)
    <3>1. /\ op[p].item \in Items /\ op[p].from \in WorkStatus
          /\ op[p].target \in WorkStatus /\ TypeOK /\ SingleEntry
      BY <2>3 DEF MoveEntry, QueueInv, TypeInv, OpTyped, OpFits
    <3> QED
      BY <2>3, <3>1, ReplaceSame DEF MoveEntry, disk
  <2>4. ASSUME NEW p \in Controllers, RenameEntry(p)
        PROVE  UNCHANGED file \/ \A j \in Items : Entry(j)' = Entry(j)
    <3>1. /\ op[p].item \in Items /\ op[p].dir \in WorkStatus
          /\ op[p].target \in WorkStatus /\ TypeOK /\ SingleEntry
      BY <2>4 DEF RenameEntry, QueueInv, TypeInv, OpTyped, OpFits, LockedSteps
    <3> QED
      BY <2>4, <3>1, ReplaceSame DEF RenameEntry, Raise
  <2>5. CASE Tick \/ UNCHANGED vars
    BY <2>1, <2>5 DEF Tick, vars
  <2>6. ASSUME NEW p \in Controllers, StartCycle(p) \/ Crash(p)
        PROVE  UNCHANGED file
    BY <2>6 DEF StartCycle, Crash, disk
  <2>7. ASSUME NEW p \in Controllers, Recovery(p)
        PROVE  UNCHANGED file \/ MoveEntry(p)
    BY <2>7 DEF Recovery, Inspect, RetireIntent, ListRunning, EndRecovery,
                ReadIntent, RecoverClaim, disk
  <2>8. ASSUME NEW p \in Controllers, Locked(p)
        PROVE  UNCHANGED file \/ RewriteEntry(p) \/ RenameEntry(p)
    BY <2>8 DEF Locked, WriteLease, ReadEntry, WriteIntent, RemoveIntent,
                RemoveLease, Raise, disk
  <2>9. ASSUME NEW p \in Controllers, Serve(p)
        PROVE  UNCHANGED file \/ \E i \in Items : Put(p, i)
    BY <2>9 DEF Serve, BeginTransition, BeginClaim, BeginBind, BeginRefresh,
                Renew, LoseLease, ExecutionRaises, EndCycle, disk
  <2> QED
    BY <2>1, <2>2, <2>3, <2>4, <2>5, <2>6, <2>7, <2>8, <2>9, RewriteMoves
    DEF Next, Controller
<1> QED
  BY <1>1, <1>2, QueueSafe, PTL DEF Spec, LifecycleSpec, Lifecycle!Spec

-----------------------------------------------------------------------------
(* A live claim beside `tcfactory recover`.  Its recovery acts on an       *)
(* intent it has read some steps ago, without the item's flock, so most of *)
(* the above is lost: an item may have two entries.  What is left is that  *)
(* of an item that is claimed, or executed under a lease that has not run  *)
(* out, no entry is overwritten.  That takes one recovery at a time: of    *)
(* two, one can leave the item with a second entry and the other have      *)
(* decided on a move that then overwrites the RUNNING one.                 *)
Lonely(p) == \A r \in Recoverers \ {p} : pc[r] = "off"

LEMMA ApartIsLonely ==
  ASSUME NoOverlap, NEW p \in Recoverers, pc[p] # "off"
  PROVE  Lonely(p)
  BY DEF NoOverlap, Lonely

(* Process p is at one of these steps of an operation on i; a recovery has *)
(* an intent of i in hand.                                                 *)
On(p, steps, i) == pc[p] \in steps /\ op[p].item = i
Reading(r, i) == On(r, {"inspect", "move"}, i)

(* p executes i under a lease that has not run out, and does not move it.  *)
Live(p, i) == lease[i].owner = p /\ lease[i].ttl > 0
Moving(p, i) == On(p, LockedSteps, i) /\ ~InPlace(op[p])
Executing(p, i) == i \in held[p] /\ Live(p, i) /\ ~Moving(p, i)

(* The entries of i, of which there is one, all have this status.          *)
Only(i, status) ==
  /\ \E s \in WorkStatus : file[i][s] # NoRecord
  /\ \A s \in WorkStatus : file[i][s] # NoRecord => file[i][s].status = status

(* The intent p works on; one that is legal; one whose source has not been *)
(* rewritten, so that reconcile_transactions moves nothing.                *)
Own(p) == [source |-> op[p].from, target |-> op[p].target]
Legal(intent) == LegalTransition(intent.source, intent.target)
Stale(i, intent) == file[i][intent.source].status # intent.target

(* What an operation is begun for, and what it carries.                    *)
WellBegun(p) ==
  /\ pc[p] \in LockedSteps =>
       /\ lock[op[p].item] = p
       /\ op[p].kind \in {"transition", "claim", "bind", "refresh"}
       /\ (op[p].target = "RUNNING") <=> (op[p].kind = "claim")
       /\ op[p].ret = "serving" \/ (op[p].ret = "recover" /\ op[p].kind = "transition")
       /\ pc[p] = "lease" => op[p].kind = "claim"
  /\ pc[p] \in {"journal", "rewrite", "rename", "unjournal", "unlease"} /\ ~InPlace(op[p]) =>
       Legal(Own(p)) /\ op[p].next.status = op[p].target
  /\ pc[p] \in {"inspect", "move", "retire"} => Legal(Own(p))

(* One controller is awake, and executes only while it serves; a recovery  *)
(* holds the flock of an abandoned claim only.                             *)
Apart(p) ==
  /\ p \in Controllers =>
       /\ pc[p] # "off" => cycle = p
       /\ held[p] # {} => pc[p] = "serving" \/ (pc[p] \in LockedSteps /\ op[p].ret = "serving")
  /\ p \in Recoverers =>
       /\ pc[p] # "serving" /\ held[p] = {}
       /\ pc[p] \in LockedSteps => op[p].ret = "recover" /\ Abandoned(op[p].item)

Intended ==
  /\ \A i \in Items : journal[i] # NoIntent => Legal(journal[i])
  /\ \A p \in Procs : WellBegun(p) /\ Apart(p)

(* The intent on disk is the one r has in hand; or the cycle will look at  *)
(* it, or wrote it and has not finished.                                   *)
Known(r, i) == journal[i] \in {NoIntent, Own(r)}
Attended(i) ==
  \/ cycle = Nobody
  \/ \E p \in Controllers :
       \/ pc[p] \in {"reconcile", "inspect", "move", "retire"} /\ i \in todo[p]
       \/ On(p, {"inspect", "move", "retire"}, i)
       \/ On(p, {"rewrite", "rename", "unjournal"}, i) /\ ~InPlace(op[p])

(* i is RUNNING, and if it has another entry nothing moves that.           *)
Harmless(i) ==
  \A r \in Recoverers :
    On(r, {"inspect"}, i) => op[r].target = "RUNNING" \/ Stale(i, Own(r))
Settled(i) ==
  \/ Only(i, "RUNNING")
  \/ /\ file[i]["RUNNING"].status = "RUNNING"
     /\ Harmless(i)
     /\ \A r \in Recoverers : On(r, {"move"}, i) => file[i][op[r].from] = NoRecord

(* A claim whose entry was moved away before it was rewritten leaves two:  *)
(* no move of the one that was moved away is to come.                      *)
Unmoved(p, i) ==
  /\ \A r \in Recoverers :
       ~On(r, {"move"}, i) /\ (On(r, {"inspect"}, i) => Stale(i, Own(r)))
  /\ pc[p] = "journal" /\ journal[i] # NoIntent => Stale(i, journal[i])
Split(p, i) ==
  /\ \A s \in WorkStatus :
       file[i][s].status = "RUNNING" => s = op[p].dir \/ s = "RUNNING"
  /\ file[i][op[p].dir] # NoRecord => file[i][op[p].dir].status = "RUNNING"
  /\ "RUNNING" \in {file[i][op[p].dir].status, file[i]["RUNNING"].status}
  /\ Harmless(i)
  /\ \A r \in Recoverers : On(r, {"move"}, i) =>
       /\ op[r].from = op[p].dir /\ op[r].target = "RUNNING"
       /\ file[i]["RUNNING"] = NoRecord
Claiming(p, i) ==
  /\ pc[p] \in {"journal", "rewrite"} =>
       Only(i, "QUEUED") /\ (file[i][op[p].dir] = NoRecord => Unmoved(p, i))
  /\ pc[p] = "rename" => Only(i, "RUNNING") \/ Split(p, i)
  /\ pc[p] = "unjournal" => Settled(i)

(* An operation of the cycle on i: it has found one entry, its intent is   *)
(* the one on disk, and if its entry was moved away, it is known by whom.  *)
Working(p, i) ==
  /\ pc[p] \in {"lease", "read", "journal", "rewrite"} => Located(i)
  /\ pc[p] \in {"rewrite", "rename", "unjournal"} /\ ~InPlace(op[p]) =>
       journal[i] \in {NoIntent, Own(p)}
  /\ pc[p] = "rename" /\ file[i][op[p].dir] = NoRecord =>
       \A r \in Recoverers : Reading(r, i) => Known(r, i)
  /\ pc[p] = "rewrite" /\ Executing(p, i) => op[p].next.status = "RUNNING"
  /\ op[p].kind = "claim" => Claiming(p, i)

Sheltered(i) == Only(i, "RUNNING") \/ (Settled(i) /\ journal[i] = NoIntent)

ItemInv(i) ==
  /\ \A r \in Recoverers : Reading(r, i) => Known(r, i) \/ Attended(i)
  /\ \A p \in Controllers : On(p, LockedSteps, i) => Working(p, i)
  /\ \A p \in Controllers : Executing(p, i) => Sheltered(i)

BesideInv == TypeInv /\ Intended /\ \A i \in Items : ItemInv(i)

-----------------------------------------------------------------------------
(* The table: a status is never followed by itself, and only QUEUED by     *)
(* RUNNING.                                                                *)
LEMMA LegalStatus ==
  ASSUME NEW s \in WorkStatus, NEW t, LegalTransition(s, t)
  PROVE  t # s /\ (t = "RUNNING" => s = "QUEUED")
<1> USE Zenon DEF LegalTransition, ALLOWED_TRANSITIONS
<1>1. CASE s = "PROPOSED"
  BY <1>1
<1>2. CASE s = "READY"
  BY <1>2
<1>3. CASE s = "QUEUED"
  BY <1>3
<1>4. CASE s = "RUNNING"
  BY <1>4
<1>5. CASE s = "PAUSED_QUOTA"
  BY <1>5
<1>6. CASE s = "PAUSED_BACKEND"
  BY <1>6
<1>7. CASE s = "WAITING_EXTERNAL"
  BY <1>7
<1>8. CASE s = "BLOCKED_TECHNICAL"
  BY <1>8
<1>9. CASE s = "BLOCKED_POLICY"
  BY <1>9
<1>10. CASE s = "PASSED_ENGINEERING"
  BY <1>10
<1>11. CASE s = "DEFERRED"
  BY <1>11
<1> QED
  BY <1>1, <1>2, <1>3, <1>4, <1>5, <1>6, <1>7, <1>8, <1>9, <1>10, <1>11 DEF WorkStatus

(* A step of p keeps Intended if it does for p itself, as long as it       *)
(* leaves alone the flocks of the others and what they found abandoned.    *)
LEMMA OthersApart ==
  ASSUME TypeInv, Intended, NEW p \in Procs,
         \A q \in Procs \ {p} : pc'[q] = pc[q] /\ op'[q] = op[q] /\ held'[q] = held[q],
         \A i \in Items : lock[i] \in Procs \ {p} =>
           lock'[i] = lock[i] /\ (Abandoned(i) => Abandoned(i)'),
         cycle \in {p, Nobody} \/ cycle' = cycle,
         \A i \in Items : journal'[i] \in {journal[i], NoIntent} \/ Legal(journal'[i]),
         WellBegun(p)', Apart(p)'
  PROVE  Intended'
<1>1. ASSUME NEW q \in Procs \ {p}
      PROVE  WellBegun(q)'
  <2>1. pc[q] \in LockedSteps => lock[op[q].item] = q /\ op[q].item \in Items
    BY DEF Intended, WellBegun, TypeInv, OpTyped, OpFits
  <2>2. pc[q] \in LockedSteps => lock'[op[q].item] = q
    BY <2>1
  <2> QED
    BY <2>2 DEF Intended, WellBegun, InPlace, Own, Legal
<1>2. ASSUME NEW q \in Procs \ {p}
      PROVE  Apart(q)'
  <2>1. pc[q] \in LockedSteps => lock[op[q].item] = q /\ op[q].item \in Items
    BY DEF Intended, WellBegun, TypeInv, OpTyped, OpFits
  <2>2. pc[q] \in LockedSteps /\ Abandoned(op[q].item) => Abandoned(op[q].item)'
    BY <2>1
  <2>3. q \in Controllers /\ pc[q] # "off" => cycle' = q
    BY QueueConstants DEF Intended, Apart
  <2> QED
    BY <2>2, <2>3 DEF Intended, Apart
<1>3. \A i \in Items : journal'[i] # NoIntent => Legal(journal'[i])
  BY DEF Intended
<1> QED
  BY <1>1, <1>2, <1>3 DEF Intended, Legal

(* The same when p gives up: its flocks are released, and what was         *)
(* abandoned stays so.                                                     *)
LEMMA AbortApart ==
  ASSUME TypeInv, Intended, NEW p \in Procs, Abort(p), UNCHANGED journal,
         \A i \in Items : lock[i] \in Procs \ {p} => (Abandoned(i) => Abandoned(i)')
  PROVE  Intended'
<1>1. pc'[p] = "off" /\ held'[p] = {}
  BY DEF Abort, Goto, TypeInv, TypeOK
<1>2. WellBegun(p)' /\ Apart(p)'
  BY <1>1 DEF WellBegun, Apart, LockedSteps
<1>3. \A q \in Procs \ {p} : pc'[q] = pc[q] /\ op'[q] = op[q] /\ held'[q] = held[q]
  BY DEF Abort, Goto, TypeInv, TypeOK
<1> QED
  BY <1>2, <1>3, OthersApart, QueueConstants DEF Abort

(* A step of a recovery pass, the cycle's or a recovery's own. *)
LEMMA RecoveryApart ==
  ASSUME TypeInv, Intended, NEW p \in Procs, Recovery(p)
  PROVE  Intended'
<1> USE DEF disk
<1>0. TypeOK /\ WellBegun(p) /\ Apart(p) /\ Nobody \notin Procs
  BY QueueConstants DEF Intended, TypeInv
<1>1. ASSUME Abort(p), UNCHANGED disk
      PROVE  Intended'
  BY <1>1, AbortApart DEF Abandoned
<1>2. ASSUME NEW i \in Items, ReadIntent(p, i), journal[i] # NoIntent
      PROVE  Intended'
  <2>1. /\ pc' = [pc EXCEPT ![p] = "inspect"]
        /\ op' = [op EXCEPT ![p] =
             [kind |-> "reconcile", item |-> i, target |-> journal[i].target,
              from |-> journal[i].source, dir |-> journal[i].source,
              next |-> NoRecord, ret |-> "reconcile"]]
        /\ pc[p] = "reconcile" /\ UNCHANGED <<disk, lock, cycle, held>>
    BY <1>2 DEF ReadIntent, Goto, Begin, Opened
  <2>2. Legal(journal[i])
    BY <1>2 DEF Intended
  <2>3. WellBegun(p)' /\ Apart(p)'
    BY <1>0, <2>1, <2>2 DEF WellBegun, Apart, LockedSteps, Own, Legal, TypeOK
  <2> QED
    BY <1>0, <2>1, <2>3, OthersApart DEF Abandoned, TypeOK
<1>3. ASSUME Goto(p, "retire") \/ Goto(p, "move"), Inspect(p) \/ MoveEntry(p),
             UNCHANGED <<journal, lease, lock, cycle, op, todo, held>>
      PROVE  Intended'
  <2>1. pc[p] \in {"inspect", "move"} /\ pc'[p] \in {"retire", "move"}
        /\ \A q \in Procs \ {p} : pc'[q] = pc[q]
    BY <1>0, <1>3 DEF Inspect, MoveEntry, Goto, TypeOK
  <2>2. WellBegun(p)' /\ Apart(p)'
    BY <1>0, <1>3, <2>1 DEF WellBegun, Apart, LockedSteps, Own, Legal
  <2> QED
    BY <1>0, <1>3, <2>1, <2>2, OthersApart DEF Abandoned
<1>4. ASSUME pc[p] = "retire", Goto(p, "reconcile"),
             journal' = [journal EXCEPT ![op[p].item] = NoIntent],
             op' = [op EXCEPT ![p] = NoOp],
             UNCHANGED <<file, lease, lock, cycle, todo, held>>
      PROVE  Intended'
  <2>1. /\ pc'[p] = "reconcile"
        /\ \A q \in Procs \ {p} : pc'[q] = pc[q] /\ op'[q] = op[q]
    BY <1>0, <1>4 DEF Goto, TypeOK
  <2>2. WellBegun(p)' /\ Apart(p)'
    BY <1>0, <1>4, <2>1 DEF WellBegun, Apart, LockedSteps
  <2>3. \A i \in Items : journal'[i] \in {journal[i], NoIntent}
    BY <1>0, <1>4 DEF TypeOK
  <2> QED
    BY <1>0, <1>4, <2>1, <2>2, <2>3, OthersApart DEF Abandoned
<1>5. ASSUME NEW i \in Items, RecoverClaim(p, i), Goto(p, "read")
      PROVE  Intended'
  <2>1. /\ pc[p] = "recover" /\ lock[i] = Nobody
        /\ Abandoned(i) /\ lock' = [lock EXCEPT ![i] = p]
        /\ pc' = [pc EXCEPT ![p] = "read"]
        /\ op' = [op EXCEPT ![p] =
             [kind |-> "transition", item |-> i, target |-> "BLOCKED_TECHNICAL",
              from |-> "ABSENT", dir |-> "ABSENT", next |-> NoRecord, ret |-> "recover"]]
        /\ UNCHANGED <<disk, cycle, held>>
    BY <1>0, <1>5 DEF RecoverClaim, Goto, Begin, Abort, TypeOK
  <2>2. WellBegun(p)' /\ Apart(p)'
    BY <1>0, <2>1 DEF WellBegun, Apart, LockedSteps, TypeOK, Abandoned
  <2> QED
    BY <1>0, <2>1, <2>2, OthersApart DEF Abandoned, TypeOK
<1>6. ASSUME pc[p] \in {"reconcile", "recover"},
             pc'[p] \in {"reconcile", "recover", "serving", "off"},
             pc'[p] = "serving" => p \in Controllers,
             \A q \in Procs \ {p} : pc'[q] = pc[q],
             UNCHANGED <<disk, lock, cycle, op, held>>
      PROVE  Intended'
  <2>1. WellBegun(p)' /\ Apart(p)'
    BY <1>0, <1>6, QueueConstants DEF WellBegun, Apart, LockedSteps
  <2> QED
    BY <1>0, <1>6, <2>1, OthersApart DEF Abandoned
<1>7. ASSUME NEW i \in Items, ReadIntent(p, i)
      PROVE  Intended'
  BY <1>1, <1>2, <1>7 DEF ReadIntent
<1>8. CASE Inspect(p)
  BY <1>1, <1>3, <1>8 DEF Inspect
<1>9. CASE MoveEntry(p)
  BY <1>1, <1>3, <1>9 DEF MoveEntry
<1>10. CASE RetireIntent(p)
  BY <1>1, <1>4, <1>10 DEF RetireIntent
<1>11. ASSUME NEW i \in Items, RecoverClaim(p, i)
       PROVE  Intended'
  BY <1>0, <1>1, <1>5, <1>6, <1>11 DEF RecoverClaim
<1>12. CASE ListRunning(p)
  BY <1>0, <1>6, <1>12 DEF ListRunning, Goto, TypeOK
<1>13. CASE EndRecovery(p)
  BY <1>0, <1>6, <1>13 DEF EndRecovery, Goto, TypeOK
<1> QED
  BY <1>7, <1>8, <1>9, <1>10, <1>11, <1>12, <1>13 DEF Recovery

(* An operation ends: its flock is released. *)
LEMMA FinishApart ==
  ASSUME TypeInv, Intended, NEW p \in Procs, pc[p] \in LockedSteps, Finish(p),
         UNCHANGED cycle,
         \A q \in Procs \ {p} : held'[q] = held[q],
         op[p].ret # "serving" => held'[p] = held[p],
         \A i \in Items : i # op[p].item => lease'[i] = lease[i],
         \A i \in Items : journal'[i] \in {journal[i], NoIntent}
  PROVE  Intended'
<1>1. /\ TypeOK /\ WellBegun(p) /\ Apart(p) /\ Nobody \notin Procs
      /\ op[p].item \in Items
  BY QueueConstants DEF Intended, TypeInv, OpTyped, OpFits
<1>2. /\ pc'[p] = op[p].ret /\ op[p].ret \in {"serving", "recover"}
      /\ \A q \in Procs \ {p} : pc'[q] = pc[q] /\ op'[q] = op[q]
      /\ lock' = [lock EXCEPT ![op[p].item] = Nobody]
  BY <1>1 DEF Finish, Goto, TypeOK, WellBegun
<1>3. WellBegun(p)' /\ Apart(p)'
  <2>1. WellBegun(p)'
    BY <1>2 DEF WellBegun, LockedSteps
  <2>2. Apart(p)'
    BY <1>1, <1>2, QueueConstants DEF Apart, LockedSteps
  <2> QED
    BY <2>1, <2>2
<1>4. ASSUME NEW i \in Items, lock[i] \in Procs \ {p}
      PROVE  lock'[i] = lock[i] /\ (Abandoned(i) => Abandoned(i)')
  <2>1. i # op[p].item
    BY <1>1, <1>4 DEF WellBegun
  <2> QED
    BY <1>1, <1>2, <2>1 DEF TypeOK, Abandoned
<1> QED
  BY <1>2, <1>3, <1>4, OthersApart

(* A step under an item's flock, of the cycle or of a recovery.            *)
LEMMA LockedApart ==
  ASSUME TypeInv, Intended, NEW p \in Procs, Locked(p)
  PROVE  Intended'
<1> USE DEF disk
<1>0. /\ TypeOK /\ WellBegun(p) /\ Apart(p) /\ Nobody \notin Procs
      /\ pc[p] \in LockedSteps /\ op[p].item \in Items
      /\ lock[op[p].item] = p /\ OpFits(op[p], pc[p])
  BY QueueConstants
  DEF Intended, TypeInv, OpTyped, OpFits, WellBegun, LockedSteps, Locked, WriteLease,
      ReadEntry, WriteIntent, RewriteEntry, RenameEntry, RemoveIntent, RemoveLease
<1>1. ASSUME Raise(p)
      PROVE  Intended'
  <2>1. \A i \in Items : i # op[p].item => lease'[i] = lease[i]
    BY <1>0, <1>1 DEF Raise, TypeOK
  <2>2. CASE Abort(p)
    <3>1. \A i \in Items : lock[i] \in Procs \ {p} => lease'[i] = lease[i]
      BY <1>0, <2>1
    <3> QED
      BY <1>1, <2>2, <3>1, AbortApart DEF Raise, Abandoned
  <2>3. CASE /\ op[p].ret = "serving" /\ Finish(p)
             /\ held' = [held EXCEPT ![p] = @ \ {op[p].item}]
             /\ UNCHANGED <<cycle, todo>>
    BY <1>0, <1>1, <2>1, <2>3, FinishApart DEF Raise, TypeOK
  <2> QED
    BY <1>1, <2>2, <2>3 DEF Raise
<1>2. ASSUME pc'[p] \in LockedSteps \ {"lease"}, op'[p].item = op[p].item,
             op'[p].kind = op[p].kind, op'[p].target = op[p].target, op'[p].ret = op[p].ret,
             \A q \in Procs \ {p} : pc'[q] = pc[q] /\ op'[q] = op[q],
             UNCHANGED <<lock, cycle, held>>,
             lease' = lease \/ (pc[p] = "lease" /\ \A i \in Items : i # op[p].item => lease'[i] = lease[i]),
             \A i \in Items : journal'[i] \in {journal[i], NoIntent} \/ Legal(journal'[i]),
             pc'[p] # "read" /\ ~InPlace(op[p]) =>
               Legal(Own(p)') /\ op'[p].next.status = op[p].target
      PROVE  Intended'
  <2>1. WellBegun(p)'
    BY <1>0, <1>2 DEF WellBegun, LockedSteps, InPlace, Legal
  <2>2. p \in Recoverers => lease' = lease
    BY <1>0, <1>2 DEF WellBegun, Apart
  <2>3. Apart(p)'
    BY <1>0, <1>2, <2>2 DEF Apart, LockedSteps, Abandoned
  <2>4. \A i \in Items : lock[i] \in Procs \ {p} => lease'[i] = lease[i]
    BY <1>0, <1>2
  <2> QED
    BY <1>0, <1>2, <2>1, <2>3, <2>4, OthersApart DEF Abandoned
<1>3. CASE WriteLease(p)
  BY <1>0, <1>2, <1>3 DEF WriteLease, Goto, TypeOK, LockedSteps
<1>4. CASE ReadEntry(p)
  <2> DEFINE r == Loaded(op[p].item)
  <2>1. ASSUME Located(op[p].item), Permitted(op[p], r),
               op' = [op EXCEPT ![p] = Opened(op[p], r.status, At(op[p].item), Updated(op[p], r))],
               Goto(p, IF InPlace(op[p]) THEN "rewrite" ELSE "journal"),
               UNCHANGED <<disk, lock, cycle, todo, held>>
        PROVE  Intended'
    <3>1. ~InPlace(op[p]) => LegalTransition(r.status, op[p].target)
                             /\ Updated(op[p], r).status = op[p].target
      BY <2>1 DEF Permitted, Updated
    <3> HIDE DEF r
    <3>2. /\ pc'[p] \in {"rewrite", "journal"}
          /\ op'[p] = [kind |-> op[p].kind, item |-> op[p].item, target |-> op[p].target,
                       from |-> r.status, dir |-> At(op[p].item), next |-> Updated(op[p], r),
                       ret |-> op[p].ret]
          /\ \A q \in Procs \ {p} : pc'[q] = pc[q] /\ op'[q] = op[q]
      BY <1>0, <2>1 DEF Goto, TypeOK, Opened
    <3> QED
      BY <1>2, <2>1, <3>1, <3>2 DEF Legal, Own, LockedSteps
  <2> QED
    BY <1>1, <1>4, <2>1 DEF ReadEntry
<1>5. CASE WriteIntent(p)
  <2>1. ~InPlace(op[p]) /\ Legal(Own(p)) /\ op[p].next.status = op[p].target
    BY <1>0, <1>5 DEF WriteIntent, OpFits, WellBegun
  <2>2. \A i \in Items : journal'[i] = journal[i] \/ Legal(journal'[i])
    BY <1>0, <1>5, <2>1 DEF WriteIntent, TypeOK, Own
  <2> QED
    BY <1>0, <1>2, <1>5, <2>1, <2>2 DEF WriteIntent, Goto, TypeOK, LockedSteps, Own, Legal
<1>6. CASE RewriteEntry(p)
  <2>1. CASE Finish(p)
    BY <1>0, <1>6, <2>1, FinishApart DEF RewriteEntry
  <2>2. CASE ~InPlace(op[p]) /\ Goto(p, "rename") /\ UNCHANGED <<op, lock>>
    <3>1. Legal(Own(p)) /\ op[p].next.status = op[p].target
      BY <1>0, <1>6, <2>2 DEF RewriteEntry, WellBegun
    <3> QED
      BY <1>0, <1>2, <1>6, <2>2, <3>1 DEF RewriteEntry, Goto, TypeOK, LockedSteps, Own, Legal
  <2> QED
    BY <1>6, <2>1, <2>2 DEF RewriteEntry
<1>7. CASE RenameEntry(p)
  <2>1. CASE Goto(p, "unjournal") /\ UNCHANGED <<journal, lease, lock, cycle, op, todo, held>>
    <3>1. Legal(Own(p)) /\ op[p].next.status = op[p].target
      BY <1>0, <1>7 DEF RenameEntry, WellBegun, OpFits
    <3> QED
      BY <1>0, <1>2, <2>1, <3>1 DEF Goto, TypeOK, LockedSteps, Own, Legal
  <2> QED
    BY <1>1, <1>7, <2>1 DEF RenameEntry
<1>8. CASE RemoveIntent(p)
  <2>1. \A i \in Items : journal'[i] \in {journal[i], NoIntent}
    BY <1>0, <1>8 DEF RemoveIntent, TypeOK
  <2>2. CASE Finish(p) /\ held' = [held EXCEPT ![p] = @ \cup {op[p].item}] /\ op[p].target = "RUNNING"
    <3>1. op[p].ret = "serving"
      BY <1>0, <2>2 DEF WellBegun
    <3> QED
      BY <1>0, <1>8, <2>1, <2>2, <3>1, FinishApart DEF RemoveIntent, TypeOK
  <2>3. CASE Goto(p, "unlease") /\ UNCHANGED <<op, lock, held>>
    <3>1. Legal(Own(p)) /\ op[p].next.status = op[p].target
      BY <1>0, <1>8 DEF RemoveIntent, WellBegun, OpFits
    <3> QED
      BY <1>0, <1>2, <1>8, <2>1, <2>3, <3>1 DEF RemoveIntent, Goto, TypeOK, LockedSteps, Own, Legal
  <2> QED
    BY <1>8, <2>2, <2>3 DEF RemoveIntent
<1>9. CASE RemoveLease(p)
  <2>1. op[p].ret # "serving" => held'[p] = held[p]
    BY <1>0, <1>9, QueueConstants DEF RemoveLease, Apart, TypeOK, LockedSteps, Procs
  <2> QED
    BY <1>0, <1>9, <2>1, FinishApart DEF RemoveLease, TypeOK
<1> QED
  BY <1>3, <1>4, <1>5, <1>6, <1>7, <1>8, <1>9 DEF Locked


(* A call of the cycle. *)
LEMMA ServeApart ==
  ASSUME TypeInv, Intended, NEW p \in Controllers, Serve(p)
  PROVE  Intended'
<1> USE DEF disk
<1>0. /\ TypeOK /\ WellBegun(p) /\ Apart(p) /\ Nobody \notin Procs
      /\ p \in Procs /\ p \notin Recoverers
      /\ pc[p] = "serving" /\ cycle = p
  BY QueueConstants
  DEF Intended, TypeInv, Apart, Serve, Put, BeginTransition, BeginClaim, BeginBind,
      BeginRefresh, Enter, Renew, LoseLease, ExecutionRaises, EndCycle, Procs
<1>1. ASSUME NEW i \in Items, NEW k \in {"transition", "claim", "bind", "refresh"}, NEW t,
             NEW step \in {"lease", "read"}, (t = "RUNNING") <=> (k = "claim"),
             step = "lease" => k = "claim",
             Enter(p, i, k, t, step), UNCHANGED <<journal, cycle>>,
             \A q \in Procs \ {p} : held'[q] = held[q],
             \A j \in Items \ {i} : lease'[j] = lease[j]
      PROVE  Intended'
  <2>1. /\ lock[i] = Nobody /\ lock' = [lock EXCEPT ![i] = p]
        /\ pc' = [pc EXCEPT ![p] = step]
        /\ op' = [op EXCEPT ![p] =
             [kind |-> k, item |-> i, target |-> t, from |-> "ABSENT",
              dir |-> "ABSENT", next |-> NoRecord, ret |-> "serving"]]
    BY <1>1 DEF Enter, Goto, Begin
  <2>2. WellBegun(p)'
    BY <1>0, <1>1, <2>1 DEF WellBegun, TypeOK
  <2>3. Apart(p)'
    BY <1>0, <1>1, <2>1 DEF Apart, LockedSteps, TypeOK
  <2>4. \A j \in Items : lock[j] \in Procs \ {p} => lock'[j] = lock[j] /\ lease'[j] = lease[j]
    BY <1>0, <1>1, <2>1 DEF TypeOK
  <2>5. \A q \in Procs \ {p} : pc'[q] = pc[q] /\ op'[q] = op[q]
    BY <1>0, <2>1 DEF TypeOK
  <2> QED
    BY <1>0, <1>1, <2>2, <2>3, <2>4, <2>5, OthersApart DEF Abandoned
<1>2. ASSUME UNCHANGED <<journal, lock, cycle, pc, op>>,
             \A q \in Procs \ {p} : held'[q] = held[q],
             \A i \in Items : lock[i] \in Procs \ {p} => (Abandoned(i) => Abandoned(i)')
      PROVE  Intended'
  <2>1. WellBegun(p)' /\ Apart(p)'
    BY <1>0, <1>2 DEF WellBegun, Apart, LockedSteps
  <2> QED
    BY <1>0, <1>2, <2>1, OthersApart
<1>3. ASSUME NEW i \in Items, Put(p, i)
      PROVE  Intended'
  BY <1>2, <1>3 DEF Put, Abandoned
<1>4. ASSUME NEW i \in Items, BeginTransition(p, i)
      PROVE  Intended'
  <2>1. PICK t \in Requested : Enter(p, i, "transition", t, "read")
    BY <1>4 DEF BeginTransition
  <2>2. t # "RUNNING"
    BY <2>1, QueueConstants
  <2> QED
    BY <1>1, <1>4, <2>1, <2>2 DEF BeginTransition
<1>5. ASSUME NEW i \in Items, BeginClaim(p, i)
      PROVE  Intended'
  <2>1. \A j \in Items \ {i} : lease'[j] = lease[j]
    BY <1>0, <1>5 DEF BeginClaim, TypeOK
  <2> QED
    BY <1>1, <1>5, <2>1 DEF BeginClaim
<1>6. ASSUME NEW i \in Items, BeginBind(p, i)
      PROVE  Intended'
  BY <1>1, <1>6 DEF BeginBind
<1>7. ASSUME NEW i \in Items, BeginRefresh(p, i)
      PROVE  Intended'
  BY <1>1, <1>7 DEF BeginRefresh
<1>8. ASSUME NEW i \in Items, Renew(p, i)
      PROVE  Intended'
  <2>1. \A j \in Items \ {i} : lease'[j] = lease[j]
    BY <1>0, <1>8 DEF Renew, TypeOK
  <2> QED
    BY <1>0, <1>2, <1>8, <2>1 DEF Renew, Abandoned
<1>9. ASSUME NEW i \in Items, LoseLease(p, i)
      PROVE  Intended'
  <2>1. \A q \in Procs \ {p} : held'[q] = held[q]
    BY <1>0, <1>9 DEF LoseLease, TypeOK
  <2> QED
    BY <1>1, <1>2, <1>9, <2>1 DEF LoseLease, Abandoned
<1>10. ASSUME NEW i \in Items, ExecutionRaises(p, i)
       PROVE  Intended'
  <2>1. \A q \in Procs \ {p} : held'[q] = held[q]
    BY <1>0, <1>10 DEF ExecutionRaises, TypeOK
  <2> QED
    BY <1>2, <1>10, <2>1 DEF ExecutionRaises, Abandoned
<1>11. CASE EndCycle(p)
  <2>1. /\ pc'[p] = "off" /\ held'[p] = {}
        /\ \A q \in Procs \ {p} : pc'[q] = pc[q]
    BY <1>0, <1>11 DEF EndCycle, Goto, TypeOK
  <2>2. WellBegun(p)' /\ Apart(p)'
    BY <1>0, <2>1 DEF WellBegun, Apart, LockedSteps
  <2> QED
    BY <1>0, <1>11, <2>1, <2>2, OthersApart DEF EndCycle, Abandoned
<1> QED
  BY <1>3, <1>4, <1>5, <1>6, <1>7, <1>8, <1>9, <1>10, <1>11 DEF Serve

(* Every step beside a recovery keeps Intended: time and the death of an   *)
(* owner make a claim abandoned, never the reverse.                        *)
LEMMA CliApart ==
  ASSUME TypeInv, Intended, [NextCli]_vars
  PROVE  Intended'
<1> USE DEF disk
<1>0. TypeOK /\ Nobody \notin Procs
  BY QueueConstants DEF TypeInv
<1>1. CASE Tick
  <2>1. \A i \in Items : Abandoned(i) => Abandoned(i)'
    <3>1. SUFFICES ASSUME NEW i \in Items, Abandoned(i)
                   PROVE  Abandoned(i)'
      OBVIOUS
    <3>2. lease'[i] = IF lease[i].ttl > 0 THEN [lease[i] EXCEPT !.ttl = @ - 1] ELSE lease[i]
      BY <1>1 DEF Tick
    <3>3. lease[i] \in Lease \cup {NoLease}
      BY <1>0 DEF TypeOK
    <3> QED
      BY <3>1, <3>2, <3>3 DEF Abandoned, NoLease, Lease
  <2>2. UNCHANGED <<file, journal, lock, cycle, pc, op, todo, held>>
    BY <1>1 DEF Tick
  <2>3. ASSUME NEW p \in Procs
        PROVE  WellBegun(p)' /\ Apart(p)'
    <3>1. WellBegun(p)'
      BY <2>2 DEF Intended, WellBegun, Own, Legal, InPlace
    <3>2. pc[p] \in LockedSteps => op[p].item \in Items
      BY DEF TypeInv, OpTyped, OpFits
    <3>3. Apart(p)'
      BY <2>1, <2>2, <3>2 DEF Intended, Apart
    <3> QED
      BY <3>1, <3>3
  <2> QED
    BY <2>2, <2>3 DEF Intended, Legal
<1>2. ASSUME NEW p \in Procs, Crash(p)
      PROVE  Intended'
  <2>1. \A i \in Items : Abandoned(i) => Abandoned(i)'
    <3>1. SUFFICES ASSUME NEW i \in Items, Abandoned(i)
                   PROVE  Abandoned(i)'
      OBVIOUS
    <3>2. lease'[i] = IF lease[i].owner = p THEN [lease[i] EXCEPT !.owner = Dead] ELSE lease[i]
      BY <1>2 DEF Crash
    <3>3. lease[i] \in Lease \cup {NoLease}
      BY <1>0 DEF TypeOK
    <3> QED
      BY <1>0, <3>1, <3>2, <3>3, QueueConstants DEF Abandoned, NoLease, Lease
  <2> QED
    BY <1>2, <2>1, AbortApart DEF Crash
<1>3. ASSUME NEW p \in Procs, StartCycle(p) \/ StartRecover(p)
      PROVE  Intended'
  <2>1. /\ pc[p] = "off" /\ pc'[p] = "reconcile"
        /\ \A q \in Procs \ {p} : pc'[q] = pc[q]
        /\ UNCHANGED <<disk, lock, op, held>>
        /\ p \in Controllers => cycle = Nobody /\ cycle' = p
        /\ p \in Recoverers => cycle' = cycle
    BY <1>0, <1>3, QueueConstants DEF StartCycle, StartRecover, Goto, TypeOK
  <2>2. WellBegun(p)' /\ Apart(p)'
    BY <2>1 DEF Intended, WellBegun, Apart, LockedSteps
  <2> QED
    BY <2>1, <2>2, OthersApart, QueueConstants DEF Abandoned, Procs
<1>4. CASE UNCHANGED vars
  <2>1. \A p \in Procs : WellBegun(p)' /\ Apart(p)'
    BY <1>4 DEF vars, Intended, WellBegun, Apart, Abandoned, Own, Legal, InPlace
  <2> QED
    BY <1>4, <2>1 DEF vars, Intended, Legal
<1> QED
  BY <1>1, <1>2, <1>3, <1>4, RecoveryApart, LockedApart, ServeApart
  DEF NextCli, Next, Controller, Procs

-----------------------------------------------------------------------------
(* ItemInv, step by step.                                                  *)

(* While a controller is awake no other controller does anything. *)
LEMMA Lone ==
  ASSUME TypeInv, Intended, NEW p \in Controllers, pc[p] # "off"
  PROVE  /\ cycle = p /\ cycle # Nobody
         /\ \A q \in Controllers \ {p} : pc[q] = "off" /\ held[q] = {}
  BY QueueConstants DEF Intended, Apart, Procs, LockedSteps

(* A step of the awake controller: its own part of the invariant is left.  *)
LEMMA Awake ==
  ASSUME BesideInv, NEW p \in Controllers, pc[p] # "off", NEW i \in Items,
         \A q \in Procs \ {p} : pc'[q] = pc[q] /\ op'[q] = op[q] /\ held'[q] = held[q],
         \A r \in Recoverers : Reading(r, i) => (Known(r, i) \/ Attended(i))',
         On(p, LockedSteps, i)' => Working(p, i)',
         Executing(p, i)' => Sheltered(i)'
  PROVE  ItemInv(i)'
<1>1. \A q \in Controllers \ {p} : pc'[q] = "off" /\ held'[q] = {}
  BY Lone DEF BesideInv, Procs
<1>2. \A r \in Recoverers : Reading(r, i)' => Reading(r, i)
  BY QueueConstants DEF Reading, On, Procs
<1> QED
  BY <1>1, <1>2 DEF ItemInv, On, Executing, LockedSteps

(* An intent is attended to in reconciliation and while it is executed.    *)
LEMMA Unattended ==
  ASSUME TypeInv, Intended, NEW p \in Controllers, pc[p] # "off", NEW i \in Items,
         ~(pc[p] \in {"reconcile", "inspect", "move", "retire"} /\ i \in todo[p]),
         ~On(p, {"inspect", "move", "retire"}, i),
         ~(On(p, {"rewrite", "rename", "unjournal"}, i) /\ ~InPlace(op[p]))
  PROVE  ~Attended(i)
  BY Lone DEF Attended, On

(* What is said of an item's entries stays true while they do and no       *)
(* recovery takes another intent of it in hand.                            *)
LEMMA EntriesKept ==
  ASSUME NEW i \in Items, file'[i] = file[i], journal'[i] \in {journal[i], NoIntent},
         \A r \in Recoverers :
           (pc'[r] = pc[r] /\ op'[r] = op[r]) \/ ~Reading(r, i)'
  PROVE  /\ Located(i) => Located(i)'
         /\ \A status \in WorkStatus : Only(i, status) => Only(i, status)'
         /\ Settled(i) => Settled(i)'
         /\ Sheltered(i) => Sheltered(i)'
         /\ \A r \in Recoverers : Reading(r, i)' => Reading(r, i) /\ op'[r] = op[r]
<1> USE DEF Reading, On, Own, Stale
<1>1. \A status \in WorkStatus : Only(i, status) => Only(i, status)'
  BY DEF Only
<1>2. "RUNNING" \in WorkStatus
  BY DEF WorkStatus
<1>3. Settled(i) => Settled(i)'
  BY <1>1, <1>2 DEF Settled, Harmless
<1> QED
  BY <1>1, <1>2, <1>3 DEF Located, Paths, Sheltered

(* So does what is said of a claim under way. *)
LEMMA ClaimKept ==
  ASSUME NEW i \in Items, file'[i] = file[i], journal'[i] \in {journal[i], NoIntent},
         \A r \in Recoverers :
           (pc'[r] = pc[r] /\ op'[r] = op[r]) \/ ~Reading(r, i)',
         NEW p, pc'[p] = pc[p], op'[p] = op[p], Claiming(p, i)
  PROVE  Claiming(p, i)'
<1> USE DEF Reading, On, Own, Stale
<1>1. Unmoved(p, i) => Unmoved(p, i)'
  BY DEF Unmoved
<1>2. Split(p, i) => Split(p, i)'
  BY DEF Split, Harmless
<1> QED
  BY <1>1, <1>2, EntriesKept DEF Claiming, WorkStatus

(* A step that leaves the entries of i alone: its intent may only vanish,  *)
(* nobody comes to an operation on it, no execution of it begins, and what *)
(* was attended to still is.                                               *)
LEMMA Frame ==
  ASSUME NEW i \in Items, ItemInv(i),
         file'[i] = file[i], journal'[i] \in {journal[i], NoIntent},
         \A r \in Recoverers :
           (pc'[r] = pc[r] /\ op'[r] = op[r]) \/ ~Reading(r, i)',
         \A p \in Controllers :
           (pc'[p] = pc[p] /\ op'[p] = op[p]) \/ ~On(p, LockedSteps \ {"unlease"}, i)',
         \A p \in Controllers : Executing(p, i)' => Executing(p, i),
         Attended(i) =>
           \/ Attended(i)' \/ journal'[i] = NoIntent
           \/ \A r \in Recoverers : Reading(r, i) => Known(r, i)
  PROVE  ItemInv(i)'
<1>1. ASSUME NEW r \in Recoverers, Reading(r, i)'
      PROVE  /\ Reading(r, i)
             /\ Known(r, i) => Known(r, i)'
             /\ (Known(r, i) \/ Attended(i))'
  <2>1. Reading(r, i) /\ op'[r] = op[r]
    BY <1>1, EntriesKept
  <2>2. Known(r, i) => Known(r, i)'
    BY <2>1 DEF Known, Own
  <2> QED
    BY <2>1, <2>2 DEF ItemInv, Known
<1>2. ASSUME NEW p \in Controllers, On(p, LockedSteps, i)'
      PROVE  Working(p, i)'
  <2>1. CASE pc'[p] = "unlease"
    BY <2>1 DEF Working, Claiming
  <2>2. CASE pc'[p] = pc[p] /\ op'[p] = op[p]
    <3>1. Working(p, i)
      BY <1>2, <2>2 DEF ItemInv, On
    <3>2. op[p].kind = "claim" => Claiming(p, i)'
      BY <2>2, <3>1, ClaimKept DEF Working
    <3>3. pc[p] \in {"lease", "read", "journal", "rewrite"} => Located(i)'
      BY <3>1, EntriesKept DEF Working
    <3>4. pc[p] = "rename" /\ file[i][op[p].dir] = NoRecord =>
            \A r \in Recoverers : Reading(r, i)' => Known(r, i)'
      BY <1>1, <3>1 DEF Working
    <3>5. pc[p] \in {"rewrite", "rename", "unjournal"} /\ ~InPlace(op[p]) =>
            journal'[i] \in {NoIntent, Own(p)}
      BY <3>1 DEF Working
    <3>6. pc[p] = "rewrite" /\ Executing(p, i)' => op[p].next.status = "RUNNING"
      BY <3>1 DEF Working
    <3> QED
      BY <2>2, <3>2, <3>3, <3>4, <3>5, <3>6 DEF Working, Own, InPlace
  <2> QED
    BY <1>2, <2>1, <2>2 DEF On
<1>3. ASSUME NEW p \in Controllers, Executing(p, i)'
      PROVE  Sheltered(i)'
  BY <1>3, EntriesKept DEF ItemInv
<1> QED
  BY <1>1, <1>2, <1>3 DEF ItemInv

(* A process gives up, or dies. *)
LEMMA AbortItem ==
  ASSUME BesideInv, NEW p \in Procs, Abort(p), UNCHANGED <<file, journal>>, NEW i \in Items,
         \A q \in Controllers \ {p} : Live(q, i)' => Live(q, i)
  PROVE  ItemInv(i)'
<1>0. TypeOK /\ Intended /\ ItemInv(i)
  BY DEF BesideInv, TypeInv
<1>1. /\ pc'[p] = "off" /\ held'[p] = {}
      /\ \A q \in Procs \ {p} :
           pc'[q] = pc[q] /\ op'[q] = op[q] /\ held'[q] = held[q] /\ todo'[q] = todo[q]
      /\ cycle' = IF cycle = p THEN Nobody ELSE cycle
  BY <1>0 DEF Abort, Goto, TypeOK
<1>2. Attended(i) => Attended(i)'
  <2>1. CASE cycle = p \/ cycle = Nobody
    BY <1>1, <2>1 DEF Attended
  <2>2. CASE cycle # p /\ cycle # Nobody
    <3>1. p \in Controllers => pc[p] = "off"
      BY <1>0, <2>2 DEF Intended, Apart
    <3> QED
      BY <1>1, <2>2, <3>1 DEF Attended, On, Procs, InPlace
  <2> QED
    BY <2>1, <2>2
<1>3. \A q \in Controllers : Executing(q, i)' => Executing(q, i)
  BY <1>1 DEF Executing, Moving, On, Procs, InPlace
<1> QED
  BY <1>0, <1>1, <1>2, <1>3, Frame DEF On, Reading, Procs, LockedSteps

(* A step of a recovery pass of p that leaves item i alone: the entries,   *)
(* the claims and the flocks, and what it has in hand of i.                *)
LEMMA PassItem ==
  ASSUME BesideInv, NEW p \in Procs, NEW i \in Items,
         pc'[p] \notin LockedSteps \/ op'[p].item # i,
         \A q \in Procs \ {p} : pc'[q] = pc[q] /\ op'[q] = op[q] /\ todo'[q] = todo[q],
         UNCHANGED <<lease, cycle, held>>, file'[i] = file[i],
         journal'[i] \in {journal[i], NoIntent},
         pc[p] \notin LockedSteps,
         p \in Recoverers => ~Reading(p, i)' \/ (pc'[p] = pc[p] /\ op'[p] = op[p]),
         p \in Controllers => (Attended(i) => Attended(i)' \/ journal'[i] = NoIntent)
  PROVE  ItemInv(i)'
<1>0. ItemInv(i)
  BY DEF BesideInv
<1>1. \A q \in Controllers : Executing(q, i)' => Executing(q, i)
  BY DEF Executing, Moving, On, Live, Procs, InPlace
<1>2. Attended(i) => Attended(i)' \/ journal'[i] = NoIntent
  BY QueueConstants DEF Attended, On, Procs, InPlace
<1> QED
  BY <1>0, <1>1, <1>2, Frame, QueueConstants DEF On, Procs

(* A recovery that takes an intent in hand: it is the one on disk, so it   *)
(* is known.  Beside a claim it is that claim's own, or its source has not *)
(* been rewritten.                                                         *)
LEMMA TakenUp ==
  ASSUME BesideInv, NEW p \in Recoverers, Lonely(p), NEW i \in Items,
         ReadIntent(p, i), journal[i] # NoIntent
  PROVE  ItemInv(i)'
<1>0. TypeOK /\ Intended /\ ItemInv(i)
  BY DEF BesideInv, TypeInv
<1>1. /\ pc' = [pc EXCEPT ![p] = "inspect"]
      /\ op' = [op EXCEPT ![p] =
           [kind |-> "reconcile", item |-> i, target |-> journal[i].target,
            from |-> journal[i].source, dir |-> journal[i].source,
            next |-> NoRecord, ret |-> "reconcile"]]
      /\ UNCHANGED <<disk, lock, cycle, held>>
  BY DEF ReadIntent, Goto, Begin, Opened
<1>2. /\ pc'[p] = "inspect" /\ op'[p].item = i /\ Own(p)' = journal[i]
      /\ op'[p].from = journal[i].source /\ op'[p].target = journal[i].target
      /\ journal[i].source \in WorkStatus
      /\ \A q \in Controllers : pc'[q] = pc[q] /\ op'[q] = op[q]
      /\ \A r \in Recoverers \ {p} : pc'[r] = "off"
  BY <1>0, <1>1, QueueConstants DEF TypeOK, Procs, Own, Lonely, Intent
<1>3. \A r \in Recoverers : Reading(r, i)' => Known(r, i)'
  BY <1>1, <1>2 DEF Known, Reading, On, disk
<1>4. journal[i].target = "RUNNING" => Harmless(i)'
  BY <1>2 DEF Harmless, On
<1>5. ASSUME NEW q \in Controllers, On(q, LockedSteps, i), op[q].kind = "claim"
      PROVE  Claiming(q, i)'
  <2>1. /\ Claiming(q, i)
        /\ ~InPlace(op[q]) /\ op[q].target = "RUNNING"
        /\ pc[q] \in {"rewrite", "rename", "unjournal"} => journal[i] = Own(q)
    BY <1>0, <1>5 DEF ItemInv, Working, On, InPlace, Intended, WellBegun, Procs
  <2>2. \A status \in WorkStatus : Only(i, status) => Only(i, status)'
    BY <1>1 DEF Only, disk
  <2>3. ASSUME pc[q] \in {"journal", "rewrite"}
        PROVE  /\ Only(i, "QUEUED")'
               /\ file'[i][op'[q].dir] = NoRecord => Unmoved(q, i)'
    <3>1. Only(i, "QUEUED") /\ Only(i, "QUEUED")'
      BY <2>1, <2>2, <2>3 DEF Claiming, WorkStatus
    <3>2. ASSUME file'[i][op'[q].dir] = NoRecord
          PROVE  Stale(i, journal[i])
      <4>1. CASE pc[q] = "journal"
        BY <1>1, <1>2, <2>1, <3>2, <4>1 DEF Claiming, Unmoved, disk
      <4>2. CASE pc[q] = "rewrite"
        <5>1. journal[i].target = "RUNNING"
          BY <2>1, <4>2 DEF Own
        <5>2. file[i][journal[i].source].status # "RUNNING"
          BY <1>2, <3>1 DEF Only, NoRecord
        <5> QED
          BY <5>1, <5>2 DEF Stale
      <4> QED
        BY <2>3, <4>1, <4>2
    <3> QED
      BY <1>1, <1>2, <3>1, <3>2 DEF Unmoved, On, Stale, disk
  <2>4. ASSUME pc[q] = "rename"
        PROVE  (Only(i, "RUNNING") \/ Split(q, i))'
    <3>1. Harmless(i)'
      BY <1>4, <2>1, <2>4 DEF Own
    <3>2. Split(q, i) => Split(q, i)'
      BY <1>1, <1>2, <3>1 DEF Split, On, disk
    <3> QED
      BY <2>1, <2>2, <2>4, <3>2 DEF Claiming, WorkStatus
  <2>5. ASSUME pc[q] = "unjournal"
        PROVE  Settled(i)'
    <3>1. Harmless(i)'
      BY <1>4, <2>1, <2>5 DEF Own
    <3> QED
      BY <1>1, <1>2, <2>1, <2>2, <2>5, <3>1 DEF Claiming, Settled, On, WorkStatus, disk
  <2> QED
    BY <1>2, <2>3, <2>4, <2>5 DEF Claiming
<1>6. ASSUME NEW q \in Controllers, On(q, LockedSteps, i)'
      PROVE  Working(q, i)'
  <2>1. On(q, LockedSteps, i) /\ Working(q, i)
    BY <1>0, <1>2, <1>6 DEF On, ItemInv
  <2>2. op[q].kind = "claim" => Claiming(q, i)'
    BY <1>5, <2>1
  <2>3. pc[q] = "rewrite" /\ Executing(q, i)' => op[q].next.status = "RUNNING"
    BY <1>1, <1>2, <2>1 DEF Working, Executing, Live, Moving, On, InPlace, disk
  <2> QED
    BY <1>1, <1>2, <1>3, <2>1, <2>2, <2>3 DEF Working, Located, Paths, Own, InPlace, disk
<1>7. ASSUME NEW q \in Controllers, Executing(q, i)'
      PROVE  Sheltered(i)'
  <2>1. Executing(q, i)
    BY <1>1, <1>2, <1>7 DEF Executing, Live, Moving, On, InPlace, disk
  <2>2. Only(i, "RUNNING")
    BY <1>0, <2>1 DEF ItemInv, Sheltered
  <2> QED
    BY <1>1, <2>2 DEF Sheltered, Only, disk
<1> QED
  BY <1>3, <1>6, <1>7 DEF ItemInv

(* A recovery that decides on a move: beside a claim whose entry is        *)
(* rewritten, it is the move the claim itself is about to make.            *)
LEMMA ToMove ==
  ASSUME BesideInv, NEW p \in Recoverers, Lonely(p), NEW i \in Items,
         pc[p] = "inspect", op[p].item = i,
         Rewritten(i, op[p].from, op[p].target), Goto(p, "move"),
         UNCHANGED <<disk, lock, cycle, op, todo, held>>
  PROVE  ItemInv(i)'
<1>0. TypeOK /\ Intended /\ ItemInv(i)
  BY DEF BesideInv, TypeInv
<1>1. /\ pc'[p] = "move"
      /\ \A q \in Controllers : pc'[q] = pc[q]
      /\ \A r \in Recoverers \ {p} : pc[r] = "off" /\ pc'[r] = "off"
      /\ Own(p)' = Own(p) /\ op[p].from \in WorkStatus /\ op[p].target \in WorkStatus
      /\ op[p].target = "RUNNING" => op[p].from # "RUNNING"
  <2>1. /\ op[p].from \in WorkStatus /\ op[p].target \in WorkStatus
        /\ LegalTransition(op[p].from, op[p].target)
    BY <1>0 DEF BesideInv, TypeInv, OpTyped, OpFits, Procs, Intended, WellBegun, Legal, Own
  <2>2. op[p].target # op[p].from
    BY <2>1, LegalStatus
  <2> QED
    BY <1>0, <2>1, <2>2, QueueConstants DEF Goto, TypeOK, Procs, Lonely, Own
<1>2. ~Stale(i, Own(p)) /\ file[i][op[p].target] = NoRecord
      /\ file[i][op[p].from].status = op[p].target
  BY DEF Rewritten, Stale, Own
<1>3. Harmless(i) => Harmless(i)' /\ op[p].target = "RUNNING"
  BY <1>1, <1>2 DEF Harmless, On
<1>4. Known(p, i) \/ Attended(i) => Known(p, i)' \/ Attended(i)'
  BY <1>1 DEF Known, Attended, On, disk, InPlace
<1>5. Settled(i) => Only(i, "RUNNING")
  BY <1>2, <1>3 DEF Settled, NoRecord
<1>6. \A status \in WorkStatus : Only(i, status) => Only(i, status)'
  BY DEF Only, disk
<1>7. ASSUME NEW q \in Controllers, Claiming(q, i)
      PROVE  Claiming(q, i)'
  <2>1. ASSUME pc[q] \in {"journal", "rewrite"}, file[i][op[q].dir] = NoRecord
        PROVE  FALSE
    BY <1>2, <1>7, <2>1 DEF Claiming, Unmoved, On
  <2>2. Split(q, i) => Split(q, i)'
    <3>1. ASSUME Split(q, i)
          PROVE  op[p].from = op[q].dir /\ op[p].target = "RUNNING"
      BY <1>1, <1>2, <1>3, <3>1 DEF Split
    <3> QED
      BY <1>1, <1>2, <1>3, <3>1 DEF Split, On, disk
  <2>3. Settled(i) => Settled(i)'
    BY <1>5, <1>6 DEF Settled, WorkStatus
  <2> QED
    BY <1>1, <1>6, <1>7, <2>1, <2>2, <2>3 DEF Claiming, WorkStatus, disk
<1>8. \A r \in Recoverers : Reading(r, i)' => r = p
  BY <1>1 DEF Reading, On
<1>9. ASSUME NEW q \in Controllers, On(q, LockedSteps, i)'
      PROVE  Working(q, i)'
  <2>1. On(q, LockedSteps, i) /\ Working(q, i)
    BY <1>0, <1>1, <1>9 DEF On, ItemInv
  <2>2. op[q].kind = "claim" => Claiming(q, i)'
    BY <1>7, <2>1 DEF Working
  <2>3. pc[q] = "rewrite" /\ Executing(q, i)' => op[q].next.status = "RUNNING"
    BY <1>1, <2>1 DEF Working, Executing, Live, Moving, On, InPlace, disk
  <2>4. pc[q] = "rename" /\ file[i][op[q].dir] = NoRecord => Known(p, i)'
    BY <1>1, <2>1 DEF Working, Reading, On, Known, disk
  <2>5. pc[q] = "rename" /\ file[i][op[q].dir] = NoRecord =>
          \A r \in Recoverers : Reading(r, i)' => Known(r, i)'
    BY <1>8, <2>4
  <2> QED
    BY <1>1, <2>1, <2>2, <2>3, <2>5 DEF Working, Located, Paths, Own, InPlace, disk
<1>10. ASSUME NEW q \in Controllers, Executing(q, i)'
      PROVE  Sheltered(i)'
  <2>1. Executing(q, i)
    BY <1>1, <1>10 DEF Executing, Live, Moving, On, InPlace, disk
  <2>2. Only(i, "RUNNING")
    BY <1>0, <1>5, <2>1 DEF ItemInv, Sheltered
  <2> QED
    BY <1>6, <2>2 DEF Sheltered, WorkStatus
<1>11. Known(p, i)' \/ Attended(i)'
  BY <1>0, <1>4 DEF ItemInv, Reading, On
<1> QED
  BY <1>9, <1>10, <1>11, <1>8 DEF ItemInv

(* os.replace moves the records that are there, so an item whose entries   *)
(* all have one status keeps it, and one entry stays one.                  *)
LEMMA ReplaceOnly ==
  ASSUME TypeOK, NEW i \in Items, NEW s \in WorkStatus, NEW t \in WorkStatus,
         file[i][s] # NoRecord, Replace(i, s, t)
  PROVE  /\ file'[i] = [u \in WorkStatus |->
              IF u = t THEN file[i][s] ELSE IF u = s THEN NoRecord ELSE file[i][u]]
         /\ \A j \in Items \ {i} : file'[j] = file[j]
         /\ \A status \in WorkStatus : Only(i, status) => Only(i, status)'
         /\ Located(i) => Located(i)'
<1>1. /\ file'[i] = [u \in WorkStatus |->
           IF u = t THEN file[i][s] ELSE IF u = s THEN NoRecord ELSE file[i][u]]
      /\ \A j \in Items \ {i} : file'[j] = file[j]
  BY DEF Replace, TypeOK
<1>2. \A status \in WorkStatus : Only(i, status) => Only(i, status)'
  BY <1>1 DEF Only
<1>3. ASSUME Located(i)
      PROVE  Located(i)'
  <2>1. PICK u \in WorkStatus : Paths(i) = {u}
    BY <1>3 DEF Located
  <2>2. u = s
    BY <2>1 DEF Paths
  <2>3. Paths(i)' = {t}
    BY <1>1, <2>1, <2>2 DEF Paths
  <2> QED
    BY <2>3 DEF Located
<1> QED
  BY <1>1, <1>2, <1>3

(* A recovery that moves an entry: the move it decided on some steps ago.  *)
LEMMA MovedBy ==
  ASSUME BesideInv, NEW p \in Recoverers, Lonely(p), NEW i \in Items,
         pc[p] = "move", op[p].item = i, file[i][op[p].from] # NoRecord,
         Replace(i, op[p].from, op[p].target), Goto(p, "retire"),
         UNCHANGED <<journal, lease, lock, cycle, op, todo, held>>
  PROVE  ItemInv(i)'
<1>0. TypeOK /\ Intended /\ ItemInv(i)
  BY DEF BesideInv, TypeInv
<1>1. /\ pc'[p] = "retire"
      /\ \A q \in Controllers : pc'[q] = pc[q]
      /\ \A r \in Recoverers \ {p} : pc[r] = "off" /\ pc'[r] = "off"
  BY <1>0, QueueConstants DEF Goto, TypeOK, Procs, Lonely
<1>2. /\ op[p].from \in WorkStatus /\ op[p].target \in WorkStatus
      /\ op[p].target # op[p].from
  <2>1. /\ op[p].from \in WorkStatus /\ op[p].target \in WorkStatus
        /\ LegalTransition(op[p].from, op[p].target)
    BY <1>0 DEF BesideInv, TypeInv, OpTyped, OpFits, Procs, Intended, WellBegun, Legal, Own
  <2> QED
    BY <2>1, LegalStatus
<1>3. /\ file'[i] = [u \in WorkStatus |->
           IF u = op[p].target THEN file[i][op[p].from]
           ELSE IF u = op[p].from THEN NoRecord ELSE file[i][u]]
      /\ \A status \in WorkStatus : Only(i, status) => Only(i, status)'
      /\ Located(i) => Located(i)'
  BY <1>0, <1>2, ReplaceOnly
<1>4. \A r \in Recoverers : ~Reading(r, i)'
  BY <1>1 DEF Reading, On
<1>5. Harmless(i)'
  BY <1>1 DEF Harmless, On
<1>6. Settled(i) => Only(i, "RUNNING")
  BY DEF Settled, On
<1>7. ASSUME NEW q \in Controllers, On(q, LockedSteps, i), Claiming(q, i)
      PROVE  Claiming(q, i)'
  <2>1. ASSUME pc[q] = "journal", journal[i] # NoIntent
        PROVE  Stale(i, journal[i])'
    <3>1. ~Attended(i)
      BY <1>0, <2>1, Unattended DEF BesideInv, On
    <3>2. journal[i] = Own(p)
      BY <1>0, <2>1, <3>1 DEF ItemInv, Reading, On, Known
    <3> QED
      BY <1>2, <1>3, <3>2 DEF Own, Stale, NoRecord, WorkStatus
  <2>2. Unmoved(q, i)'
    BY <1>1, <2>1 DEF Unmoved, On
  <2>3. ASSUME pc[q] = "rename", Split(q, i)
        PROVE  Split(q, i)'
    <3>1. op[p].from = op[q].dir /\ op[p].target = "RUNNING"
      BY <2>3 DEF Split, On
    <3>2. file[i][op[q].dir].status = "RUNNING"
      BY <2>3, <3>1 DEF Split
    <3>3. /\ file'[i]["RUNNING"].status = "RUNNING"
          /\ file'[i][op[q].dir] = NoRecord
          /\ \A s \in WorkStatus : file'[i][s].status = "RUNNING" =>
               s = op[q].dir \/ s = "RUNNING"
      BY <1>2, <1>3, <2>3, <3>1, <3>2 DEF Split
    <3> QED
      BY <1>1, <1>5, <3>3 DEF Split, On
  <2>4. Settled(i) => Settled(i)'
    BY <1>3, <1>6 DEF Settled, WorkStatus
  <2> QED
    BY <1>1, <1>3, <1>7, <2>2, <2>3, <2>4 DEF Claiming, WorkStatus
<1>8. ASSUME NEW q \in Controllers, On(q, LockedSteps, i)'
      PROVE  Working(q, i)'
  <2>1. On(q, LockedSteps, i) /\ Working(q, i)
    BY <1>0, <1>1, <1>8 DEF On, ItemInv
  <2>2. op[q].kind = "claim" => Claiming(q, i)'
    BY <1>7, <2>1 DEF Working
  <2>3. pc[q] = "rewrite" /\ Executing(q, i)' => op[q].next.status = "RUNNING"
    BY <1>1, <2>1 DEF Working, Executing, Live, Moving, On, InPlace
  <2> QED
    BY <1>1, <1>3, <1>4, <2>1, <2>2, <2>3 DEF Working, Own, InPlace
<1>9. ASSUME NEW q \in Controllers, Executing(q, i)'
      PROVE  Sheltered(i)'
  <2>1. Executing(q, i)
    BY <1>1, <1>9 DEF Executing, Live, Moving, On, InPlace
  <2>2. Only(i, "RUNNING")
    BY <1>0, <1>6, <2>1 DEF ItemInv, Sheltered
  <2> QED
    BY <1>3, <2>2 DEF Sheltered, WorkStatus
<1> QED
  BY <1>4, <1>8, <1>9 DEF ItemInv

(* Every step of a recovery pass, the cycle's and a recovery's own. *)
LEMMA RecoveryItem ==
  ASSUME NoOverlap, BesideInv, NEW p \in Procs, Recovery(p), NEW i \in Items
  PROVE  ItemInv(i)'
<1>0. /\ TypeOK /\ TypeInv /\ Intended /\ ItemInv(i)
      /\ p \in Controllers => p \notin Recoverers
      /\ p \in Recoverers => p \notin Controllers
  BY QueueConstants DEF BesideInv, TypeInv
<1>1. ASSUME Abort(p), UNCHANGED disk
      PROVE  ItemInv(i)'
  BY <1>1, AbortItem DEF disk, Live
<1>2. ASSUME NEW j \in Items, ReadIntent(p, j)
      PROVE  ItemInv(i)'
  <2>1. CASE journal[j] # NoIntent
    <3>1. /\ pc[p] = "reconcile" /\ j \in todo[p]
          /\ pc'[p] = "inspect" /\ op'[p].item = j /\ todo'[p] = todo[p] \ {j}
          /\ \A q \in Procs \ {p} : pc'[q] = pc[q] /\ op'[q] = op[q] /\ todo'[q] = todo[q]
          /\ UNCHANGED <<disk, lock, cycle, held>>
      BY <1>0, <1>2, <2>1 DEF ReadIntent, Goto, Begin, Opened, TypeOK
    <3>2. CASE p \in Recoverers /\ i = j
      BY <1>2, <2>1, <3>1, <3>2, ApartIsLonely, TakenUp
    <3>3. CASE p \in Controllers \/ i # j
      <4>1. p \in Controllers => (Attended(i) => Attended(i)')
        BY <1>0, <3>1, QueueConstants DEF Attended, On, Procs, InPlace
      <4>2. p \in Recoverers => ~Reading(p, i)'
        BY <1>0, <3>1, <3>3 DEF Reading, On
      <4> QED
        BY <3>1, <4>1, <4>2, PassItem DEF LockedSteps, disk
    <3> QED
      BY <3>2, <3>3 DEF Procs
  <2>2. CASE journal[j] = NoIntent
    BY <1>1, <1>2, <2>2 DEF ReadIntent
  <2> QED
    BY <2>1, <2>2
<1>3. ASSUME NEW step \in {"retire", "move"},
             pc[p] \in {"inspect", "move"}, Goto(p, step), i # op[p].item \/ step = "retire" \/ p \in Controllers,
             UNCHANGED <<journal, lease, lock, cycle, op, todo, held>>, file'[i] = file[i]
      PROVE  ItemInv(i)'
  <2>1. pc'[p] = step /\ \A q \in Procs \ {p} : pc'[q] = pc[q]
    BY <1>0, <1>3 DEF Goto, TypeOK
  <2>2. p \in Controllers => (Attended(i) => Attended(i)')
    BY <1>0, <1>3, <2>1 DEF Attended, On, Procs, InPlace
  <2>3. p \in Recoverers => ~Reading(p, i)'
    BY <1>0, <1>3, <2>1 DEF Reading, On
  <2> QED
    BY <1>3, <2>1, <2>2, <2>3, PassItem DEF LockedSteps
<1>4. CASE Inspect(p)
  <2>1. CASE Rewritten(op[p].item, op[p].from, op[p].target) /\ Goto(p, "move")
             /\ UNCHANGED <<disk, lock, cycle, op, todo, held>>
    <3>1. CASE p \in Recoverers /\ i = op[p].item
      BY <1>4, <2>1, <3>1, ApartIsLonely, ToMove DEF Inspect
    <3>2. CASE p \in Controllers \/ i # op[p].item
      BY <1>3, <1>4, <2>1, <3>2 DEF Inspect, disk
    <3> QED
      BY <3>1, <3>2 DEF Procs
  <2>2. CASE Goto(p, "retire") /\ UNCHANGED <<disk, lock, cycle, op, todo, held>>
    BY <1>3, <1>4, <2>2 DEF Inspect, disk
  <2> QED
    BY <1>1, <1>4, <2>1, <2>2 DEF Inspect
<1>5. CASE MoveEntry(p)
  <2>0. /\ pc[p] = "move" /\ op[p].item \in Items
        /\ op[p].from \in WorkStatus /\ op[p].target \in WorkStatus
    BY <1>0, <1>5 DEF MoveEntry, TypeInv, OpTyped, OpFits
  <2>1. CASE /\ file[op[p].item][op[p].from] # NoRecord
             /\ Replace(op[p].item, op[p].from, op[p].target)
             /\ Goto(p, "retire")
             /\ UNCHANGED <<journal, lease, lock, cycle, op, todo, held>>
    <3>1. CASE i # op[p].item
      <4>1. file'[i] = file[i]
        BY <1>0, <2>0, <2>1, <3>1, ReplaceOnly
      <4> QED
        BY <1>3, <2>0, <2>1, <4>1
    <3>2. CASE p \in Recoverers /\ i = op[p].item
      BY <2>0, <2>1, <3>2, ApartIsLonely, MovedBy
    <3>3. CASE p \in Controllers /\ i = op[p].item
      <4>1. pc'[p] = "retire" /\ \A q \in Procs \ {p} : pc'[q] = pc[q]
        BY <1>0, <2>1 DEF Goto, TypeOK
      <4>2. Attended(i)'
        BY <2>1, <3>3, <4>1 DEF Attended, On
      <4>3. ~On(p, LockedSteps, i)' /\ ~Executing(p, i)'
        BY <1>0, <2>0, <2>1, <3>3, <4>1 DEF On, LockedSteps, Executing, Intended, Apart
      <4> QED
        BY <2>0, <2>1, <3>3, <4>1, <4>2, <4>3, Awake
    <3> QED
      BY <3>1, <3>2, <3>3 DEF Procs
  <2> QED
    BY <1>1, <1>5, <2>1 DEF MoveEntry
<1>6. CASE RetireIntent(p)
  <2>1. CASE /\ journal' = [journal EXCEPT ![op[p].item] = NoIntent]
             /\ op' = [op EXCEPT ![p] = NoOp]
             /\ Goto(p, "reconcile")
             /\ UNCHANGED <<file, lease, lock, cycle, todo, held>>
    <3>1. /\ pc[p] = "retire" /\ pc'[p] = "reconcile"
          /\ journal'[i] \in {journal[i], NoIntent}
          /\ i = op[p].item => journal'[i] = NoIntent
          /\ \A q \in Procs \ {p} : pc'[q] = pc[q] /\ op'[q] = op[q]
      BY <1>0, <1>6, <2>1 DEF RetireIntent, Goto, TypeOK
    <3>2. p \in Controllers => (Attended(i) => Attended(i)' \/ journal'[i] = NoIntent)
      BY <1>0, <2>1, <3>1 DEF Attended, On, Procs, InPlace
    <3> QED
      BY <2>1, <3>1, <3>2, PassItem DEF LockedSteps, Reading, On
  <2> QED
    BY <1>1, <1>6, <2>1 DEF RetireIntent
<1>7. CASE ListRunning(p) \/ EndRecovery(p)
  <2>1. /\ pc[p] \in {"reconcile", "recover"} /\ todo[p] = {}
        /\ pc'[p] \in {"recover", "serving", "off"}
        /\ \A q \in Procs \ {p} : pc'[q] = pc[q] /\ todo'[q] = todo[q]
        /\ UNCHANGED <<disk, lock, cycle, op, held>>
    BY <1>0, <1>7 DEF ListRunning, EndRecovery, Goto, TypeOK
  <2>2. p \in Controllers => ~Attended(i)
    BY <1>0, <2>1, Unattended DEF On
  <2> QED
    BY <2>1, <2>2, PassItem DEF LockedSteps, Reading, On, disk
<1>8. ASSUME NEW j \in Items, RecoverClaim(p, j)
      PROVE  ItemInv(i)'
  <2>0. pc[p] = "recover" /\ (p \in Controllers => ~Attended(i))
    BY <1>0, <1>8, Unattended DEF RecoverClaim, On
  <2>1. CASE /\ Loaded(j).status = "RUNNING"
             /\ lock' = [lock EXCEPT ![j] = p]
             /\ op' = [op EXCEPT ![p] =
                    Begin("transition", j, "BLOCKED_TECHNICAL", "recover")]
             /\ todo' = [todo EXCEPT ![p] = @ \ {j}]
             /\ Goto(p, "read")
             /\ UNCHANGED <<disk, cycle, held>>
    <3>1. /\ pc'[p] = "read" /\ op'[p].item = j /\ op'[p].kind = "transition"
          /\ \A q \in Procs \ {p} : pc'[q] = pc[q] /\ op'[q] = op[q] /\ todo'[q] = todo[q]
      BY <1>0, <2>1 DEF Goto, TypeOK, Begin
    <3>2. Located(j)
      BY <2>1 DEF Loaded, NoRecord
    <3>3. CASE p \in Controllers /\ i = j
      <4>1. Working(p, i)'
        BY <2>1, <3>1, <3>2, <3>3 DEF Working, Located, Paths, disk
      <4>2. ~Executing(p, i)'
        BY <1>0, <2>0, <2>1, <3>3 DEF Executing, Intended, Apart, LockedSteps
      <4>3. \A r \in Recoverers : Reading(r, i) => Known(r, i)'
        BY <1>0, <2>0, <2>1, <3>1, <3>3 DEF ItemInv, Known, Own, Procs, disk
      <4> QED
        BY <2>0, <2>1, <3>1, <3>3, <4>1, <4>2, <4>3, Awake
    <3>4. CASE p \in Controllers /\ i # j
      BY <2>0, <2>1, <3>1, <3>4, <1>0, PassItem DEF LockedSteps, disk
    <3>5. CASE p \in Recoverers
      <4>1. ~Reading(p, i)'
        BY <3>1 DEF Reading, On
      <4>2. \A q \in Controllers : pc'[q] = pc[q] /\ op'[q] = op[q] /\ todo'[q] = todo[q]
        BY <1>0, <3>1, <3>5 DEF Procs
      <4>3. Attended(i) => Attended(i)'
        BY <2>1, <4>2 DEF Attended, On, InPlace
      <4>4. \A q \in Controllers : Executing(q, i)' => Executing(q, i)
        BY <2>1, <4>2 DEF Executing, Moving, On, Live, InPlace, disk
      <4> QED
        BY <1>0, <2>1, <3>1, <4>1, <4>2, <4>3, <4>4, Frame DEF disk, Procs
    <3> QED
      BY <3>3, <3>4, <3>5 DEF Procs
  <2>2. CASE /\ todo' = [todo EXCEPT ![p] = @ \ {j}]
             /\ UNCHANGED <<disk, lock, cycle, pc, op, held>>
    <3>1. \A q \in Procs \ {p} : todo'[q] = todo[q]
      BY <1>0, <2>2 DEF TypeOK
    <3> QED
      BY <2>0, <2>2, <3>1, PassItem DEF LockedSteps, Reading, On, disk
  <2> QED
    BY <1>1, <1>8, <2>1, <2>2 DEF RecoverClaim
<1> QED
  BY <1>2, <1>4, <1>5, <1>6, <1>7, <1>8 DEF Recovery

(* An operation leaves the other items alone. *)
LEMMA Elsewhere ==
  ASSUME BesideInv, NEW p \in Procs, pc[p] \in LockedSteps, NEW i \in Items, i # op[p].item,
         pc'[p] \notin LockedSteps \/ op'[p].item = op[p].item,
         pc'[p] \notin {"inspect", "move"},
         \A q \in Procs \ {p} : pc'[q] = pc[q] /\ op'[q] = op[q] /\ held'[q] = held[q],
         i \in held'[p] => i \in held[p],
         UNCHANGED <<cycle, todo>>,
         file'[i] = file[i], journal'[i] = journal[i], lease'[i] = lease[i]
  PROVE  ItemInv(i)'
<1>0. ItemInv(i)
  BY DEF BesideInv
<1>1. \A q \in Controllers : Executing(q, i)' => Executing(q, i)
  BY DEF Executing, Moving, On, Live, Procs, InPlace
<1>2. Attended(i) => Attended(i)'
  BY DEF Attended, On, Procs, InPlace, LockedSteps
<1> QED
  BY <1>0, <1>1, <1>2, Frame DEF On, Reading, Procs

(* A recovery that holds an item's flock does so for a claim no live       *)
(* controller has: nobody executes it.                                     *)
LEMMA Guarded ==
  ASSUME BesideInv, NEW p \in Recoverers, Lonely(p), pc[p] \in LockedSteps,
         NEW i \in Items, op[p].item = i, pc'[p] \notin {"inspect", "move"},
         \A q \in Procs \ {p} : pc'[q] = pc[q] /\ op'[q] = op[q] /\ held'[q] = held[q],
         lease'[i] \in {lease[i], NoLease}
  PROVE  ItemInv(i)'
<1>0. Intended /\ p \in Procs /\ p \notin Controllers /\ {Nobody, Dead} \cap Procs = {}
  BY QueueConstants DEF BesideInv, Procs
<1>1. lock[i] = p /\ Abandoned(i)
  BY <1>0 DEF Intended, WellBegun, Apart
<1>2. \A q \in Controllers : ~On(q, LockedSteps, i)'
  BY <1>0, <1>1 DEF Intended, WellBegun, On, Procs
<1>3. \A q \in Controllers : ~Live(q, i)'
  BY <1>0, <1>1 DEF Abandoned, Live, NoLease, Procs
<1>4. \A r \in Recoverers : ~Reading(r, i)'
  BY DEF Lonely, Reading, On, Procs
<1> QED
  BY <1>2, <1>3, <1>4 DEF ItemInv, Executing

(* What every step under a flock does: it gives up, it ends, or it comes   *)
(* to the next step of the same operation; the other items are left alone. *)
LEMMA LockedStep ==
  ASSUME TypeInv, NEW p \in Procs, Locked(p)
  PROVE  /\ pc[p] \in LockedSteps /\ op[p].item \in Items
         /\ \A i \in Items : i # op[p].item =>
              file'[i] = file[i] /\ journal'[i] = journal[i] /\ lease'[i] = lease[i]
         /\ pc[p] # "lease" => lease'[op[p].item] \in {lease[op[p].item], NoLease}
         /\ \/ Abort(p) /\ UNCHANGED <<file, journal>>
            \/ /\ \A q \in Procs \ {p} :
                    pc'[q] = pc[q] /\ op'[q] = op[q] /\ held'[q] = held[q]
               /\ \A i \in Items : i # op[p].item => (i \in held'[p] => i \in held[p])
               /\ UNCHANGED <<cycle, todo>>
               /\ \/ pc'[p] \in LockedSteps \ {"lease"} /\ op'[p].item = op[p].item
                  \/ pc'[p] = op[p].ret
<1>0. TypeOK /\ OpFits(op[p], pc[p])
  BY DEF TypeInv, OpTyped
<1>1. pc[p] \in LockedSteps
  BY DEF Locked, WriteLease, ReadEntry, WriteIntent, RewriteEntry, RenameEntry,
         RemoveIntent, RemoveLease, LockedSteps
<1>2. op[p].item \in Items
  BY <1>0, <1>1 DEF OpFits
<1>3. CASE Raise(p)
  <2>1. lease' = lease \/ lease' = [lease EXCEPT ![op[p].item] = NoLease]
    BY <1>3 DEF Raise
  <2>2. UNCHANGED <<file, journal>>
    BY <1>3 DEF Raise
  <2>3. CASE Abort(p)
    BY <1>0, <1>1, <1>2, <2>1, <2>2, <2>3 DEF TypeOK
  <2>4. CASE /\ Finish(p)
             /\ held' = [held EXCEPT ![p] = @ \ {op[p].item}]
             /\ UNCHANGED <<cycle, todo>>
    BY <1>0, <1>1, <1>2, <2>1, <2>2, <2>4 DEF TypeOK, Finish, Goto
  <2> QED
    BY <1>3, <2>3, <2>4 DEF Raise
<1>4. CASE ReadEntry(p) /\ ~Raise(p)
  <2>1. /\ op'[p].item = op[p].item /\ pc'[p] \in {"rewrite", "journal"}
        /\ \A q \in Procs \ {p} : pc'[q] = pc[q] /\ op'[q] = op[q]
        /\ UNCHANGED <<disk, cycle, todo, held>>
    BY <1>0, <1>4 DEF ReadEntry, Goto, Opened, TypeOK
  <2> QED
    BY <1>1, <1>2, <2>1 DEF disk, LockedSteps
<1>5. CASE WriteLease(p) \/ WriteIntent(p)
  BY <1>0, <1>1, <1>2, <1>5 DEF WriteLease, WriteIntent, Goto, TypeOK, LockedSteps
<1>6. CASE RewriteEntry(p)
  <2>1. /\ \A i \in Items : i # op[p].item => file'[i] = file[i]
        /\ UNCHANGED <<journal, lease, cycle, todo, held>>
    BY <1>0, <1>6 DEF RewriteEntry, TypeOK
  <2>2. CASE Finish(p)
    BY <1>0, <1>1, <1>2, <2>1, <2>2 DEF Finish, Goto, TypeOK
  <2>3. CASE Goto(p, "rename") /\ UNCHANGED <<op, lock>>
    BY <1>0, <1>1, <1>2, <2>1, <2>3 DEF Goto, TypeOK, LockedSteps
  <2> QED
    BY <1>6, <2>2, <2>3 DEF RewriteEntry
<1>7. CASE RenameEntry(p) /\ ~Raise(p)
  <2>1. Replace(op[p].item, op[p].dir, op[p].target) /\ Goto(p, "unjournal")
        /\ UNCHANGED <<journal, lease, lock, cycle, op, todo, held>>
    BY <1>7 DEF RenameEntry
  <2> QED
    BY <1>0, <1>1, <1>2, <2>1 DEF Replace, Goto, TypeOK, LockedSteps
<1>8. CASE RemoveIntent(p)
  <2>1. /\ \A i \in Items : i # op[p].item => journal'[i] = journal[i]
        /\ UNCHANGED <<file, lease, cycle, todo>>
    BY <1>0, <1>8 DEF RemoveIntent, TypeOK
  <2>2. CASE Finish(p) /\ held' = [held EXCEPT ![p] = @ \cup {op[p].item}]
    BY <1>0, <1>1, <1>2, <2>1, <2>2 DEF Finish, Goto, TypeOK
  <2>3. CASE Goto(p, "unlease") /\ UNCHANGED <<op, lock, held>>
    BY <1>0, <1>1, <1>2, <2>1, <2>3 DEF Goto, TypeOK, LockedSteps
  <2> QED
    BY <1>8, <2>2, <2>3 DEF RemoveIntent
<1>9. CASE RemoveLease(p)
  BY <1>0, <1>1, <1>2, <1>9 DEF RemoveLease, Finish, Goto, TypeOK
<1> QED
  BY <1>3, <1>4, <1>5, <1>6, <1>7, <1>8, <1>9 DEF Locked, ReadEntry, RenameEntry

(* What is known of an item with one entry. *)
LEMMA OneEntry ==
  ASSUME TypeOK, NEW i \in Items, Located(i)
  PROVE  /\ At(i) \in WorkStatus /\ Loaded(i) = file[i][At(i)] /\ Loaded(i) \in Record
         /\ \A s \in WorkStatus : (file[i][s] # NoRecord) <=> (s = At(i))
         /\ \A status \in WorkStatus : Only(i, status) <=> (Loaded(i).status = status)
         /\ Settled(i) => Only(i, "RUNNING")
<1>1. /\ At(i) \in WorkStatus /\ Loaded(i) = file[i][At(i)] /\ Loaded(i) \in Record
  BY LoadedType
<1>2. Paths(i) = {At(i)}
  BY DEF Located, At
<1>3. \A s \in WorkStatus : (file[i][s] # NoRecord) <=> (s = At(i))
  BY <1>2 DEF Paths
<1>4. \A status \in WorkStatus : Only(i, status) <=> (Loaded(i).status = status)
  BY <1>1, <1>3 DEF Only
<1>5. ASSUME file[i]["RUNNING"].status = "RUNNING"
      PROVE  Only(i, "RUNNING")
  <2>1. "RUNNING" \in WorkStatus /\ file[i]["RUNNING"] # NoRecord
    BY <1>5 DEF WorkStatus, NoRecord
  <2> QED
    BY <1>1, <1>3, <1>4, <1>5, <2>1
<1> QED
  BY <1>1, <1>3, <1>4, <1>5 DEF Settled

(* A step of the cycle's operation, for the operation's own item. *)
LEMMA OwnItem ==
  ASSUME BesideInv, NEW p \in Controllers, Locked(p), ~Abort(p),
         NEW i \in Items, op[p].item = i
  PROVE  ItemInv(i)'
<1> USE DEF disk
<1>0. /\ TypeOK /\ TypeInv /\ Intended /\ ItemInv(i) /\ p \in Procs
      /\ pc[p] \in LockedSteps /\ pc[p] # "off" /\ OpFits(op[p], pc[p])
      /\ Working(p, i) /\ WellBegun(p) /\ lock[i] = p
      /\ \A q \in Procs \ {p} : pc'[q] = pc[q] /\ op'[q] = op[q] /\ held'[q] = held[q]
  <2>1. /\ TypeOK /\ TypeInv /\ Intended /\ ItemInv(i) /\ p \in Procs
    BY DEF BesideInv, TypeInv, Procs
  <2>2. /\ pc[p] \in LockedSteps
        /\ \A q \in Procs \ {p} : pc'[q] = pc[q] /\ op'[q] = op[q] /\ held'[q] = held[q]
    BY <2>1, LockedStep
  <2> QED
    BY <2>1, <2>2 DEF TypeInv, OpTyped, ItemInv, On, Intended, WellBegun, LockedSteps
<1>1. pc[p] \notin {"rewrite", "rename", "unjournal"} \/ InPlace(op[p]) =>
        \A r \in Recoverers : Reading(r, i) => Known(r, i)
  <2>1. pc[p] \notin {"rewrite", "rename", "unjournal"} \/ InPlace(op[p]) => ~Attended(i)
    BY <1>0, Unattended DEF On, LockedSteps
  <2> QED
    BY <1>0, <2>1 DEF ItemInv
<1>2. ASSUME \/ /\ \A r \in Recoverers : Reading(r, i) => Known(r, i)
                /\ journal'[i] = journal[i]
             \/ journal'[i] = NoIntent
             \/ On(p, {"rewrite", "rename", "unjournal"}, i)' /\ ~InPlace(op'[p]),
             On(p, LockedSteps, i)' => Working(p, i)',
             Executing(p, i)' => Sheltered(i)'
      PROVE  ItemInv(i)'
  <2>1. On(p, {"rewrite", "rename", "unjournal"}, i)' /\ ~InPlace(op'[p]) => Attended(i)'
    BY DEF Attended, InPlace
  <2>2. \A r \in Recoverers : Own(r)' = Own(r)
    BY <1>0, QueueConstants DEF Own, Procs
  <2>3. \A r \in Recoverers : Reading(r, i) => (Known(r, i) \/ Attended(i))'
    BY <1>2, <2>1, <2>2 DEF Known
  <2> QED
    BY <1>0, <1>2, <2>3, Awake
<1>3. ASSUME Raise(p), \A r \in Recoverers : Reading(r, i) => Known(r, i)
      PROVE  ItemInv(i)'
  <2>1. pc'[p] = "serving" /\ i \notin held'[p] /\ journal' = journal
    BY <1>0, <1>3 DEF Raise, Finish, Goto, TypeOK
  <2> QED
    BY <1>2, <1>3, <2>1 DEF On, LockedSteps, Executing
<1>4. ASSUME pc'[p] \in LockedSteps, op'[p].item = i, ~InPlace(op'[p])
      PROVE  ~Executing(p, i)'
  BY <1>4 DEF Executing, Moving, On, InPlace
<1>5. CASE WriteLease(p)
  <2>1. /\ pc[p] = "lease" /\ pc'[p] = "read" /\ op' = op /\ UNCHANGED <<file, journal>>
        /\ op[p].kind = "claim"
    BY <1>0, <1>5 DEF WriteLease, Goto, TypeOK, WellBegun
  <2>2. Working(p, i)'
    BY <1>0, <2>1 DEF Working, Claiming, Located, Paths
  <2>3. ~Executing(p, i)'
    BY <1>4, <2>1 DEF LockedSteps, InPlace
  <2> QED
    BY <1>1, <1>2, <2>1, <2>2, <2>3
<1>6. CASE WriteIntent(p)
  <2>1. /\ pc[p] = "journal" /\ pc'[p] = "rewrite" /\ op' = op /\ UNCHANGED file
        /\ ~InPlace(op[p]) /\ journal'[i] = Own(p)
    BY <1>0, <1>6 DEF WriteIntent, Goto, TypeOK, OpFits, Own
  <2>2. ~Executing(p, i)'
    BY <1>4, <2>1 DEF LockedSteps, InPlace
  <2>3. \A r \in Recoverers : pc'[r] = pc[r]
    BY <1>0, QueueConstants DEF Procs
  <2>4. Claiming(p, i) => Claiming(p, i)'
    BY <2>1, <2>3 DEF Claiming, Only, Unmoved, On, Stale, Own
  <2>5. Working(p, i)'
    BY <1>0, <2>1, <2>2, <2>4 DEF Working, Located, Paths, Own
  <2>6. On(p, {"rewrite", "rename", "unjournal"}, i)' /\ ~InPlace(op'[p])
    BY <2>1 DEF On, InPlace
  <2> QED
    BY <1>2, <2>2, <2>5, <2>6
<1>7. CASE RemoveLease(p)
  <2>1. pc'[p] \in {"serving", "recover"} /\ i \notin held'[p] /\ UNCHANGED journal
        /\ pc[p] = "unlease"
    BY <1>0, <1>7 DEF RemoveLease, Finish, Goto, TypeOK, WellBegun
  <2> QED
    BY <1>1, <1>2, <2>1 DEF On, LockedSteps, Executing
<1>8. CASE RemoveIntent(p)
  <2>1. journal'[i] = NoIntent /\ UNCHANGED <<file, lease>> /\ pc[p] = "unjournal"
        /\ ~InPlace(op[p])
    BY <1>0, <1>8 DEF RemoveIntent, TypeOK, OpFits
  <2>2. CASE Finish(p) /\ op[p].target = "RUNNING"
    <3>1. pc'[p] \notin LockedSteps
      BY <1>0, <2>2 DEF Finish, Goto, TypeOK, WellBegun, LockedSteps
    <3>2. Settled(i)
      BY <1>0, <2>1, <2>2 DEF WellBegun, Working, Claiming
    <3>3. \A r \in Recoverers : pc'[r] = pc[r] /\ op'[r] = op[r]
      BY <1>0, QueueConstants DEF Procs
    <3>4. Settled(i)'
      BY <2>1, <3>2, <3>3 DEF Settled, Only, Harmless, On, Stale, Own
    <3> QED
      BY <1>2, <2>1, <3>1, <3>4 DEF Sheltered, On
  <2>3. CASE Goto(p, "unlease") /\ UNCHANGED <<op, lock, held>>
    <3>1. pc'[p] = "unlease"
      BY <1>0, <2>3 DEF Goto, TypeOK
    <3>2. Working(p, i)'
      BY <3>1 DEF Working, Claiming
    <3>3. ~Executing(p, i)'
      BY <1>4, <2>1, <2>3, <3>1 DEF LockedSteps, InPlace
    <3> QED
      BY <1>2, <2>1, <3>2, <3>3
  <2> QED
    BY <1>8, <2>2, <2>3 DEF RemoveIntent
<1>9. CASE ReadEntry(p)
  <2>1. CASE Raise(p)
    BY <1>1, <1>3, <1>9, <2>1 DEF ReadEntry
  <2>2. CASE ~Raise(p)
    <3> DEFINE r == Loaded(i)
    <3>1. /\ pc[p] = "read" /\ Located(i) /\ Permitted(op[p], r)
          /\ op'[p] = [kind |-> op[p].kind, item |-> i, target |-> op[p].target,
                       from |-> r.status, dir |-> At(i), next |-> Updated(op[p], r),
                       ret |-> op[p].ret]
          /\ pc'[p] = IF InPlace(op[p]) THEN "rewrite" ELSE "journal"
          /\ UNCHANGED <<file, journal, lease, lock, held>>
      BY <1>0, <1>9, <2>2 DEF ReadEntry, Goto, TypeOK, Opened
    <3>2. /\ At(i) \in WorkStatus /\ file[i][At(i)] # NoRecord /\ r \in Record
          /\ \A status \in WorkStatus : Only(i, status) <=> (r.status = status)
          /\ Settled(i) => Only(i, "RUNNING")
      BY <1>0, <3>1, OneEntry
    <3>3. InPlace(op'[p]) <=> InPlace(op[p])
      BY <3>1 DEF InPlace
    <3>4. op[p].kind = "claim" => r.status = "QUEUED"
      <4>1. op[p].kind = "claim" => LegalTransition(r.status, "RUNNING")
        BY <1>0, <3>1 DEF Permitted, InPlace, WellBegun
      <4> HIDE DEF r
      <4>2. r.status \in WorkStatus
        BY <3>2 DEF Record
      <4> QED
        BY <4>1, <4>2, LegalStatus
    <3>5. InPlace(op[p]) => op'[p].next.status = r.status
      BY <3>1 DEF Updated
    <3> HIDE DEF r
    <3>6. Executing(p, i)' => Executing(p, i) /\ InPlace(op[p])
      BY <1>4, <3>1, <3>3 DEF Executing, Live, Moving, On, LockedSteps
    <3>7. Executing(p, i)' => r.status = "RUNNING" /\ Only(i, "RUNNING")
      BY <1>0, <3>2, <3>6 DEF ItemInv, Sheltered, WorkStatus
    <3>8. Claiming(p, i)' \/ op[p].kind # "claim"
      <4>1. op[p].kind = "claim" => Only(i, "QUEUED")' /\ pc'[p] = "journal"
        BY <3>1, <3>2, <3>4 DEF Only, WorkStatus, InPlace
      <4> QED
        BY <3>1, <3>2, <4>1 DEF Claiming
    <3>9. Working(p, i)'
      BY <3>1, <3>3, <3>5, <3>7, <3>8 DEF Working, Located, Paths
    <3>10. Executing(p, i)' => Sheltered(i)'
      BY <3>1, <3>7 DEF Sheltered, Only
    <3> QED
      BY <1>1, <1>2, <3>1, <3>9, <3>10
  <2> QED
    BY <2>1, <2>2
<1>10. CASE RewriteEntry(p)
  <2>1. /\ pc[p] = "rewrite" /\ Located(i) /\ UNCHANGED <<journal, lease, held>>
        /\ op[p].dir \in WorkStatus /\ op[p].next \in Record
        /\ file'[i] = [file[i] EXCEPT ![op[p].dir] = op[p].next]
    BY <1>0, <1>10 DEF RewriteEntry, TypeOK, OpFits, Working
  <2>2. /\ \A s \in WorkStatus :
             file'[i][s] = IF s = op[p].dir THEN op[p].next ELSE file[i][s]
        /\ op[p].next # NoRecord
    BY <1>0, <2>1 DEF TypeOK, Record, NoRecord, WorkStatus
  <2>3. CASE InPlace(op[p])
    <3>1. pc'[p] \in {"serving", "recover"}
      BY <1>0, <1>10, <2>3 DEF RewriteEntry, Finish, Goto, TypeOK, WellBegun
    <3>2. Executing(p, i)' => Executing(p, i)
      BY <2>1, <2>3 DEF Executing, Live, Moving
    <3>3. Executing(p, i) => Only(i, "RUNNING") /\ op[p].next.status = "RUNNING"
      BY <1>0, <2>1, OneEntry DEF ItemInv, Sheltered, Working
    <3>4. Executing(p, i)' => Sheltered(i)'
      BY <2>1, <2>2, <3>2, <3>3 DEF Sheltered, Only
    <3> QED
      BY <1>1, <1>2, <2>1, <2>3, <3>1, <3>4 DEF On, LockedSteps
  <2>4. CASE ~InPlace(op[p])
    <3>1. pc'[p] = "rename" /\ op' = op
      BY <1>0, <1>10, <2>4 DEF RewriteEntry, Goto, TypeOK
    <3>2. ~Executing(p, i)'
      BY <1>0, <1>4, <2>4, <3>1 DEF LockedSteps, InPlace
    <3>3. ASSUME op[p].kind = "claim"
          PROVE  Claiming(p, i)'
      <4>1. /\ op[p].next.status = "RUNNING" /\ Only(i, "QUEUED")
            /\ file[i][op[p].dir] = NoRecord => Unmoved(p, i)
        BY <1>0, <2>1, <2>4, <3>3 DEF Working, Claiming, WellBegun
      <4>2. CASE file[i][op[p].dir] # NoRecord
        <5>1. \A s \in WorkStatus : (file[i][s] # NoRecord) <=> (s = op[p].dir)
          BY <1>0, <2>1, <4>2, OneEntry
        <5>2. Only(i, "RUNNING")'
          BY <2>1, <2>2, <4>1, <5>1 DEF Only
        <5> QED
          BY <3>1, <5>2 DEF Claiming
      <4>3. CASE file[i][op[p].dir] = NoRecord
        <5>1. \A s \in WorkStatus : file'[i][s].status = "RUNNING" <=> s = op[p].dir
          BY <2>1, <2>2, <4>1 DEF Only, NoRecord
        <5>2. \A r \in Recoverers :
                /\ pc'[r] = pc[r] /\ ~On(r, {"move"}, i)'
                /\ On(r, {"inspect"}, i) =>
                     /\ Stale(i, Own(r))
                     /\ op[r].from \in WorkStatus
          BY <1>0, <3>1, <4>1, <4>3, QueueConstants
          DEF Unmoved, On, Procs, TypeInv, OpTyped, OpFits
        <5>3. ASSUME NEW r \in Recoverers, On(r, {"inspect"}, i), op[r].target # "RUNNING"
              PROVE  file'[i][op[r].from].status # op[r].target
          BY <2>2, <4>1, <5>2, <5>3 DEF Stale, Own
        <5>4. Harmless(i)'
          BY <3>1, <5>2, <5>3 DEF Harmless, Stale, Own, On
        <5>5. Split(p, i)'
          BY <2>1, <3>1, <5>1, <5>2, <5>4 DEF Split
        <5> QED
          BY <3>1, <5>5 DEF Claiming
      <4> QED
        BY <4>2, <4>3
    <3>4. Working(p, i)'
      BY <1>0, <2>1, <2>2, <2>4, <3>1, <3>3 DEF Working, Own
    <3> QED
      BY <1>0, <1>2, <2>4, <3>1, <3>2, <3>4 DEF On, InPlace
  <2> QED
    BY <2>3, <2>4
<1>11. CASE RenameEntry(p)
  <2>1. pc[p] = "rename" /\ ~InPlace(op[p]) /\ op[p].dir \in WorkStatus
        /\ op[p].target \in WorkStatus
    BY <1>0, <1>11 DEF RenameEntry, OpFits, LockedSteps
  <2>2. CASE file[i][op[p].dir] = NoRecord
    <3>1. \A r \in Recoverers : Reading(r, i) => Known(r, i)
      BY <1>0, <2>1, <2>2 DEF Working
    <3> QED
      BY <1>0, <1>3, <1>11, <2>2, <3>1 DEF RenameEntry
  <2>3. CASE file[i][op[p].dir] # NoRecord
    <3>1. /\ Replace(i, op[p].dir, op[p].target)
          /\ pc'[p] = "unjournal" /\ op' = op /\ UNCHANGED <<journal, lease, held>>
      BY <1>0, <1>11, <2>3 DEF RenameEntry, Goto, TypeOK
    <3>2. /\ file'[i] = [u \in WorkStatus |->
               IF u = op[p].target THEN file[i][op[p].dir]
               ELSE IF u = op[p].dir THEN NoRecord ELSE file[i][u]]
          /\ Only(i, "RUNNING") => Only(i, "RUNNING")'
      <4>1. "RUNNING" \in WorkStatus
        BY DEF WorkStatus
      <4> QED
        BY <1>0, <2>1, <2>3, <3>1, <4>1, ReplaceOnly
    <3>3. ~Executing(p, i)'
      BY <1>0, <1>4, <2>1, <3>1 DEF LockedSteps, InPlace
    <3>4. ASSUME op[p].kind = "claim", Split(p, i)
          PROVE  Settled(i)'
      <4>1. op[p].target = "RUNNING" /\ file[i][op[p].dir].status = "RUNNING"
        BY <1>0, <2>3, <3>4 DEF WellBegun, Split
      <4>2. file'[i]["RUNNING"].status = "RUNNING"
        BY <2>1, <3>2, <4>1
      <4>3. ASSUME NEW r \in Recoverers, On(r, {"inspect", "move"}, i)
            PROVE  /\ pc'[r] = pc[r] /\ op'[r] = op[r]
                   /\ op[r].from \in WorkStatus /\ op[r].target \in WorkStatus
                   /\ op[r].target # op[r].from
        <5>1. /\ op[r].from \in WorkStatus /\ LegalTransition(op[r].from, op[r].target)
              /\ op[r].target \in WorkStatus
          BY <1>0, <4>3 DEF Intended, WellBegun, Legal, Own, On, TypeInv, OpTyped, OpFits, Procs
        <5> QED
          BY <1>0, <3>1, <5>1, LegalStatus, QueueConstants DEF Procs
      <4>4. ASSUME NEW r \in Recoverers, On(r, {"inspect"}, i)', op[r].target # "RUNNING"
            PROVE  file'[i][op[r].from].status # op[r].target
        <5>1. On(r, {"inspect"}, i) /\ On(r, {"inspect", "move"}, i)
          BY <1>0, <3>1, <4>4, QueueConstants DEF On, Procs
        <5>2. file[i][op[r].from].status # op[r].target
          BY <3>4, <4>4, <5>1 DEF Split, Harmless, Stale, Own
        <5>3. op[r].from \in WorkStatus /\ op[r].target \in WorkStatus
          BY <4>3, <5>1
        <5> QED
          BY <3>2, <4>1, <4>4, <5>2, <5>3 DEF NoRecord, WorkStatus
      <4>5. ASSUME NEW r \in Recoverers, On(r, {"move"}, i)'
            PROVE  file'[i][op[r].from] = NoRecord
        <5>1. On(r, {"move"}, i) /\ On(r, {"inspect", "move"}, i)
          BY <1>0, <3>1, <4>5, QueueConstants DEF On, Procs
        <5>2. op[r].from = op[p].dir /\ op[r].target = "RUNNING"
          BY <3>4, <5>1 DEF Split
        <5> QED
          BY <3>2, <4>1, <4>3, <5>1, <5>2
      <4>6. Harmless(i)'
        BY <3>1, <4>4 DEF Harmless, Stale, Own
      <4> QED
        BY <3>1, <4>2, <4>5, <4>6 DEF Settled
    <3>5. Working(p, i)'
      <4>1. op[p].kind = "claim" => Settled(i)'
        BY <1>0, <2>1, <3>2, <3>4 DEF Working, Claiming, Settled
      <4>2. journal[i] \in {NoIntent, Own(p)}
        BY <1>0, <2>1 DEF Working
      <4> QED
        BY <3>1, <4>1, <4>2 DEF Working, Claiming, Own
    <3> QED
      BY <1>0, <1>2, <2>1, <3>1, <3>3, <3>5 DEF On, InPlace
  <2> QED
    BY <2>2, <2>3
<1> QED
  BY <1>5, <1>6, <1>7, <1>8, <1>9, <1>10, <1>11 DEF Locked

(* A step under an item's flock, for every item. *)
LEMMA LockedItem ==
  ASSUME NoOverlap, BesideInv, NEW p \in Procs, Locked(p), NEW i \in Items
  PROVE  ItemInv(i)'
<1>0. TypeInv /\ Intended /\ WellBegun(p) /\ Apart(p) /\ (p \in Recoverers => p \notin Controllers)
  BY QueueConstants DEF BesideInv, Intended
<1>1. CASE Abort(p) /\ UNCHANGED <<file, journal>>
  <2>1. pc[p] \in LockedSteps /\ op[p].item \in Items /\ TypeOK
    BY <1>0, LockedStep DEF TypeInv
  <2>2. pc[p] # "lease"
    <3>1. pc[p] = "lease" => WriteLease(p)
      BY DEF Locked, ReadEntry, WriteIntent, RewriteEntry, RenameEntry, RemoveIntent, RemoveLease
    <3>2. ~WriteLease(p)
      BY <1>1, <2>1, QueueConstants DEF WriteLease, Abort, Goto, TypeOK
    <3> QED
      BY <3>1, <3>2
  <2>3. lease'[i] \in {lease[i], NoLease}
    BY <1>0, <2>2, LockedStep
  <2>4. \A q \in Controllers : Live(q, i)' => Live(q, i)
    BY <2>3, QueueConstants DEF Live, NoLease, Procs
  <2> QED
    BY <1>1, <2>4, AbortItem
<1>2. CASE /\ ~(Abort(p) /\ UNCHANGED <<file, journal>>) /\ i # op[p].item
  <2>1. pc[p] \in LockedSteps /\ op[p].ret \in {"serving", "recover"}
    BY <1>0, LockedStep DEF WellBegun
  <2> QED
    BY <1>0, <1>2, <2>1, LockedStep, Elsewhere DEF LockedSteps
<1>3. CASE ~(Abort(p) /\ UNCHANGED <<file, journal>>) /\ i = op[p].item /\ p \in Recoverers
  <2>1. pc[p] \in LockedSteps /\ op[p].ret = "recover" /\ pc[p] # "lease"
    BY <1>0, <1>3, LockedStep DEF WellBegun, Apart
  <2> QED
    BY <1>0, <1>3, <2>1, LockedStep, ApartIsLonely, Guarded DEF LockedSteps
<1>4. CASE ~(Abort(p) /\ UNCHANGED <<file, journal>>) /\ i = op[p].item /\ p \in Controllers
  <2>1. CASE Abort(p)
    <3>1. pc[p] \in LockedSteps /\ pc'[p] = "off" /\ op[p].ret \in {"serving", "recover"}
      BY <1>0, <2>1, LockedStep DEF Abort, Goto, TypeInv, TypeOK, WellBegun
    <3> QED
      BY <1>0, <1>4, <3>1, LockedStep DEF LockedSteps
  <2> QED
    BY <1>4, <2>1, OwnItem
<1> QED
  BY <1>1, <1>2, <1>3, <1>4 DEF Procs

(* A call of the cycle, for every item. *)
LEMMA ServeItem ==
  ASSUME BesideInv, NEW p \in Controllers, Serve(p), NEW i \in Items
  PROVE  ItemInv(i)'
<1> USE DEF disk
<1>0. /\ TypeOK /\ TypeInv /\ Intended /\ ItemInv(i) /\ p \in Procs
      /\ pc[p] = "serving" /\ Nobody \notin Procs /\ p \notin Recoverers
  BY QueueConstants
  DEF BesideInv, TypeInv, Procs, Serve, Put, BeginTransition, BeginClaim, BeginBind,
      BeginRefresh, Enter, Renew, LoseLease, ExecutionRaises, EndCycle
<1>1. ~Attended(i) /\ \A r \in Recoverers : Reading(r, i) => Known(r, i)
  <2>1. ~Attended(i)
    BY <1>0, Unattended DEF On
  <2> QED
    BY <1>0, <2>1 DEF ItemInv
<1>2. ASSUME NEW j \in Items, NEW k \in {"transition", "claim", "bind", "refresh"}, NEW t,
             NEW step \in {"lease", "read"}, Located(j), Enter(p, j, k, t, step),
             UNCHANGED <<file, journal, cycle, todo>>,
             \A q \in Procs \ {p} : held'[q] = held[q],
             i \in held'[p] => i \in held[p],
             i # j \/ k # "claim" => lease'[i] = lease[i]
      PROVE  ItemInv(i)'
  <2>1. /\ pc'[p] = step
        /\ op'[p] = [kind |-> k, item |-> j, target |-> t, from |-> "ABSENT",
                     dir |-> "ABSENT", next |-> NoRecord, ret |-> "serving"]
        /\ \A q \in Procs \ {p} : pc'[q] = pc[q] /\ op'[q] = op[q]
    BY <1>0, <1>2 DEF Enter, Goto, Begin, TypeOK
  <2>2. \A r \in Recoverers : pc'[r] = pc[r] /\ op'[r] = op[r]
    BY <1>0, <2>1 DEF Procs
  <2>3. \A r \in Recoverers : Reading(r, i) => Known(r, i)'
    BY <1>1, <1>2, <2>2 DEF Known, Own
  <2>4. Executing(p, i)' => Executing(p, i)
    BY <1>0, <1>2, <2>1 DEF Executing, Live, Moving, On, InPlace, LockedSteps
  <2>5. Sheltered(i) => Sheltered(i)'
    BY <1>2, <2>2, EntriesKept
  <2>6. On(p, LockedSteps, i)' => Working(p, i)'
    BY <1>2, <2>1 DEF On, Working, Claiming, Located, Paths
  <2> QED
    BY <1>0, <1>2, <2>1, <2>3, <2>4, <2>5, <2>6, Awake DEF ItemInv
<1>3. ASSUME UNCHANGED <<pc, op, journal>>, file'[i] = file[i],
             \A q \in Procs : i \in held'[q] => i \in held[q],
             \A q \in Procs : i \in held'[q] => (Live(q, i)' => Live(q, i))
      PROVE  ItemInv(i)'
  <2>1. \A q \in Controllers : Executing(q, i)' => Executing(q, i)
    BY <1>3 DEF Executing, Moving, On, InPlace, Procs
  <2> QED
    BY <1>0, <1>1, <1>3, <2>1, Frame
<1>4. ASSUME NEW j \in Items, Put(p, j)
      PROVE  ItemInv(i)'
  <2>1. UNCHANGED <<journal, lease, lock, cycle, pc, op, todo, held>>
    BY <1>4 DEF Put
  <2>2. CASE i # j
    <3>1. file'[i] = file[i]
      BY <1>0, <1>4, <2>2 DEF Put, TypeOK
    <3> QED
      BY <1>3, <2>1, <3>1 DEF Live
  <2>3. CASE i = j
    <3>1. \A s \in WorkStatus : file[i][s] = NoRecord
      BY <1>4, <2>3 DEF Put, Paths
    <3>2. "RUNNING" \in WorkStatus /\ file[i]["RUNNING"].status # "RUNNING"
      BY <3>1 DEF WorkStatus, NoRecord
    <3>3. ~Sheltered(i)
      BY <3>1, <3>2 DEF Sheltered, Settled, Only
    <3>4. ~Executing(p, i)'
      BY <1>0, <2>1, <3>3 DEF ItemInv, Executing, Live, Moving, On, InPlace
    <3>5. \A r \in Recoverers : Reading(r, i) => Known(r, i)'
      BY <1>1, <2>1 DEF Known, Own
    <3> QED
      BY <1>0, <2>1, <3>4, <3>5, Awake DEF On, LockedSteps
  <2> QED
    BY <2>2, <2>3
<1>5. ASSUME NEW j \in Items, BeginTransition(p, j)
      PROVE  ItemInv(i)'
  BY <1>2, <1>5 DEF BeginTransition
<1>6. ASSUME NEW j \in Items, BeginClaim(p, j)
      PROVE  ItemInv(i)'
  <2>1. Located(j)
    BY <1>6 DEF BeginClaim, Loaded, NoRecord
  <2>2. i # j => lease'[i] = lease[i]
    BY <1>0, <1>6 DEF BeginClaim, TypeOK
  <2>3. Enter(p, j, "claim", "RUNNING", "lease") /\ UNCHANGED <<file, journal, cycle, todo, held>>
    BY <1>6 DEF BeginClaim
  <2> QED
    BY <1>2, <2>1, <2>2, <2>3
<1>7. ASSUME NEW j \in Items, BeginBind(p, j)
      PROVE  ItemInv(i)'
  BY <1>2, <1>7 DEF BeginBind
<1>8. ASSUME NEW j \in Items, BeginRefresh(p, j)
      PROVE  ItemInv(i)'
  <2>1. Located(j)
    BY <1>8 DEF BeginRefresh, Loaded, NoRecord
  <2> QED
    BY <1>2, <1>8, <2>1 DEF BeginRefresh
<1>9. ASSUME NEW j \in Items, Renew(p, j)
      PROVE  ItemInv(i)'
  <2>1. \A q \in Procs : Live(q, i)' => Live(q, i)
    <3>1. CASE i = j
      <4>1. Live(p, i) /\ lease[i] \in Lease
        BY <1>0, <1>9, <3>1 DEF Renew, Renewable, Live, TypeOK, NoLease
      <4>2. lease'[i].owner = p
        BY <1>0, <1>9, <3>1, <4>1 DEF Renew, Live, TypeOK, Lease
      <4> QED
        BY <4>1, <4>2 DEF Live
    <3>2. CASE i # j
      BY <1>0, <1>9, <3>2 DEF Renew, Live, TypeOK
    <3> QED
      BY <3>1, <3>2
  <2> QED
    BY <1>3, <1>9, <2>1 DEF Renew
<1>10. ASSUME NEW j \in Items, LoseLease(p, j)
       PROVE  ItemInv(i)'
  <2>1. /\ \A q \in Procs \ {p} : held'[q] = held[q]
        /\ i \in held'[p] => i \in held[p]
        /\ UNCHANGED <<file, journal, lease, cycle, todo>>
    BY <1>0, <1>10 DEF LoseLease, TypeOK
  <2>2. CASE Loaded(j).status = "RUNNING" /\ Enter(p, j, "transition", "BLOCKED_TECHNICAL", "read")
    <3>1. Located(j)
      BY <2>2 DEF Loaded, NoRecord
    <3> QED
      BY <1>2, <2>1, <2>2, <3>1
  <2>3. CASE UNCHANGED <<pc, op, lock>>
    <3>1. \A q \in Procs : i \in held'[q] => i \in held[q]
      BY <2>1
    <3> QED
      BY <1>3, <2>1, <2>3, <3>1 DEF Live
  <2> QED
    BY <1>10, <2>2, <2>3 DEF LoseLease
<1>11. ASSUME NEW j \in Items, ExecutionRaises(p, j)
       PROVE  ItemInv(i)'
  <2>1. \A q \in Procs : i \in held'[q] => i \in held[q]
    BY <1>0, <1>11 DEF ExecutionRaises, TypeOK
  <2> QED
    BY <1>3, <1>11, <2>1 DEF ExecutionRaises, Live
<1>12. CASE EndCycle(p)
  <2>1. /\ pc'[p] = "off" /\ UNCHANGED <<file, journal, lease, op, held>>
        /\ \A q \in Procs \ {p} : pc'[q] = pc[q]
    BY <1>0, <1>12 DEF EndCycle, Goto, TypeOK
  <2>2. \A q \in Controllers : Executing(q, i)' => Executing(q, i)
    BY <1>0, <2>1 DEF Executing, Live, Moving, On, InPlace, Procs, LockedSteps
  <2> QED
    BY <1>0, <1>1, <2>1, <2>2, Frame DEF On, LockedSteps, Procs
<1> QED
  BY <1>4, <1>5, <1>6, <1>7, <1>8, <1>9, <1>10, <1>11, <1>12 DEF Serve

(* Every step beside a recovery keeps what is said of every item. *)
LEMMA CliItem ==
  ASSUME NoOverlap, BesideInv, [NextCli]_vars, NEW i \in Items
  PROVE  ItemInv(i)'
<1> USE DEF disk
<1>0. /\ TypeOK /\ TypeInv /\ Intended /\ ItemInv(i)
      /\ {Nobody, Dead} \cap Procs = {} /\ Controllers \cap Recoverers = {}
  BY QueueConstants DEF BesideInv, TypeInv
<1>1. CASE Tick \/ UNCHANGED vars
  <2>1. UNCHANGED <<file, journal, lock, cycle, pc, op, todo, held>>
    BY <1>1 DEF Tick, vars
  <2>2. \A q \in Controllers : Live(q, i)' => Live(q, i)
    <3>1. lease[i] \in Lease \cup {NoLease}
      BY <1>0 DEF TypeOK
    <3>2. \/ lease'[i] = lease[i]
          \/ lease[i].ttl > 0 /\ lease'[i] = [lease[i] EXCEPT !.ttl = @ - 1]
      BY <1>1 DEF Tick, vars
    <3> QED
      BY <3>1, <3>2 DEF Live, Lease, NoLease
  <2>3. \A q \in Controllers : Executing(q, i)' => Executing(q, i)
    BY <2>1, <2>2 DEF Executing, Moving, On, InPlace
  <2>4. Attended(i) => Attended(i)'
    BY <2>1 DEF Attended, On, InPlace
  <2> QED
    BY <1>0, <2>1, <2>3, <2>4, Frame
<1>2. ASSUME NEW p \in Procs, Crash(p)
      PROVE  ItemInv(i)'
  <2>1. \A q \in Controllers \ {p} : Live(q, i)' => Live(q, i)
    <3>1. lease[i] \in Lease \cup {NoLease}
      BY <1>0 DEF TypeOK
    <3>2. lease'[i] = lease[i] \/ lease'[i] = [lease[i] EXCEPT !.owner = Dead]
      BY <1>2 DEF Crash
    <3> QED
      BY <1>0, <3>1, <3>2 DEF Live, Lease, NoLease, Procs
  <2> QED
    BY <1>2, <2>1, AbortItem DEF Crash
<1>3. ASSUME NEW p \in Procs, StartCycle(p) \/ StartRecover(p)
      PROVE  ItemInv(i)'
  <2>1. /\ pc[p] = "off" /\ pc'[p] = "reconcile" /\ todo'[p] = Journalled
        /\ \A q \in Procs \ {p} : pc'[q] = pc[q] /\ todo'[q] = todo[q]
        /\ UNCHANGED <<disk, lock, op, held>>
        /\ (p \in Controllers /\ cycle = Nobody) \/ (p \notin Controllers /\ cycle' = cycle)
    BY <1>0, <1>3 DEF StartCycle, StartRecover, Goto, TypeOK
  <2>2. \A q \in Controllers : Executing(q, i)' => Executing(q, i)
    BY <1>0, <2>1 DEF Executing, Live, Moving, On, InPlace, Procs, LockedSteps
  <2>3. Attended(i) => Attended(i)' \/ journal'[i] = NoIntent
    <3>1. CASE p \in Controllers
      BY <2>1, <3>1 DEF Attended, Journalled
    <3>2. CASE p \notin Controllers
      BY <2>1, <3>2 DEF Attended, On, InPlace, Procs
    <3> QED
      BY <3>1, <3>2
  <2> QED
    BY <1>0, <2>1, <2>2, <2>3, Frame DEF On, Reading, LockedSteps, Procs
<1> QED
  BY <1>1, <1>2, <1>3, RecoveryItem, LockedItem, ServeItem
  DEF NextCli, Next, Controller, Procs

(* What LiveLeaseIsPreserved says is Sheltered, of the items a controller  *)
(* executes and does not hold the flock of.                                *)
LEMMA ShelteredIsPreserved == BesideInv => LiveLeaseIsPreserved
<1> SUFFICES ASSUME BesideInv, NEW p \in Controllers, NEW i \in held[p],
                    lease[i].owner = p, lease[i].ttl > 0, lock[i] # p
             PROVE  \E s \in WorkStatus : file[i][s].status = "RUNNING"
  BY DEF LiveLeaseIsPreserved
<1>1. TypeOK /\ WellBegun(p) /\ i \in Items /\ ItemInv(i)
  BY DEF BesideInv, TypeInv, TypeOK, Intended, Procs
<1>2. ~Moving(p, i)
  BY <1>1 DEF Moving, On, WellBegun
<1>3. Sheltered(i)
  BY <1>1, <1>2 DEF ItemInv, Executing, Live
<1> QED
  BY <1>3 DEF Sheltered, Settled, Only, WorkStatus

(* At the start nothing is under way. *)
LEMMA BesideInit == Init => BesideInv
<1> SUFFICES ASSUME Init PROVE BesideInv
  OBVIOUS
<1>1. TypeInv
  BY InitType
<1>2. \A p \in Procs : pc[p] = "off" /\ held[p] = {}
  BY DEF Init
<1>3. Intended
  BY <1>2 DEF Init, Intended, WellBegun, Apart, LockedSteps
<1>4. \A i \in Items : ItemInv(i)
  BY <1>2 DEF ItemInv, Reading, On, Executing, LockedSteps, Procs
<1> QED
  BY <1>1, <1>3, <1>4 DEF BesideInv

(* A live claim is not taken away by any `tcfactory recover` that runs     *)
(* beside its controller, as often as it is invoked and wherever it dies,  *)
(* before two invocations overlap (recover_interrupted).                   *)
THEOREM LiveLeasePreserved == SpecBeside => []LiveLeaseSurvivesRecovery
<1> DEFINE Inv == ~overlapped => BesideInv /\ NoOverlap
<1>1. Init /\ overlapped = FALSE => Inv
  <2>1. Init => NoOverlap
    BY DEF Init, NoOverlap, Procs
  <2> QED
    BY <2>1, BesideInit
<1>2. ASSUME Inv, [NextBeside]_<<vars, overlapped>>
      PROVE  Inv'
  <2> SUFFICES ASSUME ~overlapped' PROVE BesideInv' /\ NoOverlap'
    OBVIOUS
  <2>1. ~overlapped /\ [NextCli]_vars
    <3>1. CASE NextBeside
      BY <3>1 DEF NextBeside
    <3>2. CASE UNCHANGED <<vars, overlapped>>
      <4>1. vars' = vars /\ overlapped' = overlapped
        BY <3>2
      <4> QED
        BY <4>1
    <3> QED
      BY <1>2, <3>1, <3>2
  <2>2. BesideInv /\ NoOverlap
    BY <1>2, <2>1
  <2>3. NoOverlap'
    <3>1. CASE UNCHANGED <<vars, overlapped>>
      BY <2>2, <3>1 DEF NoOverlap, vars
    <3> QED
      BY <1>2, <3>1 DEF NextBeside
  <2>4. TypeInv' /\ Intended'
    BY <2>1, <2>2, CliType, CliApart DEF BesideInv
  <2>5. \A i \in Items : ItemInv(i)'
    BY <2>1, <2>2, CliItem
  <2> QED
    BY <2>3, <2>4, <2>5 DEF BesideInv
<1>3. Inv => LiveLeaseSurvivesRecovery
  BY ShelteredIsPreserved DEF LiveLeaseSurvivesRecovery
<1> QED
  BY <1>1, <1>2, <1>3, PTL DEF SpecBeside
=============================================================================
