------------------------------ MODULE V3Queue ------------------------------
(***************************************************************************)
(* The filesystem queue of the V3 factory (src/tcfactory/v3/queue.py): one *)
(* YAML file per item in the directory of its status, a write-ahead intent *)
(* per item for the cross-directory move, a lease file per claimed item,   *)
(* and an flock per item.  Every file-system operation that another        *)
(* process or a crash can separate from the next one is a step of its own. *)
(*                                                                         *)
(* Two kinds of process use the queue.  Controllers run cycles under the   *)
(* process-wide controller lock (controller_lock.py): initialize           *)
(* reconciles the intents and recovers abandoned claims, then the cycle    *)
(* transitions, claims, renews and binds.  Recoverers are `tcfactory       *)
(* recover` invocations (src/tcfactory/cli.py): the same two recovery      *)
(* passes, without the controller lock.                                    *)
(*                                                                         *)
(* A lease carries the ticks it has left instead of an expiry date, and    *)
(* the owner process instead of its lease id: a controller claims an item  *)
(* at most once per cycle.  Dead is the identity of a process that is      *)
(* gone; _lease_owner_is_alive answers FALSE for it.                       *)
(***************************************************************************)
EXTENDS WorkItems, Integers, FiniteSets

CONSTANTS Items,          \* work item identifiers
          ExternalItems,  \* the items with external_receipt_required
          Controllers,    \* controller processes
          Recoverers,     \* `tcfactory recover` processes
          RoadmapStatus,  \* the statuses of the roadmap's live items
          Requested,      \* bound: the targets the cycle asks transition for
          LeaseTicks,     \* ticks a fresh or renewed lease lasts
          Nobody,         \* no process
          Dead            \* the identity of a process that has gone

Procs == Controllers \cup Recoverers

ASSUME QueueConstants ==
  /\ ExternalItems \subseteq Items
  /\ RoadmapStatus \subseteq WorkStatus \ {"RUNNING"}
  /\ Requested \subseteq WorkStatus \ {"RUNNING"}
  /\ LeaseTicks \in Nat \ {0}
  /\ Controllers \cap Recoverers = {}
  /\ {Nobody, Dead} \cap Procs = {}
  /\ Nobody # Dead

VARIABLES
  file,     \* file[i][s]: the record in directory s, or NoRecord
  journal,  \* journal[i]: the transition intent of i, or NoIntent
  lease,    \* lease[i]: the lease file of i, or NoLease
  lock,     \* lock[i]: the process holding i's flock
  cycle,    \* the process holding the controller lock
  pc,       \* pc[p]: the step p is about to take
  op,       \* op[p]: the operation p is in the middle of
  todo,     \* todo[p]: the items left in p's current recovery pass
  held      \* held[p]: the items whose execution runs in p's cycle

disk == <<file, journal, lease>>
vars == <<file, journal, lease, lock, cycle, pc, op, todo, held>>

-----------------------------------------------------------------------------
NoIntent == [source |-> "ABSENT", target |-> "ABSENT"]
Intent   == [source : WorkStatus, target : WorkStatus]

NoLease == [owner |-> Nobody, ttl |-> 0]
Lease   == [owner : Procs \cup {Dead}, ttl : 0 .. LeaseTicks]

(* The steps taken while an item's flock is held. *)
LockedSteps ==
  {"lease", "read", "journal", "rewrite", "rename", "unjournal", "unlease"}
Steps == LockedSteps \cup
  {"off", "reconcile", "inspect", "move", "retire", "recover", "serving"}

(* The operation in flight: what for, on which item, the requested status, *)
(* where the entry was found (dir), the status it had (from), the record   *)
(* about to be written, and the step to return to.                         *)
Operation ==
  [kind : {"transition", "claim", "bind", "refresh", "reconcile", "none"},
   item : Items \cup {Nobody},
   target : WorkStatus \cup {"ABSENT"},
   from : WorkStatus \cup {"ABSENT"},
   dir : WorkStatus \cup {"ABSENT"},
   next : Record \cup {NoRecord},
   ret : {"recover", "serving", "reconcile", "off"}]

NoOp == [kind |-> "none", item |-> Nobody, target |-> "ABSENT",
         from |-> "ABSENT", dir |-> "ABSENT", next |-> NoRecord,
         ret |-> "off"]

Begin(kind, i, target, ret) ==
  [kind |-> kind, item |-> i, target |-> target, from |-> "ABSENT",
   dir |-> "ABSENT", next |-> NoRecord, ret |-> ret]

(* The operation once its entry (or its intent) has been read. *)
Opened(o, from, dir, next) ==
  [kind |-> o.kind, item |-> o.item, target |-> o.target, from |-> from,
   dir |-> dir, next |-> next, ret |-> o.ret]

(* _paths: the directories that hold an entry for i. *)
Paths(i) == {s \in WorkStatus : file[i][s] # NoRecord}

(* locate succeeds only on exactly one entry; that entry is At(i). *)
Located(i) == \E s \in WorkStatus : Paths(i) = {s}
At(i) == CHOOSE s \in WorkStatus : Paths(i) = {s}

(* load: the record of the located entry; NoRecord while there is none.    *)
Loaded(i) == IF Located(i) THEN file[i][At(i)] ELSE NoRecord

(* Fault variants of Abandoned: every claim, and expired leases only. *)
AbandonedAlways(i) == TRUE
AbandonedByExpiryOnly(i) == lease[i] = NoLease \/ lease[i].ttl = 0

(* recover_expired_claims: no lease file, an expired lease, or an owner    *)
(* that is provably gone.                                                  *)
Abandoned(i) ==
  \/ lease[i] = NoLease
  \/ lease[i].ttl = 0
  \/ lease[i].owner = Dead

(* Fault variant of Replace: a copy that leaves the source behind. *)
ReplaceByCopy(i, from, to) ==
  file' = [file EXCEPT ![i][to] = file[i][from]]

(* os.replace(directory from / i.yaml, directory to / i.yaml) *)
Replace(i, from, to) ==
  file' = [file EXCEPT ![i] = [s \in WorkStatus |->
             IF s = to THEN file[i][from]
             ELSE IF s = from THEN NoRecord ELSE file[i][s]]]

-----------------------------------------------------------------------------
Init ==
  /\ file = [i \in Items |-> [s \in WorkStatus |-> NoRecord]]
  /\ journal = [i \in Items |-> NoIntent]
  /\ lease = [i \in Items |-> NoLease]
  /\ lock = [i \in Items |-> Nobody]
  /\ cycle = Nobody
  /\ pc = [p \in Procs |-> "off"]
  /\ op = [p \in Procs |-> NoOp]
  /\ todo = [p \in Procs |-> {}]
  /\ held = [p \in Procs |-> {}]

Goto(p, step) == pc' = [pc EXCEPT ![p] = step]

(* An exception that leaves initialize or `recover`: the process stops,    *)
(* and the OS releases what it had locked.                                 *)
Abort(p) ==
  /\ Goto(p, "off")
  /\ op' = [op EXCEPT ![p] = NoOp]
  /\ todo' = [todo EXCEPT ![p] = {}]
  /\ held' = [held EXCEPT ![p] = {}]
  /\ lock' = [i \in Items |-> IF lock[i] = p THEN Nobody ELSE lock[i]]
  /\ cycle' = IF cycle = p THEN Nobody ELSE cycle

(* Leave the operation in flight: release the flock and return.            *)
Finish(p) ==
  /\ Goto(p, op[p].ret)
  /\ op' = [op EXCEPT ![p] = NoOp]
  /\ lock' = [lock EXCEPT ![op[p].item] = Nobody]

-----------------------------------------------------------------------------
(* Recovery passes: reconcile_transactions, then recover_expired_claims.   *)

Journalled == {i \in Items : journal[i] # NoIntent}

(* Fault variant of StartCycle: the controller lock is taken over. *)
StartCycleUnlocked(p) ==
  /\ p \in Controllers
  /\ pc[p] = "off"
  /\ cycle' = p
  /\ Goto(p, "reconcile")
  /\ todo' = [todo EXCEPT ![p] = Journalled]
  /\ UNCHANGED <<disk, lock, op, held>>

(* run_cycle takes the controller lock or gives up at once. *)
StartCycle(p) ==
  /\ p \in Controllers
  /\ pc[p] = "off"
  /\ cycle = Nobody
  /\ cycle' = p
  /\ Goto(p, "reconcile")
  /\ todo' = [todo EXCEPT ![p] = Journalled]
  /\ UNCHANGED <<disk, lock, op, held>>

(* `tcfactory recover` takes no controller lock. *)
StartRecover(p) ==
  /\ p \in Recoverers
  /\ pc[p] = "off"
  /\ Goto(p, "reconcile")
  /\ todo' = [todo EXCEPT ![p] = Journalled]
  /\ UNCHANGED <<disk, lock, cycle, op, held>>

(* Read one intent; one that has vanished since the listing raises.        *)
ReadIntent(p, i) ==
  /\ pc[p] = "reconcile"
  /\ i \in todo[p]
  /\ \/ /\ journal[i] # NoIntent
        /\ op' = [op EXCEPT ![p] =
             Opened(Begin("reconcile", i, journal[i].target, "reconcile"),
                    journal[i].source, journal[i].source, NoRecord)]
        /\ todo' = [todo EXCEPT ![p] = @ \ {i}]
        /\ Goto(p, "inspect")
        /\ UNCHANGED <<disk, lock, cycle, held>>
     \/ /\ journal[i] = NoIntent
        /\ Abort(p)
        /\ UNCHANGED disk

(* The entry is only at the destination, or only at the source, and        *)
(* already has the target status.                                          *)
Moved(i, source, target) ==
  /\ file[i][source] = NoRecord
  /\ file[i][target].status = target
Rewritten(i, source, target) ==
  /\ file[i][source].status = target
  /\ file[i][target] = NoRecord

Inspect(p) ==
  /\ pc[p] = "inspect"
  /\ LET o == op[p] IN
     \/ /\ Moved(o.item, o.from, o.target)
        /\ Goto(p, "retire")
        /\ UNCHANGED <<disk, lock, cycle, op, todo, held>>
     \/ /\ Rewritten(o.item, o.from, o.target)
        /\ Goto(p, "move")
        /\ UNCHANGED <<disk, lock, cycle, op, todo, held>>
     \/ /\ ~Moved(o.item, o.from, o.target)
        /\ ~Rewritten(o.item, o.from, o.target)
        /\ Abort(p)
        /\ UNCHANGED disk

(* os.replace(source, destination); it raises when the source has gone. *)
MoveEntry(p) ==
  /\ pc[p] = "move"
  /\ LET o == op[p] IN
     \/ /\ file[o.item][o.from] # NoRecord
        /\ Replace(o.item, o.from, o.target)
        /\ Goto(p, "retire")
        /\ UNCHANGED <<journal, lease, lock, cycle, op, todo, held>>
     \/ /\ file[o.item][o.from] = NoRecord
        /\ Abort(p)
        /\ UNCHANGED disk

(* journal.unlink(): it raises when the intent has gone. *)
RetireIntent(p) ==
  /\ pc[p] = "retire"
  /\ \/ /\ journal[op[p].item] # NoIntent
        /\ journal' = [journal EXCEPT ![op[p].item] = NoIntent]
        /\ op' = [op EXCEPT ![p] = NoOp]
        /\ Goto(p, "reconcile")
        /\ UNCHANGED <<file, lease, lock, cycle, todo, held>>
     \/ /\ journal[op[p].item] = NoIntent
        /\ Abort(p)
        /\ UNCHANGED disk

(* items(RUNNING): the second pass lists the RUNNING directory. *)
ListRunning(p) ==
  /\ pc[p] = "reconcile"
  /\ todo[p] = {}
  /\ todo' = [todo EXCEPT ![p] = {i \in Items : file[i]["RUNNING"] # NoRecord}]
  /\ Goto(p, "recover")
  /\ UNCHANGED <<disk, lock, cycle, op, held>>

(* Under the item's flock: skip it, or move an abandoned claim to          *)
(* BLOCKED_TECHNICAL.                                                      *)
RecoverClaim(p, i) ==
  /\ pc[p] = "recover"
  /\ i \in todo[p]
  /\ lock[i] = Nobody
  /\ \/ /\ Loaded(i).status = "RUNNING"
        /\ Abandoned(i)
        /\ lock' = [lock EXCEPT ![i] = p]
        /\ op' = [op EXCEPT ![p] =
                    Begin("transition", i, "BLOCKED_TECHNICAL", "recover")]
        /\ todo' = [todo EXCEPT ![p] = @ \ {i}]
        /\ Goto(p, "read")
        /\ UNCHANGED <<disk, cycle, held>>
     \/ /\ Located(i)
        /\ ~(Loaded(i).status = "RUNNING" /\ Abandoned(i))
        /\ todo' = [todo EXCEPT ![p] = @ \ {i}]
        /\ UNCHANGED <<disk, lock, cycle, pc, op, held>>
     \/ /\ ~Located(i)
        /\ Abort(p)
        /\ UNCHANGED disk

EndRecovery(p) ==
  /\ pc[p] = "recover"
  /\ todo[p] = {}
  /\ Goto(p, IF p \in Controllers THEN "serving" ELSE "off")
  /\ UNCHANGED <<disk, lock, cycle, op, todo, held>>

-----------------------------------------------------------------------------
(* The cycle's calls.  A caller that finds the flock taken waits for it.   *)

(* put: initialize adds the roadmap items the queue does not have. *)
Put(p, i) ==
  /\ pc[p] = "serving"
  /\ lock[i] = Nobody
  /\ Paths(i) = {}
  /\ \E s \in RoadmapStatus :
       LET r == [status |-> s, bound |-> FALSE] IN
       /\ ValidRecord(i \in ExternalItems, r)
       /\ file' = [file EXCEPT ![i][s] = r]
  /\ UNCHANGED <<journal, lease, lock, cycle, pc, op, todo, held>>

Enter(p, i, kind, target, step) ==
  /\ pc[p] = "serving"
  /\ lock[i] = Nobody
  /\ lock' = [lock EXCEPT ![i] = p]
  /\ op' = [op EXCEPT ![p] = Begin(kind, i, target, "serving")]
  /\ Goto(p, step)

(* transition: the cycle moves a RUNNING item only from its own execution. *)
BeginTransition(p, i) ==
  /\ Located(i)
  /\ Loaded(i).status = "RUNNING" => i \in held[p]
  /\ \E t \in Requested : Enter(p, i, "transition", t, "read")
  /\ UNCHANGED <<disk, cycle, todo, held>>

(* bind_external_evidence rewrites the record in place.                    *)
BeginBind(p, i) ==
  /\ i \in ExternalItems
  /\ Located(i)
  /\ Enter(p, i, "bind", "ABSENT", "read")
  /\ UNCHANGED <<disk, cycle, todo, held>>

(* refresh_blocked_from_authority rewrites a blocked record in place. *)
BeginRefresh(p, i) ==
  /\ Loaded(i).status = "BLOCKED_TECHNICAL"
  /\ Enter(p, i, "refresh", "ABSENT", "read")
  /\ UNCHANGED <<disk, cycle, todo, held>>

(* claim: only QUEUED work, and an unexpired lease refuses it; an expired  *)
(* one is unlinked.                                                        *)
BeginClaim(p, i) ==
  /\ Loaded(i).status = "QUEUED"
  /\ lease[i] = NoLease \/ lease[i].ttl = 0
  /\ Enter(p, i, "claim", "RUNNING", "lease")
  /\ lease' = [lease EXCEPT ![i] = NoLease]
  /\ UNCHANGED <<file, journal, cycle, todo, held>>

WriteLease(p) ==
  /\ pc[p] = "lease"
  /\ lease' = [lease EXCEPT ![op[p].item] =
                 [owner |-> p, ttl |-> LeaseTicks]]
  /\ Goto(p, "read")
  /\ UNCHANGED <<file, journal, lock, cycle, op, todo, held>>

(* An exception under the flock: claim takes its own lease back, an        *)
(* execution ends, and a recovery pass is abandoned.                       *)
Raise(p) ==
  /\ lease' = IF op[p].kind = "claim" /\ lease[op[p].item].owner = p
              THEN [lease EXCEPT ![op[p].item] = NoLease] ELSE lease
  /\ UNCHANGED <<file, journal>>
  /\ \/ /\ op[p].ret = "serving"
        /\ Finish(p)
        /\ held' = [held EXCEPT ![p] = @ \ {op[p].item}]
        /\ UNCHANGED <<cycle, todo>>
     \/ /\ op[p].ret # "serving"
        /\ Abort(p)

(* bind and refresh rewrite the entry where it is. *)
InPlace(o) == o.kind \in {"bind", "refresh"}

(* The record the operation will write over the one it has loaded. *)
Updated(o, r) ==
  [status |-> IF InPlace(o) THEN r.status ELSE o.target,
   bound  |-> r.bound \/ o.kind = "bind"]

(* Fault variant of Permitted: the validator without the table. *)
PermittedWithoutTable(o, r) ==
  /\ o.kind = "refresh" => r.status = "BLOCKED_TECHNICAL"
  /\ ~InPlace(o) => ValidRecord(o.item \in ExternalItems, Updated(o, r))

(* The checks between load and the first write. *)
Permitted(o, r) ==
  /\ o.kind = "refresh" => r.status = "BLOCKED_TECHNICAL"
  /\ ~InPlace(o) =>
       /\ LegalTransition(r.status, o.target)
       /\ ValidRecord(o.item \in ExternalItems, Updated(o, r))

ReadEntry(p) ==
  /\ pc[p] = "read"
  /\ LET o == op[p]
         r == Loaded(o.item) IN
     \/ /\ Located(o.item)
        /\ Permitted(o, r)
        /\ op' = [op EXCEPT ![p] =
                    Opened(o, r.status, At(o.item), Updated(o, r))]
        /\ Goto(p, IF InPlace(o) THEN "rewrite" ELSE "journal")
        /\ UNCHANGED <<disk, lock, cycle, todo, held>>
     \/ /\ ~(Located(o.item) /\ Permitted(o, r))
        /\ Raise(p)

WriteIntent(p) ==
  /\ pc[p] = "journal"
  /\ journal' = [journal EXCEPT ![op[p].item] =
                   [source |-> op[p].from, target |-> op[p].target]]
  /\ Goto(p, "rewrite")
  /\ UNCHANGED <<file, lease, lock, cycle, op, todo, held>>

(* _atomic_write(source, updated): it creates the entry when it has gone.  *)
RewriteEntry(p) ==
  /\ pc[p] = "rewrite"
  /\ file' = [file EXCEPT ![op[p].item][op[p].dir] = op[p].next]
  /\ \/ /\ InPlace(op[p])
        /\ Finish(p)
     \/ /\ ~InPlace(op[p])
        /\ Goto(p, "rename")
        /\ UNCHANGED <<op, lock>>
  /\ UNCHANGED <<journal, lease, cycle, todo, held>>

RenameEntry(p) ==
  /\ pc[p] = "rename"
  /\ LET o == op[p] IN
     \/ /\ file[o.item][o.dir] # NoRecord
        /\ Replace(o.item, o.dir, o.target)
        /\ Goto(p, "unjournal")
        /\ UNCHANGED <<journal, lease, lock, cycle, op, todo, held>>
     \/ /\ file[o.item][o.dir] = NoRecord
        /\ Raise(p)

(* journal.unlink(missing_ok=True); a claim is complete here. *)
RemoveIntent(p) ==
  /\ pc[p] = "unjournal"
  /\ journal' = [journal EXCEPT ![op[p].item] = NoIntent]
  /\ \/ /\ op[p].target = "RUNNING"
        /\ Finish(p)
        /\ held' = [held EXCEPT ![p] = @ \cup {op[p].item}]
     \/ /\ op[p].target # "RUNNING"
        /\ Goto(p, "unlease")
        /\ UNCHANGED <<op, lock, held>>
  /\ UNCHANGED <<file, lease, cycle, todo>>

RemoveLease(p) ==
  /\ pc[p] = "unlease"
  /\ lease' = [lease EXCEPT ![op[p].item] = NoLease]
  /\ Finish(p)
  /\ held' = [held EXCEPT ![p] = @ \ {op[p].item}]
  /\ UNCHANGED <<file, journal, cycle, todo>>

(* The lease of i is p's, unexpired, and i is RUNNING. *)
Renewable(p, i) ==
  /\ Loaded(i).status = "RUNNING"
  /\ lease[i].owner = p
  /\ lease[i].ttl > 0

(* The heartbeat and the publication lease guard. *)
Renew(p, i) ==
  /\ pc[p] = "serving"
  /\ i \in held[p]
  /\ lock[i] = Nobody
  /\ Renewable(p, i)
  /\ lease' = [lease EXCEPT ![i].ttl = LeaseTicks]
  /\ UNCHANGED <<file, journal, lock, cycle, pc, op, todo, held>>

(* A failed renewal cancels the execution and quarantines the item: one    *)
(* that is still RUNNING is moved to BLOCKED_TECHNICAL.                    *)
LoseLease(p, i) ==
  /\ pc[p] = "serving"
  /\ i \in held[p]
  /\ lock[i] = Nobody
  /\ ~Renewable(p, i)
  /\ held' = [held EXCEPT ![p] = @ \ {i}]
  /\ \/ /\ Loaded(i).status = "RUNNING"
        /\ Enter(p, i, "transition", "BLOCKED_TECHNICAL", "read")
     \/ /\ Loaded(i).status # "RUNNING"
        /\ UNCHANGED <<pc, op, lock>>
  /\ UNCHANGED <<disk, cycle, todo>>

(* An execution raises: the item stays RUNNING under its lease. *)
ExecutionRaises(p, i) ==
  /\ pc[p] = "serving"
  /\ i \in held[p]
  /\ held' = [held EXCEPT ![p] = @ \ {i}]
  /\ UNCHANGED <<disk, lock, cycle, pc, op, todo>>

(* gather has returned: no execution is left and the lock is released. *)
EndCycle(p) ==
  /\ pc[p] = "serving"
  /\ held[p] = {}
  /\ Goto(p, "off")
  /\ cycle' = Nobody
  /\ UNCHANGED <<disk, lock, op, todo, held>>

-----------------------------------------------------------------------------
(* The process dies between any two steps: its flocks and the controller   *)
(* lock are released, and its leases now name a dead process.              *)
Crash(p) ==
  /\ Abort(p)
  /\ lease' = [i \in Items |->
       IF lease[i].owner = p THEN [lease[i] EXCEPT !.owner = Dead]
       ELSE lease[i]]
  /\ UNCHANGED <<file, journal>>

(* Time passes for every lease. *)
Tick ==
  /\ \E i \in Items : lease[i].ttl > 0
  /\ lease' = [i \in Items |->
       IF lease[i].ttl > 0 THEN [lease[i] EXCEPT !.ttl = @ - 1] ELSE lease[i]]
  /\ UNCHANGED <<file, journal, lock, cycle, pc, op, todo, held>>

Recovery(p) ==
  \/ Inspect(p) \/ MoveEntry(p) \/ RetireIntent(p)
  \/ ListRunning(p) \/ EndRecovery(p)
  \/ \E i \in Items : ReadIntent(p, i) \/ RecoverClaim(p, i)

Locked(p) ==
  \/ WriteLease(p) \/ ReadEntry(p) \/ WriteIntent(p) \/ RewriteEntry(p)
  \/ RenameEntry(p) \/ RemoveIntent(p) \/ RemoveLease(p)

Serve(p) ==
  \/ \E i \in Items :
       \/ Put(p, i) \/ BeginTransition(p, i) \/ BeginClaim(p, i)
       \/ BeginBind(p, i) \/ BeginRefresh(p, i)
       \/ Renew(p, i) \/ LoseLease(p, i) \/ ExecutionRaises(p, i)
  \/ EndCycle(p)

Controller(p) == StartCycle(p) \/ Recovery(p) \/ Locked(p) \/ Serve(p)

(* Controllers alone, as the supervisor runs them. *)
Next == Tick \/ \E p \in Controllers : Controller(p) \/ Crash(p)

Spec == Init /\ [][Next]_vars

(* With `tcfactory recover` invoked beside a controller. *)
NextCli ==
  \/ Next
  \/ \E p \in Recoverers :
       StartRecover(p) \/ Recovery(p) \/ Locked(p) \/ Crash(p)

SpecCli == Init /\ [][NextCli]_vars

(* The supervisor restarts a stopped controller, a process that is inside  *)
(* initialize or an operation keeps executing, and a cycle ends (every     *)
(* session has a wall-time limit, and a cycle has finitely many).          *)
Fairness == \A p \in Controllers :
  /\ WF_vars(StartCycle(p) \/ Recovery(p) \/ Locked(p))
  /\ SF_vars(EndCycle(p))

FairSpec == Spec /\ Fairness

-----------------------------------------------------------------------------
(* The type of every variable. *)
TypeOK ==
  /\ file \in [Items -> [WorkStatus -> Record \cup {NoRecord}]]
  /\ journal \in [Items -> Intent \cup {NoIntent}]
  /\ lease \in [Items -> Lease \cup {NoLease}]
  /\ lock \in [Items -> Procs \cup {Nobody}]
  /\ cycle \in Controllers \cup {Nobody}
  /\ pc \in [Procs -> Steps]
  /\ op \in [Procs -> Operation]
  /\ todo \in [Procs -> SUBSET Items]
  /\ held \in [Procs -> SUBSET Items]

(* No crash and no interleaving leaves an item in two state directories:   *)
(* locate (queue.py) never has two entries to choose from.                 *)
SingleEntry ==
  \A i \in Items : \A s, t \in WorkStatus :
    file[i][s] # NoRecord /\ file[i][t] # NoRecord => s = t

(* An entry whose embedded status is not that of its directory is always   *)
(* covered by the intent that names exactly this move, so a crash between  *)
(* the rewrite and the rename of _transition_owned can be completed.       *)
WriteAhead ==
  \A i \in Items : \A s \in WorkStatus :
    file[i][s] # NoRecord /\ file[i][s].status # s =>
      journal[i] = [source |-> s, target |-> file[i][s].status]

(* RUNNING work always has a lease on disk, through claim, crash, recovery *)
(* and every release: ownership is never unrecorded.                       *)
RunningIsLeased ==
  \A i \in Items : Loaded(i).status = "RUNNING" => lease[i] # NoLease

(* An item being executed is RUNNING under the executing controller's own  *)
(* lease, except while that controller itself is moving it, and only the   *)
(* owner of the controller lock executes anything.                         *)
ExecutionIsOwned ==
  \A p \in Controllers : \A i \in held[p] :
    /\ cycle = p
    /\ lease[i].owner = p
    /\ lock[i] # p => Loaded(i).status = "RUNNING"

(* What is on disk between any two steps is well-formed and can be         *)
(* recovered: one entry, and an intent for every entry that is not where   *)
(* it says (_transition_owned, reconcile_transactions).                    *)
EntryIsRecoverable == TypeOK /\ SingleEntry /\ WriteAhead

(* Nothing is executed, or RUNNING, that nobody owns, through claim,       *)
(* crash, recovery and release (claim, recover_interrupted).               *)
RunningIsOwned == RunningIsLeased /\ ExecutionIsOwned

(* recover_interrupted preserves every live lease: beside a `tcfactory     *)
(* recover`, an execution whose own lease has not expired still has a      *)
(* RUNNING entry (unless it is moving it itself).  True until two          *)
(* invocations of it overlap, and false after that (V3QueueBeside).        *)
LiveLeaseIsPreserved ==
  \A p \in Controllers : \A i \in held[p] :
    /\ lease[i].owner = p
    /\ lease[i].ttl > 0
    /\ lock[i] # p
    => \E s \in WorkStatus : file[i][s].status = "RUNNING"

(* An intent written by a process that died before the rewrite: no branch  *)
(* of reconcile_transactions accepts it.                                   *)
Wedged ==
  \E i \in Items :
    /\ journal[i] # NoIntent
    /\ file[i][journal[i].source].status = journal[i].source
    /\ \A p \in Procs : lock[i] # p

(* The claim of a dead controller is eventually taken back by the restart, *)
(* as long as no intent is wedged and from some point on every step that   *)
(* looks like a crash is one the program takes itself (the return of a     *)
(* cycle has the effect of a crash with nothing in hand).                  *)
DeadClaim(i) == Loaded(i).status = "RUNNING" /\ lease[i].owner = Dead
DeadClaimsAreRecovered ==
  <>[][\A p \in Controllers : Crash(p) => Controller(p)]_vars =>
    \A i \in Items : DeadClaim(i) ~> (~DeadClaim(i) \/ Wedged)

(* The queue implements the atomic life cycle: the logical record of an    *)
(* item is the one its entry embeds, wherever that entry is.               *)
Entry(i) ==
  IF Paths(i) = {} THEN NoRecord
  ELSE file[i][CHOOSE s \in WorkStatus : file[i][s] # NoRecord]

Lifecycle == INSTANCE WorkItemLifecycle
               WITH record <- [i \in Items |-> Entry(i)]
LifecycleSpec == Lifecycle!Spec
=============================================================================
