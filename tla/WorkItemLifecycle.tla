------------------------- MODULE WorkItemLifecycle -------------------------
(***************************************************************************)
(* What the queue promises its callers: every item has one logical record; *)
(* it is put once, gains a receipt binding, and moves atomically along the *)
(* table of legal transitions, always passing the WorkItem validator.  No  *)
(* crash, lease or journal is visible at this level.  V3Queue implements   *)
(* this specification.                                                     *)
(***************************************************************************)
EXTENDS WorkItems

CONSTANTS Items,          \* work item identifiers
          ExternalItems,  \* the items with external_receipt_required
          RoadmapStatus   \* the statuses a roadmap item may be put with

VARIABLE record           \* the logical record of every item

Init == record = [i \in Items |-> NoRecord]

(* V3Queue.put: a new item enters once. *)
Put(i) ==
  /\ record[i] = NoRecord
  /\ \E s \in RoadmapStatus :
       LET r == [status |-> s, bound |-> FALSE] IN
       /\ ValidRecord(i \in ExternalItems, r)
       /\ record' = [record EXCEPT ![i] = r]

(* V3Queue.bind_external_evidence. *)
Bind(i) ==
  /\ record[i] # NoRecord
  /\ i \in ExternalItems
  /\ record' = [record EXCEPT ![i].bound = TRUE]

(* V3Queue.transition, claim and recover_expired_claims. *)
Move(i) ==
  /\ record[i] # NoRecord
  /\ \E t \in ALLOWED_TRANSITIONS[record[i].status] :
       LET r == [record[i] EXCEPT !.status = t] IN
       /\ ValidRecord(i \in ExternalItems, r)
       /\ record' = [record EXCEPT ![i] = r]

Next == \E i \in Items : Put(i) \/ Bind(i) \/ Move(i)

Spec == Init /\ [][Next]_record
=============================================================================
