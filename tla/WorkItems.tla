----------------------------- MODULE WorkItems -----------------------------
(***************************************************************************)
(* The vocabulary of a V3 work item: its statuses, the table of legal      *)
(* status transitions, and the evidence rule the WorkItem validator        *)
(* applies to every record before it is written.                           *)
(* Source: src/tcfactory/v3/enums.py and src/tcfactory/v3/work_items.py.   *)
(***************************************************************************)

WorkStatus ==
  {"PROPOSED", "READY", "QUEUED", "RUNNING", "PAUSED_QUOTA",
   "PAUSED_BACKEND", "WAITING_EXTERNAL", "BLOCKED_TECHNICAL",
   "BLOCKED_POLICY", "PASSED_ENGINEERING", "REJECTED_VALUE",
   "NATIVE_SUFFICIENT", "DEFERRED", "SUPERSEDED", "COMPLETED", "CANCELLED"}

(* The statuses a record may move to from status s; a status that is not   *)
(* listed is final.                                                        *)
ALLOWED_TRANSITIONS ==
  [s \in WorkStatus |->
    CASE s = "PROPOSED" ->
           {"READY", "WAITING_EXTERNAL", "PASSED_ENGINEERING",
            "BLOCKED_POLICY", "REJECTED_VALUE", "NATIVE_SUFFICIENT",
            "DEFERRED", "SUPERSEDED", "CANCELLED"}
      [] s = "READY" ->
           {"QUEUED", "WAITING_EXTERNAL", "BLOCKED_TECHNICAL",
            "BLOCKED_POLICY", "DEFERRED", "CANCELLED"}
      [] s = "QUEUED" ->
           {"RUNNING", "PAUSED_QUOTA", "PAUSED_BACKEND",
            "BLOCKED_TECHNICAL", "CANCELLED"}
      [] s = "RUNNING" ->
           {"PAUSED_QUOTA", "PAUSED_BACKEND", "WAITING_EXTERNAL",
            "BLOCKED_TECHNICAL", "BLOCKED_POLICY", "PASSED_ENGINEERING",
            "READY", "REJECTED_VALUE", "NATIVE_SUFFICIENT", "DEFERRED",
            "CANCELLED"}
      [] s = "PAUSED_QUOTA" -> {"QUEUED", "CANCELLED"}
      [] s = "PAUSED_BACKEND" -> {"READY", "BLOCKED_TECHNICAL", "CANCELLED"}
      [] s = "WAITING_EXTERNAL" ->
           {"READY", "PASSED_ENGINEERING", "REJECTED_VALUE",
            "NATIVE_SUFFICIENT", "DEFERRED", "CANCELLED"}
      [] s \in {"BLOCKED_TECHNICAL", "BLOCKED_POLICY"} ->
           {"READY", "DEFERRED", "CANCELLED"}
      [] s = "PASSED_ENGINEERING" ->
           {"COMPLETED", "WAITING_EXTERNAL", "REJECTED_VALUE",
            "NATIVE_SUFFICIENT", "DEFERRED"}
      [] s = "DEFERRED" -> {"PROPOSED", "CANCELLED"}
      [] OTHER -> {}]

(* assert_status_transition: the table is the only authority.              *)
LegalTransition(current, target) == target \in ALLOWED_TRANSITIONS[current]

(* The statuses external-receipt work may not be recorded in before a      *)
(* receipt reference is bound to it.                                       *)
EvidenceGated ==
  {"READY", "QUEUED", "RUNNING", "PASSED_ENGINEERING", "COMPLETED"}

(* The part of a queue record the properties tell apart: its embedded      *)
(* status and whether an external receipt is bound.  NoRecord stands for   *)
(* an absent file.                                                         *)
Record == [status : WorkStatus, bound : BOOLEAN]

NoRecord == [status |-> "ABSENT", bound |-> FALSE]

(* The WorkItem validator, for an item that does (external) or does not    *)
(* require an external receipt.                                            *)
ValidRecord(external, r) ==
  external /\ r.status \in EvidenceGated => r.bound
=============================================================================
