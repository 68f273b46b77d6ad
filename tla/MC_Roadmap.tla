---------------------------- MODULE MC_Roadmap ----------------------------
(* A roadmap for TLC, with the lane limits of config/scheduler.yaml: M0    *)
(* bootstraps the migration; M1 has trust work, external evidence and a    *)
(* policy review; M2 has product work, which M1 leaves open while it waits *)
(* for others.                                                             *)
EXTENDS Roadmap

Item(l, k, m, d) ==
  [lane |-> l, kind |-> k, milestone |-> m, deps |-> d,
   receipt |-> k = "EXTERNAL_EVIDENCE", review |-> k = "MACHINE_POLICY_REVIEW",
   automatable |-> k \notin {"EXTERNAL_EVIDENCE", "MACHINE_POLICY_REVIEW"},
   blocks |-> l = "TRUST", risky |-> l = "TRUST"]

ThreeMilestones ==
  <<Item("FACTORY", "MIGRATION", 0, {}),
    Item("TRUST", "SPECIFICATION", 1, {}),
    Item("MARKET", "EXTERNAL_EVIDENCE", 1, {}),
    Item("TRUST", "MACHINE_POLICY_REVIEW", 1, {2}),
    Item("PRODUCT", "CODE", 2, {})>>

(* One milestone with trust work and its review beside product work.       *)
ReviewAndProduct ==
  <<Item("TRUST", "SPECIFICATION", 0, {}),
    Item("TRUST", "MACHINE_POLICY_REVIEW", 0, {1}),
    Item("PRODUCT", "CODE", 0, {}),
    Item("PRODUCT", "CODE", 0, {}),
    Item("PRODUCT", "CODE", 0, {})>>

NothingElse == [m \in 0..1 |-> {}]

ShippedLimits ==
  [l \in Lanes |-> [mutating |-> IF l \in {"PRODUCT", "TRUST"} THEN 1 ELSE 0,
                    readOnly |-> 1]]

OpenWhileWaiting ==
  [m \in 0..2 |-> IF m = 1 THEN {"PRODUCT", "FACTORY"} ELSE {}]

ExitCriteria == [m \in 0..2 |-> IF m = 1 THEN {1} ELSE {}]
=============================================================================
