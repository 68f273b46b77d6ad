----------------------------- MODULE MC_V3Queue -----------------------------
(* Instances of V3Queue for TLC. *)
EXTENDS V3Queue, TLC

CONSTANTS i1, c1, c2, r1, r2

OneItem == {i1}
OneController == {c1}
TwoControllers == {c1, c2}
TwoRecoverers == {r1, r2}
NoProc == {}
NoItem == {}

(* The statuses of the entries of factory/roadmap/work_items.yaml that     *)
(* initialize puts.                                                        *)
Roadmap == {"PROPOSED", "WAITING_EXTERNAL", "BLOCKED_POLICY",
            "PASSED_ENGINEERING"}
JustProposed == {"PROPOSED"}

AllTargets == WorkStatus \ {"RUNNING"}
FewTargets == {"READY", "QUEUED", "BLOCKED_TECHNICAL", "PASSED_ENGINEERING"}

(* Two invocations of `recover` are alike. *)
Invocations == Permutations(TwoRecoverers)
=============================================================================
