------------------------ MODULE MC_VerifierHost ------------------------
(* Small instances of the verifier's host for TLC. *)
EXTENDS VerifierHost

CONSTANTS t1, t2

(* The first suite is refuted by an oracle, the second is sound. *)
MCSuiteGrades == <<"oracle", "sound">>

TwoTx == {t1, t2}

(* Bounds: the names of the transactions have any order where something    *)
(* reads it, and a foreign commit does not come together with a failure,   *)
(* nor does the last suite grow old in a behaviour with a fault.           *)
OneDisturbance ==
  /\ focus = "anchor" \/ order[1] = t1
  /\ foreign = 0 \/ failures = 0
  /\ aged < MaxSuites \/ faults = 0

=============================================================================
