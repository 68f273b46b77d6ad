---------------------------- MODULE MC_Controller ----------------------------
(* The instance of Controller for TLC: every kind of work.  The budgets in *)
(* Controller.cfg are those of factory/roadmap/work_items.yaml and         *)
(* config/autonomy.yaml (plan 2, restarts 1, same finding 2, redesigns 1), *)
(* with one repair in place of two.                                        *)
EXTENDS Controller

AllWork == AllKinds

(* Bound: main is moved by others only under two kinds of work (a failure  *)
(* as well only under one), without a lost lease and before another        *)
(* snapshot is installed.                                                  *)
MovesAlone ==
  \/ moves = 0
  \/ /\ snapshots = 1 /\ losses = 0
     /\ kind = "code" \/ (kind = "market" /\ crashes = 0)
=============================================================================
