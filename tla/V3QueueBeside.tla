--------------------------- MODULE V3QueueBeside ---------------------------
(***************************************************************************)
(* `tcfactory recover` beside a running controller (cli.py), as often as   *)
(* anybody types it.  Nothing keeps two invocations from overlapping, so   *)
(* what recover_interrupted promises is stated of every behaviour of       *)
(* V3Queue!SpecCli up to the first overlap; LiveLeaseIsPreserved itself is *)
(* false once two invocations have overlapped.                             *)
(***************************************************************************)
EXTENDS V3Queue

VARIABLE overlapped   \* history: two invocations have been under way at once

(* No two invocations are under way. *)
NoOverlap == \A r, s \in Recoverers : pc[r] # "off" /\ pc[s] # "off" => r = s

NextBeside == NextCli /\ overlapped' = (overlapped \/ ~NoOverlap')

SpecBeside ==
  Init /\ overlapped = FALSE /\ [][NextBeside]_<<vars, overlapped>>

(* Until two invocations overlap, a live claim keeps its RUNNING entry     *)
(* whatever a recovery beside its controller reads, decides and moves, and *)
(* wherever either of them dies (recover_interrupted).                     *)
LiveLeaseSurvivesRecovery == ~overlapped => LiveLeaseIsPreserved

(* Where LiveLeaseSurvivesRecovery says something. *)
NotYet == ~overlapped
=============================================================================
