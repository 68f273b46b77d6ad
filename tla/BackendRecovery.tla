-------------------------- MODULE BackendRecovery --------------------------
(***************************************************************************)
(* backend_recovery.py: the start of a V3 cycle reopens an item that was   *)
(* blocked by a failure of the agent runtime which a newer installed       *)
(* snapshot has repaired.  The failed checkpoint and its previous          *)
(* generation are archived under a journal named after the installed main, *)
(* removed, and the item goes from BLOCKED_TECHNICAL to READY.  A journal  *)
(* that is not COMMITTED is resumed by the next cycle; what raises here    *)
(* ends the cycle, every later phase included.                             *)
(*                                                                         *)
(* One blocked item is followed.  A journal binds the digest of the item   *)
(* the controller passes, and _runtime_collection passes the queue's       *)
(* record: "touched" says that the record was rewritten since.             *)
(***************************************************************************)
EXTENDS Integers, Sequences, FiniteSets

CONSTANTS
  MaxInstalled,   \* bound: installed snapshots, the failed one being the first
  MaxFaults       \* bound: deaths, failed calls and other faults

ASSUME RecoveryAssumption == MaxInstalled \in Nat \ {0} /\ MaxFaults \in Nat

VARIABLES
  installed,  \* main of the installed snapshot
  block,      \* the blocked item, its checkpoint files and the journal of "installed"
  kept,       \* checkpoint files archived under earlier snapshots
  phase,      \* of the cycle: "recover" then "promote"
  faults

recoveryVars == <<installed, block, kept>>

(* path_for and its ".previous" beside it, in the order they are handled. *)
CheckpointFiles == <<"active", "previous">>

FirstFiles(k) == {CheckpointFiles[i] : i \in {j \in 1 .. 2 : j <= k}}

(* The item without a journal of the installed snapshot.  The candidate of *)
(* its failed checkpoint is the main its generation started from, 1 when   *)
(* that is the first snapshot, or a commit of its own, 0.                  *)
Unjournaled(candidate, status, files) ==
  [journal |-> "none", bound |-> {}, archive |-> {}, touched |-> FALSE,
   candidate |-> candidate, status |-> status, files |-> files]

RecoveryInit ==
  /\ installed = 1
  /\ \E candidate \in {0, 1}, files \in {{"active"}, {"active", "previous"}} :
       block = Unjournaled(candidate, "BLOCKED_TECHNICAL", files)
  /\ kept = {}

(* A new snapshot starts a recovery directory of its own. *)
InstallSnapshot ==
  /\ installed < MaxInstalled
  /\ installed' = installed + 1
  /\ kept' = kept \cup block.archive
  /\ block' = Unjournaled(block.candidate, block.status, block.files)
  /\ UNCHANGED <<phase, faults>>

(* _eligible with _bound_backend_result, for a failure of the kind that is *)
(* repaired: its checkpoint is in place, and its candidate is not the main *)
(* of the installed snapshot.                                              *)
MatchesRepairedFailure ==
  "active" \in block.files /\ block.candidate # installed

(* The first k of the four writes that prepare a recovery: the PREPARED    *)
(* journal, the two archives and the ARCHIVED journal.                     *)
Prepare(k) ==
  [block EXCEPT
     !.bound   = IF k = 0 THEN {} ELSE block.files,
     !.archive = block.files \cap FirstFiles(k - 1),
     !.journal = IF k = 0 THEN "none" ELSE IF k = 4 THEN "ARCHIVED" ELSE "PREPARED"]

(* Fault variant of FinishRecovery: the item is reopened before the failed *)
(* checkpoint is removed.                                                  *)
FinishRecoveryReopenFirst(b, k) ==
  [b EXCEPT
     !.touched = @ \/ (k >= 1 /\ b.status = "BLOCKED_TECHNICAL"),
     !.status  = IF k >= 2 THEN "READY" ELSE @,
     !.files   = @ \ FirstFiles(k - 2),
     !.journal = IF k = 5 THEN "COMMITTED" ELSE @]

(* _finish_recovery: the first k of its steps, which unlink the two        *)
(* checkpoint files, refresh the record from the authority, make it READY  *)
(* and commit the journal.                                                 *)
FinishRecovery(b, k) ==
  [b EXCEPT
     !.files   = @ \ FirstFiles(k),
     !.touched = @ \/ (k >= 3 /\ b.status = "BLOCKED_TECHNICAL"),
     !.status  = IF k >= 4 THEN "READY" ELSE @,
     !.journal = IF k = 5 THEN "COMMITTED" ELSE @]

(* The number of files _finish_recovery unlinks before it meets one that   *)
(* was never archived; 2 when all are.                                     *)
Archived(b) ==
  IF b.bound \subseteq b.archive THEN 2
  ELSE IF "active" \in b.archive THEN 1 ELSE 0

(* recover_repaired_claude_sandbox_blocks meets a journal to resume, or an *)
(* item to recover.                                                        *)
Resuming == block.journal \in {"PREPARED", "ARCHIVED"}

Starting == /\ block.journal = "none" /\ block.status = "BLOCKED_TECHNICAL"
            /\ MatchesRepairedFailure

(* It raises when the record is not the one the journal binds, or a file   *)
(* to unlink was never archived.                                           *)
Raises == Resuming /\ (block.touched \/ Archived(block) < 2)

(* What the call leaves, as the controller calls it. *)
RecoveredBlock ==
  IF Resuming /\ ~block.touched
  THEN FinishRecovery(block, IF Archived(block) < 2 THEN Archived(block) ELSE 5)
  ELSE IF Starting THEN FinishRecovery(Prepare(4), 5)
  ELSE block

(* Where a death may leave the same call. *)
RecoveryDeaths ==
  IF Starting
  THEN {Prepare(k) : k \in 1 .. 4} \cup {FinishRecovery(Prepare(4), k) : k \in 1 .. 4}
  ELSE IF Resuming /\ ~Raises
  THEN {FinishRecovery(block, k) : k \in 1 .. 4}
  ELSE {}

RecoverBlocks ==
  /\ phase = "recover"
  /\ block' = RecoveredBlock
  /\ phase' = IF Raises THEN "recover" ELSE "promote"
  /\ UNCHANGED <<installed, kept, faults>>

DieInRecovery ==
  /\ phase = "recover" /\ faults < MaxFaults
  /\ block' \in RecoveryDeaths
  /\ faults' = faults + 1
  /\ UNCHANGED <<installed, kept, phase>>

(* An interrupted recovery that every later cycle of this snapshot raises  *)
(* on, before it does anything else.                                       *)
Wedged == Raises
============================================================================
