------------------------- MODULE EvidenceAuthority -------------------------
(***************************************************************************)
(* The authority behind external evidence (external_evidence_authority.py, *)
(* external_evidence.py) and the V3 controller's two uses of its payload:  *)
(* the snapshot bound to a candidate when a report names a receipt, and    *)
(* the same snapshot read again at the publication boundary.               *)
(*                                                                         *)
(* A receipt is judged by a signed revocation list and a signed anchor in  *)
(* the trusted root, and by the broker's monotonic ledger.  Their contents *)
(* are their epoch.  Root replaces the files of the trusted root one at a  *)
(* time, at any time; the controller reads them one at a time.             *)
(***************************************************************************)
EXTENDS Integers, Sequences, FiniteSets

CONSTANTS
  MaxEpoch,         \* bound: epochs of the authority
  RevokedFrom,      \* the first epoch whose list revokes the candidate's receipt
  MaxReadFaults     \* bound: restored files, deaths of the broker or the reader

ASSUME AuthorityAssumption ==
  MaxEpoch \in Nat \ {0} /\ RevokedFrom \in Nat \ {0} /\ MaxReadFaults \in Nat

VARIABLES
  staged,      \* epoch of the staged signed snapshot
  root,        \* epoch of each file of the trusted root
  ledger,      \* current epoch of the ledger, 0 for none, Torn
  release,     \* the candidate: "open", "bound", "checked", "published", "blocked"
  frozen,      \* the authority snapshot bound to the candidate
  reader,      \* the controller's read in progress
  readFaults

authorityVars == <<staged, root, ledger, release, frozen, reader, readFaults>>

Torn == -1

(* The parts of a payload that a rotation changes, in the order in which   *)
(* they are read.                                                          *)
Parts == <<"list", "anchor", "ledger">>

NoSnapshot == [p \in {"list", "anchor", "ledger"} |-> 0]

Idle == [at |-> 0, first |-> 0, snap |-> NoSnapshot]

AuthorityInit ==
  /\ staged = 1
  /\ root = [f \in {"list", "anchor"} |-> 1]
  /\ ledger \in {0, 1}
  /\ release = "open"
  /\ frozen = NoSnapshot
  /\ reader = Idle
  /\ readFaults = 0

StageAuthority ==
  /\ staged < MaxEpoch
  /\ staged' = staged + 1
  /\ UNCHANGED <<root, ledger, release, frozen, reader, readFaults>>

(* Root copies a staged file to the trusted root, or restores old ones,    *)
(* also while they are read: a file that goes to a newer epoch and back    *)
(* between two comparisons passes for unchanged.                           *)
InstallFile ==
  \E f \in DOMAIN root :
    /\ root[f] < staged
    /\ root' = [root EXCEPT ![f] = staged]
    /\ UNCHANGED <<staged, ledger, release, frozen, reader, readFaults>>

RestoreFiles ==
  /\ readFaults < MaxReadFaults
  /\ \E e \in 1 .. staged - 1 : root' = [f \in DOMAIN root |-> e]
  /\ readFaults' = readFaults + 1
  /\ UNCHANGED <<staged, ledger, release, frozen, reader>>

(* promote_signed_snapshot: the first snapshot founds the ledger, which a  *)
(* death may leave torn; the next one extends it under the lock.  Any      *)
(* other, the current one included, is refused.                            *)
Genesis ==
  /\ staged = 1 /\ ledger = 0
  /\ \/ ledger' = 1 /\ UNCHANGED readFaults
     \/ readFaults < MaxReadFaults /\ readFaults' = readFaults + 1 /\ ledger' = Torn

Rotate ==
  /\ staged > 1 /\ ledger # Torn /\ staged = ledger + 1
  /\ ledger' = staged
  /\ UNCHANGED readFaults

PromoteSnapshot ==
  /\ Genesis \/ Rotate
  /\ UNCHANGED <<staged, root, release, frozen, reader>>

----------------------------------------------------------------------------
(* load_verified_external_evidence_payload reads the parts four times: to  *)
(* verify, to take the snapshot, to verify again, and to compare.          *)

Reading(n) == Parts[((n - 1) % 3) + 1]

Pass(n) == ((n - 1) \div 3) + 1

Value(part) == IF part = "ledger" THEN ledger ELSE root[part]

(* Fault variant of Verifies: the ledger is not consulted. *)
VerifiesFiles(part, value) ==
  CASE part = "list" -> TRUE
    [] part = "anchor" -> value = reader.first
    [] OTHER -> reader.first < RevokedFrom

(* load_verified_external_evidence: list, anchor and ledger name one       *)
(* epoch, and its list does not revoke the receipt.                        *)
Verifies(part, value) ==
  CASE part = "list" -> TRUE
    [] part = "anchor" -> value = reader.first
    [] OTHER -> value = reader.first /\ reader.first < RevokedFrom

(* The comparison of current_payloads with authority_payloads. *)
Unchanged(part, value) == value = reader.snap[part]

Accepts(n) ==
  LET part == Reading(n) IN
  CASE Pass(n) \in {1, 3} -> Verifies(part, Value(part))
    [] Pass(n) = 2 -> TRUE
    [] OTHER -> Unchanged(part, Value(part))

BeginRead ==
  /\ reader.at = 0 /\ release \in {"open", "bound"}
  /\ reader' = [Idle EXCEPT !.at = 1]
  /\ UNCHANGED <<staged, root, ledger, release, frozen, readFaults>>

ReadPart ==
  LET n == reader.at
      part == Reading(n)
  IN /\ n \in 1 .. 11 /\ Accepts(n)
     /\ reader' = [at    |-> n + 1,
                   first |-> IF Pass(n) \in {1, 3} /\ part = "list" THEN Value(part)
                                                                   ELSE reader.first,
                   snap  |-> IF Pass(n) = 2 THEN [reader.snap EXCEPT ![part] = Value(part)]
                                            ELSE reader.snap]
     /\ UNCHANGED <<staged, root, ledger, release, frozen, readFaults>>

(* A report's receipt: the accepted payload is bound to the checkpoint.    *)
BindEvidence ==
  /\ reader.at = 12 /\ Accepts(12) /\ release = "open"
  /\ release' = "bound"
  /\ frozen' = reader.snap
  /\ reader' = Idle
  /\ UNCHANGED <<staged, root, ledger, readFaults>>

(* _reverify_external_evidence, at the publication boundary and when a     *)
(* prepared publication is recovered: another snapshot taints the item.    *)
ReverifyEvidence ==
  /\ reader.at = 12 /\ Accepts(12) /\ release = "bound"
  /\ release' = IF reader.snap = frozen THEN "checked" ELSE "blocked"
  /\ reader' = Idle
  /\ UNCHANGED <<staged, root, ledger, frozen, readFaults>>

(* Other evidence is verified and the candidate's tree compared, and then  *)
(* the publisher is called; nothing holds the authority still meanwhile.   *)
(* A publisher that awaits checks has pushed nothing, and the evidence is  *)
(* verified again before it is called again.                               *)
PublishChecked ==
  /\ release = "checked"
  /\ release' \in {"published", "bound"}
  /\ UNCHANGED <<staged, root, ledger, frozen, reader, readFaults>>

(* Either use fails closed: BLOCKED_POLICY. *)
RefuseEvidence ==
  /\ reader.at \in 1 .. 12 /\ ~Accepts(reader.at)
  /\ release' = "blocked"
  /\ reader' = Idle
  /\ UNCHANGED <<staged, root, ledger, frozen, readFaults>>

(* The controller dies while it reads, or before it publishes; a restart   *)
(* reads from the start.                                                   *)
DieReading ==
  /\ reader.at > 0 \/ release = "checked"
  /\ readFaults < MaxReadFaults
  /\ reader' = Idle
  /\ release' = IF release = "checked" THEN "bound" ELSE release
  /\ readFaults' = readFaults + 1
  /\ UNCHANGED <<staged, root, ledger, frozen>>

AuthorityNext ==
  \/ StageAuthority \/ InstallFile \/ RestoreFiles \/ PromoteSnapshot
  \/ BeginRead \/ ReadPart \/ BindEvidence \/ ReverifyEvidence \/ PublishChecked
  \/ RefuseEvidence \/ DieReading

----------------------------------------------------------------------------
Bound == release \in {"bound", "checked", "published"}

(* The authority snapshot bound to a candidate was in force at one time:   *)
(* unless a file was restored, its parts name one epoch, although the      *)
(* files and the ledger move on between any two of the reads               *)
(* (load_verified_external_evidence_payload).                              *)
SnapshotIsOneEpoch ==
  Bound /\ readFaults = 0 => \E e \in 1 .. MaxEpoch : \A p \in DOMAIN frozen : frozen[p] = e

(* Its part of the ledger does not revoke the receipt, whatever was        *)
(* restored while it was read.                                             *)
LedgerVouches == Bound => frozen["ledger"] \in 1 .. RevokedFrom - 1

(* What is bound to a candidate, and so what it is published on, was in    *)
(* force at one time; and whatever files are in the trusted root, the      *)
(* check before the publication passes only while the ledger's current     *)
(* epoch is the bound one (_reverify_external_evidence,                    *)
(* load_verified_external_evidence).  A revocation after the check does    *)
(* not stop the publication.                                               *)
EvidenceIsCurrent ==
  [][ /\ SnapshotIsOneEpoch' /\ LedgerVouches'
      /\ release = "bound" /\ release' = "checked" => ledger = frozen["ledger"]
      /\ release' = "published" => release \in {"checked", "published"}
    ]_authorityVars
============================================================================
