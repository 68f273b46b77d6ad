------------------------------ MODULE Research ------------------------------
(***************************************************************************)
(* Controlled research (source_acquisition.py, phase6_runtime.py and the   *)
(* part of the V3 controller's _execute that a research item goes through).*)
(*                                                                         *)
(* Every execution, a resumed one included, first retrieves the sources of *)
(* the preregistered plan into a content-addressed store and resolves them *)
(* to a verdict per claim; the advisory is then copied to an evidence      *)
(* directory that must not exist yet, its files are bound to the           *)
(* checkpoint, the agent works from it, and it is verified again before a  *)
(* publication is prepared and when a prepared one is resumed.             *)
(*                                                                         *)
(* A document is what its parser reads in it: a verdict for each claim it  *)
(* speaks of.  The sites are the environment: a retrieval meets any        *)
(* document, or none.  The agent's work is one step.                       *)
(***************************************************************************)
EXTENDS Integers, Sequences, FiniteSets

CONSTANTS
  Plan,               \* for each source, in order, the claims it is asked about
  Claims,             \* the claims of the plan
  Documents,          \* documents a site may serve
  MaxPlanning,        \* maxPlanAttempts of the item
  MaxResearchFaults,  \* bound: deaths of the controller, pending publications
  MaxResearchMain     \* bound: moves of main

ASSUME ResearchAssumption ==
  /\ Plan \in Seq(SUBSET Claims)
  /\ {MaxPlanning, MaxResearchFaults, MaxResearchMain} \subseteq Nat

VARIABLES
  stem,        \* the commit at the head of main
  planned,     \* the main commit the installed plan names
  objects,     \* documents in the store: "none", "torn", "whole"
  research,    \* status of the work item
  at,          \* where the execution is
  advisory,    \* the documents of this execution's advisory
  folders,     \* evidence directories under the checkpoint's artifact root
  ckpt,        \* the item's checkpoint
  researchFaults

researchVars ==
  <<stem, planned, objects, research, at, advisory, folders, ckpt, researchFaults>>

Sources == 1 .. Len(Plan)
NoDocument == [c \in {} |-> "UNKNOWN"]
Nothing == << >>
Partial == <<"partial">>
NoCheckpoint == [gen |-> 0, state |-> "none", on |-> 0, plans |-> MaxPlanning,
                 bound |-> 0, done |-> FALSE, tx |-> FALSE]
Generations == 1 .. MaxPlanning + 1

ResearchInit ==
  /\ stem = 0 /\ planned = 0
  /\ objects = [d \in Documents |-> "none"]
  /\ research = "READY" /\ at = "idle"
  /\ advisory = Nothing
  /\ folders = [g \in Generations |-> Nothing]
  /\ ckpt = NoCheckpoint
  /\ researchFaults = 0

Fault == researchFaults < MaxResearchFaults /\ researchFaults' = researchFaults + 1

----------------------------------------------------------------------------
(* BoundedJsonClaimParser.parse: the results cover exactly the claims the  *)
(* source was asked about.                                                 *)
Parses(s, document) == DOMAIN document = Plan[s]

(* What the parsed sources say of a claim. *)
Verdicts(docs, c) == {docs[s][c] : s \in {s \in Sources : c \in Plan[s]}}

(* Fault variant of ClaimVerdict: one source that clears a claim is enough. *)
ClaimVerdictAny(docs, c) ==
  LET verdicts == Verdicts(docs, c) IN
  IF "CONFLICT" \in verdicts THEN "CONFLICT"
  ELSE IF "CLEAR" \in verdicts THEN "CLEAR" ELSE "UNKNOWN"

(* resolve_research_report: a claim's finding. *)
ClaimVerdict(docs, c) ==
  LET verdicts == Verdicts(docs, c) IN
  CASE "CONFLICT" \in verdicts -> "CONFLICT"
    [] verdicts = {"CLEAR"} -> "CLEAR"
    [] OTHER -> "UNKNOWN"

(* _overall_verdict. *)
OverallVerdict(docs) ==
  LET found == {ClaimVerdict(docs, c) : c \in Claims} IN
  IF "CONFLICT" \in found THEN "CONFLICT"
  ELSE IF "UNKNOWN" \in found THEN "UNKNOWN" ELSE "CLEAR"

(* A source that cannot be retrieved, or whose object in the store is not  *)
(* its exact bytes, ends the acquisition (acquire, _publish_raw).          *)
Retrievable(document) == document # NoDocument /\ objects[document] # "torn"

(* The sources before the first one that cannot be retrieved. *)
Acquired(docs) ==
  {s \in Sources : \A r \in 1 .. s : Retrievable(docs[r])}

(* resolve_research_report after a complete acquisition: a parser that     *)
(* fails, a control that disagrees and an inconclusive claim are UNKNOWN.  *)
Conclusive(docs, controlled) ==
  /\ \A s \in Sources : Parses(s, docs[s])
  /\ OverallVerdict(docs) # "UNKNOWN"
  /\ controlled

Stored(docs) ==
  [d \in Documents |-> IF \E s \in Acquired(docs) : docs[s] = d THEN "whole" ELSE objects[d]]

(* prepare_research_advisory.  Any failure leaves WAITING_EXTERNAL. *)
PrepareAdvisory ==
  /\ at = "idle" /\ research = "READY"
  /\ UNCHANGED <<stem, planned, folders, ckpt, researchFaults>>
  /\ \/ /\ stem # planned
        /\ research' = "WAITING_EXTERNAL"
        /\ UNCHANGED <<objects, at, advisory>>
     \/ /\ stem = planned
        /\ \E docs \in [Sources -> Documents \cup {NoDocument}], controlled \in BOOLEAN :
             /\ objects' = Stored(docs)
             /\ IF Acquired(docs) = Sources /\ Conclusive(docs, controlled)
                THEN at' = "prepared" /\ advisory' = docs /\ UNCHANGED research
                ELSE research' = "WAITING_EXTERNAL" /\ UNCHANGED <<at, advisory>>

(* The controller dies while it writes an object that was not there. *)
DieInStore ==
  /\ at = "idle" /\ research = "READY" /\ stem = planned
  /\ Fault
  /\ \E d \in Documents : objects[d] = "none" /\ objects' = [objects EXCEPT ![d] = "torn"]
  /\ UNCHANGED <<stem, planned, research, at, advisory, folders, ckpt>>

----------------------------------------------------------------------------
(* The checkpoint as the execution finds it: one whose candidate is not    *)
(* based on main is invalidated and counts as absent.                      *)
Outdated == ckpt.state = "active" /\ ckpt.on # stem

Recovered == IF Outdated THEN NoCheckpoint ELSE ckpt

Pending == Recovered.tx

(* verify_research_advisory and the digests bound to the checkpoint: every *)
(* file of the bound evidence is there and the report is conclusive.       *)
BoundIsIntact == ckpt.bound \in Generations /\ folders[ckpt.bound] \notin {Nothing, Partial}

Resumable == Recovered.state = "active"

(* Fault variant of NextGeneration: a resumed execution keeps its number. *)
NextGenerationSame == IF Resumable THEN Recovered.gen ELSE Recovered.gen + 1

NextGeneration == Recovered.gen + 1

(* The evidence directories under the artifact root of this execution: a   *)
(* fresh root is empty.                                                    *)
Root == IF Resumable THEN folders ELSE [g \in Generations |-> Nothing]

Exhausted ==
  /\ at = "prepared" /\ ~Pending /\ Recovered.plans = 0
  /\ research' = "BLOCKED_TECHNICAL" /\ at' = "idle"
  /\ ckpt' = [Recovered EXCEPT !.state = "inactive"]
  /\ advisory' = Nothing
  /\ UNCHANGED <<stem, planned, objects, folders, researchFaults>>

(* evidence_root.mkdir(exist_ok=False). *)
DirectoryIsFree(g) == Root[g] = Nothing

(* materialize_research_advisory and the checkpoint saved after it.        *)
Materialize ==
  LET g == NextGeneration IN
  /\ at = "prepared" /\ ~Pending /\ Recovered.plans > 0 /\ DirectoryIsFree(g)
  /\ folders' = [Root EXCEPT ![g] = IF Root[g] = Nothing THEN advisory ELSE Root[g]]
  /\ ckpt' = [gen   |-> g, state |-> "active", on |-> stem,
              plans |-> Recovered.plans - 1,
              bound |-> IF Resumable THEN Recovered.bound ELSE 0,
              done  |-> Resumable /\ Recovered.done,
              tx    |-> FALSE]
  /\ at' = "materialized"
  /\ UNCHANGED <<stem, planned, objects, research, advisory, researchFaults>>

(* Under a resumed root the directory may exist: the exception ends the    *)
(* controller, and the restarted one meets the directory again.            *)
DirectoryExists ==
  /\ at = "prepared" /\ ~Pending /\ Recovered.plans > 0 /\ ~DirectoryIsFree(NextGeneration)
  /\ at' = "idle" /\ advisory' = Nothing
  /\ UNCHANGED <<stem, planned, objects, research, folders, ckpt, researchFaults>>

(* The controller dies in the copy, or before the checkpoint is saved.     *)
DieInCopy ==
  /\ at = "prepared" /\ ~Pending /\ Recovered.plans > 0 /\ DirectoryIsFree(NextGeneration)
  /\ Fault
  /\ ckpt' = IF Outdated THEN [ckpt EXCEPT !.state = "inactive", !.done = FALSE, !.bound = 0]
                         ELSE ckpt
  /\ \E copy \in {Partial, advisory} :
       folders' = IF Resumable THEN [folders EXCEPT ![NextGeneration] = copy] ELSE folders
  /\ at' = "idle" /\ advisory' = Nothing
  /\ UNCHANGED <<stem, planned, objects, research>>

(* The advisory is verified and its files are bound to the checkpoint. *)
BindAdvisory ==
  /\ at = "materialized"
  /\ IF folders[ckpt.gen] = Partial
     THEN at' = "idle" /\ UNCHANGED ckpt
     ELSE at' = "bound" /\ ckpt' = [ckpt EXCEPT !.bound = ckpt.gen]
  /\ UNCHANGED <<stem, planned, objects, research, advisory, folders, researchFaults>>

(* The agents work from the advisory; a completed stage is kept. *)
WorkFromAdvisory ==
  /\ at = "bound"
  /\ ckpt' = [ckpt EXCEPT !.done = TRUE]
  /\ at' = "worked"
  /\ UNCHANGED <<stem, planned, objects, research, advisory, folders, researchFaults>>

(* _reverify_research_advisory, then the prepared publication. *)
FreezeResearch ==
  /\ at = "worked"
  /\ IF BoundIsIntact /\ folders[ckpt.bound] = advisory
     THEN at' = "frozen" /\ ckpt' = [ckpt EXCEPT !.tx = TRUE]
     ELSE at' = "idle" /\ UNCHANGED ckpt
  /\ UNCHANGED <<stem, planned, objects, research, advisory, folders, researchFaults>>

(* publish: done, or waiting for required checks and resumed later. *)
Published ==
  \/ research' = "PASSED" /\ UNCHANGED researchFaults
  \/ Fault /\ UNCHANGED research

PublishResearch ==
  /\ at = "frozen"
  /\ Published
  /\ at' = "idle"
  /\ UNCHANGED <<stem, planned, objects, advisory, folders, ckpt>>

(* _checkpoint_research_advisory: a prepared publication is resumed with   *)
(* the evidence bound to its checkpoint, not the one just retrieved.  An   *)
(* invalidated checkpoint that still names one raises.                     *)
ResumePublication ==
  /\ at = "prepared" /\ Pending
  /\ IF ckpt.state = "active" /\ BoundIsIntact THEN Published
                                               ELSE UNCHANGED <<research, researchFaults>>
  /\ at' = "idle" /\ advisory' = Nothing
  /\ UNCHANGED <<stem, planned, objects, folders, ckpt>>

(* The controller dies between two saved states; the lease expires and the *)
(* item is ready again.                                                    *)
DieInResearch ==
  /\ at # "idle"
  /\ Fault
  /\ at' = "idle" /\ advisory' = Nothing
  /\ UNCHANGED <<stem, planned, objects, research, folders, ckpt>>

(* Another item lands; the operator installs a plan for the new main. *)
MoveStem ==
  /\ at = "idle" /\ research = "READY" /\ stem < MaxResearchMain
  /\ stem' = stem + 1
  /\ UNCHANGED <<planned, objects, research, at, advisory, folders, ckpt, researchFaults>>

InstallPlan ==
  /\ at = "idle" /\ planned < stem
  /\ planned' = stem
  /\ UNCHANGED <<stem, objects, research, at, advisory, folders, ckpt, researchFaults>>

ResearchStep ==
  \/ PrepareAdvisory \/ Exhausted \/ Materialize \/ DirectoryExists \/ BindAdvisory
  \/ WorkFromAdvisory \/ FreezeResearch \/ PublishResearch \/ ResumePublication

ResearchNext ==
  ResearchStep \/ DieInStore \/ DieInCopy \/ DieInResearch \/ MoveStem \/ InstallPlan

----------------------------------------------------------------------------
(* What is published rests on one whole evidence directory, written for    *)
(* the commit the candidate is based on; a CLEAR verdict means that every  *)
(* claim was cleared by every source asked about it, and at least one, and *)
(* a CONFLICT that a source said so (materialize_research_advisory,        *)
(* resolve_research_report).                                               *)
PublishedIsSupported ==
  research = "PASSED" =>
    LET docs == folders[ckpt.bound] IN
    /\ docs \in [Sources -> Documents] /\ ckpt.on = planned
    /\ \/ \E s \in Sources : \E c \in Plan[s] : docs[s][c] = "CONFLICT"
       \/ \A c \in Claims :
            /\ \E s \in Sources : c \in Plan[s]
            /\ \A s \in Sources : c \in Plan[s] => docs[s][c] = "CLEAR"

(* The two states no execution leaves: the directory of the next           *)
(* generation exists, or an invalidated checkpoint names a publication.    *)
Stranded ==
  \/ ckpt.state = "active" /\ ~ckpt.tx /\ folders[ckpt.gen + 1] # Nothing
  \/ ckpt.state = "inactive" /\ ckpt.tx
=============================================================================
