---------------------------- MODULE RuntimeRefresh ----------------------------
(*****************************************************************************)
(* The refresh of an installed runtime to the anchored main: the controller  *)
(* proposes, a broker claims, the root service switches the installed parts  *)
(* one by one under a journal, and a second broker passes the completion to  *)
(* the activation side.  A part holds the main it was built from, 0 when it  *)
(* is absent.  The controller's own activity is outside: it may be started   *)
(* and stopped at any time.                                                  *)
(*****************************************************************************)
EXTENDS Naturals, Sequences, FiniteSets

CONSTANTS MaxMain,           \* mains 1 .. MaxMain; 1 is the one first installed
          MaxRefreshFaults   \* exceptions and deaths considered

ASSUME RefreshAssumption == MaxMain \in Nat \ {0} /\ MaxRefreshFaults \in Nat

Mains == 1 .. MaxMain

\* A handoff: the installed main and the one that is required (DeploymentUpdateHandoff).
Handoffs == {h \in [from : Mains, to : Mains] : h.from < h.to}

\* The order in which refresh replaces the installed parts.
SwitchOrder == <<"boundary", "manifest", "environment", "config", "genManifest", "pointer">>
Parts == {SwitchOrder[i] : i \in DOMAIN SwitchOrder}

\* The order in which _rollback_switch puts them back.
RollbackOrder == <<"pointer", "boundary", "manifest", "environment", "config", "genManifest">>

VARIABLES
    part,       \* the main each installed part belongs to
    moved,      \* per handoff: the repository boundary moved to backups/<transaction>
    gens,       \* generations that exist under generation_root
    proposed,   \* deployment-update-handoffs
    claimed,    \* deployment-refresh-claims
    consumed,   \* journal_root/consumed
    journal,    \* per handoff: RefreshJournal
    completed,  \* journal_root/completions
    inbox,      \* activation-refresh-inbox
    anchor,     \* refs/heads/main of the credential-free anchor
    controlling,\* the controller unit is active
    rstep, rh,  \* where the root service stands, and for which handoff
    rfaults

refreshVars == <<part, moved, gens, proposed, claimed, consumed, journal, completed,
                 inbox, anchor, controlling, rstep, rh, rfaults>>

Phases == {"none", "PREPARED", "STAGED", "SWITCHING", "SWITCHED", "COMMITTED", "ROLLED_BACK"}
NoJournal == [phase |-> "none", created |-> FALSE, prev |-> [p \in Parts |-> 0]]
NoHandoff == [from |-> 0, to |-> 0]

\* The installer left everything at main 1, without a generation of its own.
RefreshInit ==
    /\ part = [p \in Parts |-> IF p \in {"genManifest", "pointer"} THEN 0 ELSE 1]
    /\ moved = [h \in Handoffs |-> 0] /\ gens = {}
    /\ proposed = {} /\ claimed = {} /\ consumed = {}
    /\ journal = [h \in Handoffs |-> NoJournal]
    /\ completed = {} /\ inbox = {} /\ anchor = 1 /\ controlling = FALSE
    /\ rstep = "idle" /\ rh = NoHandoff /\ rfaults = 0

RefreshFault == rfaults < MaxRefreshFaults /\ rfaults' = rfaults + 1

-----------------------------------------------------------------------------
(* The controller and the two brokers.                                       *)

\* The anchor updater publishes the next main.
AnchorMoves ==
    /\ anchor < MaxMain
    /\ anchor' = anchor + 1
    /\ UNCHANGED <<part, moved, gens, proposed, claimed, consumed, journal, completed,
                   inbox, controlling, rstep, rh, rfaults>>

\* installed_runtime_loader: the manifest, and every file it names, are of one main.
RuntimeAttested == \A p \in {"boundary", "environment", "config"} : part[p] = part["manifest"]

\* The controller is started, when the runtime is attested; it stops at a cycle boundary.
ControllerStarts ==
    /\ ~controlling /\ RuntimeAttested /\ controlling' = TRUE
    /\ UNCHANGED <<part, moved, gens, proposed, claimed, consumed, journal, completed,
                   inbox, anchor, rstep, rh, rfaults>>

ControllerStops ==
    /\ controlling /\ controlling' = FALSE
    /\ UNCHANGED <<part, moved, gens, proposed, claimed, consumed, journal, completed,
                   inbox, anchor, rstep, rh, rfaults>>

\* _require_installed_snapshot_alignment: an installed main that trails the anchor is
\* handed off, and the controller exits.  A handoff file is never removed again.
Propose ==
    /\ controlling /\ RuntimeAttested /\ part["manifest"] < anchor
    /\ proposed' = proposed \cup {[from |-> part["manifest"], to |-> anchor]}
    /\ controlling' = FALSE
    /\ UNCHANGED <<part, moved, gens, claimed, consumed, journal, completed, inbox, anchor,
                   rstep, rh, rfaults>>

\* claim_pending copies every proposal that is not in the claim directory, one already
\* consumed too.
ClaimPending ==
    /\ proposed \ claimed # {}
    /\ claimed' = claimed \cup proposed
    /\ UNCHANGED <<part, moved, gens, proposed, consumed, journal, completed, inbox, anchor,
                   controlling, rstep, rh, rfaults>>

\* publish_activation_completions.
PublishCompletions ==
    /\ completed \ inbox # {}
    /\ inbox' = inbox \cup completed
    /\ UNCHANGED <<part, moved, gens, proposed, claimed, consumed, journal, completed,
                   anchor, controlling, rstep, rh, rfaults>>

-----------------------------------------------------------------------------
(* The root service.                                                         *)

\* _attest_pre_refresh: the installed runtime is the one the handoff was written for.
PreAttested(h) == RuntimeAttested /\ part["manifest"] = h.from

\* _find_evidence and _verify_evidence: signed observation, ruleset, publication and
\* bundle for h.to exist; the anchor is exactly there.
Evidenced(h) == anchor = h.to

SetPhase(h, p) == journal' = [journal EXCEPT ![h].phase = p]

\* _rollback_switch makes these writes in order; the first n are made when it dies.  The
\* boundary is only touched when the backup of it exists.
RolledBack(h, n) ==
    LET done == {RollbackOrder[i] : i \in 1 .. n} IN
    [p \in Parts |-> IF p \notin done THEN part[p]
                     ELSE IF p = "boundary" /\ moved[h] = 0 THEN part[p]
                     ELSE IF p = "boundary" THEN moved[h]
                     ELSE journal[h].prev[p]]

RollbackSwitch(h) ==
    \E n \in 0 .. Len(RollbackOrder) :
        LET complete == n = Len(RollbackOrder) IN
        /\ part' = RolledBack(h, n)
        /\ moved' = IF n >= 2 THEN [moved EXCEPT ![h] = 0] ELSE moved
        /\ \/ /\ complete
              /\ SetPhase(h, "ROLLED_BACK")
              /\ gens' = IF journal[h].created THEN gens \ {h.to} ELSE gens
              /\ UNCHANGED rfaults
           \/ /\ RefreshFault /\ UNCHANGED <<journal, gens>>

\* process_pending and refresh up to PREPARED.  Two claims are ambiguous.  A committed
\* journal is answered with the completion; an interrupted switch is rolled back before
\* the transaction starts over; but first of all the runtime must be the old one.
StartRefresh(h) ==
    /\ rstep = "idle" /\ claimed = {h}
    /\ PreAttested(h) /\ Evidenced(h) /\ ~controlling
    /\ \/ /\ journal[h].phase \in {"SWITCHING", "SWITCHED"}
          /\ RollbackSwitch(h)
          /\ UNCHANGED <<rstep, rh, completed>>
       \/ /\ journal[h].phase \notin {"SWITCHING", "SWITCHED", "COMMITTED"}
          /\ journal' = [journal EXCEPT ![h] = [NoJournal EXCEPT !.phase = "PREPARED"]]
          /\ rstep' = "stage" /\ rh' = h
          /\ UNCHANGED <<part, moved, gens, completed, rfaults>>
    /\ UNCHANGED <<proposed, claimed, consumed, inbox, anchor, controlling>>

\* _build_generation: the generation is built aside and renamed into place, or the one
\* that exists is attested; then STAGED.
StageGeneration ==
    /\ rstep = "stage"
    /\ \/ /\ gens' = gens \cup {rh.to}
          /\ journal' = [journal EXCEPT ![rh].phase = "STAGED", ![rh].created = rh.to \notin gens]
          /\ rstep' = "prepare" /\ UNCHANGED rfaults
       \/ /\ RefreshFault /\ gens' = gens \cup {rh.to} /\ rstep' = "idle" /\ UNCHANGED journal
    /\ UNCHANGED <<part, moved, proposed, claimed, consumed, completed, inbox, anchor,
                   controlling, rh>>

\* Fault variant: the journal stays at STAGED.
BeginSwitchUnjournalled ==
    /\ rstep = "prepare"
    /\ journal' = [journal EXCEPT ![rh].prev = part]
    /\ rstep' = "switch0"
    /\ UNCHANGED <<part, moved, gens, proposed, claimed, consumed, completed, inbox, anchor,
                   controlling, rh, rfaults>>

\* The backups are taken, then SWITCHING is journalled.
BeginSwitch ==
    /\ rstep = "prepare"
    /\ journal' = [journal EXCEPT ![rh].phase = "SWITCHING", ![rh].prev = part]
    /\ rstep' = "switch0"
    /\ UNCHANGED <<part, moved, gens, proposed, claimed, consumed, completed, inbox, anchor,
                   controlling, rh, rfaults>>

SwitchSteps == <<"switch1", "switch2", "switch3", "switch4", "switch5", "switch6">>

\* The boundary is moved to the backup, then the staged copy is renamed into its place.
MoveBoundary ==
    /\ rstep = "switch0"
    /\ moved' = [moved EXCEPT ![rh] = part["boundary"]]
    /\ part' = [part EXCEPT !["boundary"] = 0]
    /\ rstep' = "switch1"
    /\ UNCHANGED <<gens, proposed, claimed, consumed, journal, completed, inbox, anchor,
                   controlling, rh, rfaults>>

\* Replacement of the i-th part.
SwitchPart(i) ==
    /\ rstep = SwitchSteps[i]
    /\ part' = [part EXCEPT ![SwitchOrder[i]] = rh.to]
    /\ rstep' = IF i = Len(SwitchOrder) THEN "attest" ELSE SwitchSteps[i + 1]
    /\ UNCHANGED <<moved, gens, proposed, claimed, consumed, journal, completed, inbox,
                   anchor, controlling, rh, rfaults>>

\* The installed tree is attested and SWITCHED journalled, then COMMITTED.
Switched ==
    /\ \/ rstep = "attest" /\ SetPhase(rh, "SWITCHED") /\ rstep' = "commit"
       \/ rstep = "commit" /\ SetPhase(rh, "COMMITTED") /\ rstep' = "complete"
    /\ UNCHANGED <<part, moved, gens, proposed, claimed, consumed, completed, inbox, anchor,
                   controlling, rh, rfaults>>

\* _attest_committed: the generation, the pointer, the boundary and every file are those
\* of the handoff.
CommittedAttested(h) == h.to \in gens /\ \A p \in Parts : part[p] = h.to

\* _attest_committed and _write_completion.
WriteCompletion ==
    /\ rstep = "complete" /\ CommittedAttested(rh)
    /\ completed' = completed \cup {rh} /\ rstep' = "consume"
    /\ UNCHANGED <<part, moved, gens, proposed, claimed, consumed, journal, inbox, anchor,
                   controlling, rh, rfaults>>

\* process_pending moves the claim to consumed.
ConsumeHandoff ==
    /\ rstep = "consume"
    /\ claimed' = claimed \ {rh} /\ consumed' = consumed \cup {rh}
    /\ rstep' = "idle" /\ rh' = NoHandoff
    /\ UNCHANGED <<part, moved, gens, proposed, journal, completed, inbox, anchor,
                   controlling, rfaults>>

\* An exception: once SWITCHING was journalled the parts are put back, and the journal
\* says so.  The rollback itself may die.
RefreshRaises ==
    /\ rstep \notin {"idle", "consume"}
    /\ \/ /\ rstep \in {"stage", "prepare"} /\ RefreshFault
          /\ UNCHANGED <<part, moved, gens, journal>>
       \/ /\ rstep \notin {"stage", "prepare"}
          /\ \E n \in 0 .. Len(RollbackOrder) :
                /\ part' = RolledBack(rh, n)
                /\ moved' = IF n >= 2 THEN [moved EXCEPT ![rh] = 0] ELSE moved
                /\ IF n = Len(RollbackOrder)
                   THEN /\ SetPhase(rh, "ROLLED_BACK")
                        /\ gens' = IF journal[rh].created THEN gens \ {rh.to} ELSE gens
                        /\ RefreshFault
                   ELSE /\ rfaults + 2 <= MaxRefreshFaults /\ rfaults' = rfaults + 2
                        /\ UNCHANGED <<journal, gens>>
    /\ rstep' = "idle" /\ rh' = NoHandoff
    /\ UNCHANGED <<proposed, claimed, consumed, completed, inbox, anchor, controlling>>

\* The process dies.
RefreshDies ==
    /\ rstep # "idle" /\ RefreshFault
    /\ rstep' = "idle" /\ rh' = NoHandoff
    /\ UNCHANGED <<part, moved, gens, proposed, claimed, consumed, journal, completed, inbox,
                   anchor, controlling>>

RefreshService ==
    \/ \E h \in Handoffs : StartRefresh(h)
    \/ StageGeneration \/ BeginSwitch \/ MoveBoundary
    \/ \E i \in DOMAIN SwitchOrder : SwitchPart(i)
    \/ Switched \/ WriteCompletion \/ ConsumeHandoff

RefreshNext ==
    \/ AnchorMoves \/ ControllerStarts \/ ControllerStops \/ Propose \/ ClaimPending \/ PublishCompletions
    \/ RefreshService \/ RefreshRaises \/ RefreshDies

-----------------------------------------------------------------------------
\* Type invariant of the refresh.
RefreshTypeOK ==
    /\ part \in [Parts -> 0 .. MaxMain] /\ moved \in [Handoffs -> 0 .. MaxMain]
    /\ gens \subseteq Mains /\ anchor \in Mains /\ controlling \in BOOLEAN
    /\ UNION {proposed, claimed, consumed, completed, inbox} \subseteq Handoffs
    /\ \A h \in Handoffs : journal[h].phase \in Phases
    /\ rfaults \in 0 .. MaxRefreshFaults

\* The parts of an installed runtime belong to different mains only while the journal of a
\* switch says so and no completion was written for it, whichever writes of refresh or of
\* its rollback were the last.  (COMMITTED: the rollback after a failed last attestation
\* does not change the journal before it has ended.)
MixtureIsJournalled ==
    ~RuntimeAttested =>
        \E h \in Handoffs \ completed : journal[h].phase \in {"SWITCHING", "SWITCHED", "COMMITTED"}

\* The old runtime is never lost: while a switch is under way or was interrupted, every
\* part is the new one, the old one, or its old copy is in the transaction's backup.
OldRuntimeIsKept ==
    \A h \in Handoffs : journal[h].phase \in {"SWITCHING", "SWITCHED"} =>
        /\ h.from \in {part["boundary"], moved[h]}
        /\ journal[h].prev["manifest"] = h.from

\* A completion the activation side acts on is of a committed refresh, and the installed
\* runtime has since only moved on.
CompletionIsInstalled ==
    \A h \in inbox : journal[h].phase = "COMMITTED" /\ part["manifest"] >= h.to

\* Whichever write of a refresh was the last, the installed runtime can be told apart,
\* and nothing that is needed to go back or forward was lost (refresh, _rollback).
RuntimeIsSound == RefreshTypeOK /\ MixtureIsJournalled /\ OldRuntimeIsKept /\ CompletionIsInstalled
=============================================================================
