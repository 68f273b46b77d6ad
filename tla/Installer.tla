------------------------------- MODULE Installer -------------------------------
(*****************************************************************************)
(* The privileged installer: it replaces pinned files, unpacks the runtime   *)
(* and the repository snapshot and enables the units, under a transaction    *)
(* state (state.json) that a crashed run replays and a failed run rolls back *)
(* from.  Bytes are "old", "new" or "absent"; one managed unit and the STOP  *)
(* marker stand for all.  Accounts, directories and the staged copies are    *)
(* created once and kept.                                                    *)
(*****************************************************************************)
EXTENDS Naturals, FiniteSets, Bundle

CONSTANTS Files,             \* pinned targets; UnitFile is one of them
          UnitFile,
          Entries,           \* entries of the repository snapshot
          MaxInstallFaults   \* exceptions and deaths considered

ASSUME InstallerAssumption == UnitFile \in Files /\ MaxInstallFaults \in Nat

VARIABLES
    file,      \* the bytes at each target
    runtime,   \* /opt/traincapsule-runtime/python
    entry,     \* snapshot entries that exist in the repository boundary
    unit,      \* the managed unit: enabled, active
    marker,    \* the STOP marker exists
    st,        \* state.json
    backup,    \* backup/<digest of the target>
    istep,     \* where apply stands
    attested,  \* an apply returned its attestation
    before,    \* file and unit when this attempt captured its baselines
    ifaults

installVars == <<file, runtime, entry, unit, marker, st, backup, istep, attested, before, ifaults>>

NoFile == "absent"
UnitStates == [enabled : BOOLEAN, active : BOOLEAN]

\* status "none": no state.json.  resources: the targets _prepare_resource recorded,
\* and whether they existed.
NewState(u) ==
    [status |-> "open", resources |-> [f \in Files |-> "none"], runtimeKnown |-> FALSE,
     entries |-> {}, baseline |-> u, effects |-> FALSE]

\* A machine on which some targets exist; a unit is enabled or active only if its file is.
InstallInit ==
    /\ file \in [Files -> {NoFile, "old"}]
    /\ unit \in UnitStates
    /\ file[UnitFile] = NoFile => unit = [enabled |-> FALSE, active |-> FALSE]
    /\ runtime = NoFile /\ entry = {} /\ marker = FALSE
    /\ st = [NewState(unit) EXCEPT !.status = "none"]
    /\ backup = [f \in Files |-> NoFile]
    /\ istep = "idle" /\ attested = FALSE /\ before = [file |-> file, unit |-> unit] /\ ifaults = 0

InstallFault == ifaults < MaxInstallFaults /\ ifaults' = ifaults + 1

-----------------------------------------------------------------------------
(* apply, step by step.  Steps that raise go to rollback.                    *)

\* apply checks the bundle again; _open_transaction: an unfinished transaction is replayed, a rolled-back one begins
\* anew.
OpenTransaction ==
    /\ istep = "idle" /\ st.status # "COMMITTED" /\ PreflightSources
    /\ \/ /\ st.status = "open" /\ UNCHANGED <<st, before>>
       \/ /\ st.status # "open"
          /\ st' = NewState(unit)
          /\ before' = [file |-> file, unit |-> unit]
    /\ istep' = "quiesce"
    /\ UNCHANGED <<file, runtime, entry, unit, marker, backup, attested, ifaults>>

\* _quiesce_managed_units_before_replacement.
Quiesce ==
    /\ istep = "quiesce"
    /\ st' = [st EXCEPT !.effects = TRUE]
    /\ unit' = [unit EXCEPT !.active = FALSE]
    /\ istep' = "marker"
    /\ UNCHANGED <<file, runtime, entry, marker, backup, before, attested, ifaults>>

\* _ensure_stop_marker, after accounts and directories.
EnsureStopMarker ==
    /\ istep = "marker"
    /\ marker' = TRUE /\ istep' = "runtime"
    /\ UNCHANGED <<file, runtime, entry, unit, st, backup, before, attested, ifaults>>

\* _install_runtime_distribution: an existing tree must be the one this state recorded
\* and complete; otherwise the archive is extracted, and then recorded.
ExtractRuntime ==
    /\ istep = "runtime"
    /\ \/ /\ runtime = NoFile
          /\ runtime' = "new" /\ istep' = "record"
       \/ /\ runtime # NoFile /\ UNCHANGED runtime
          /\ istep' = IF runtime = "new" /\ st.runtimeKnown THEN "files" ELSE "rollback"
    /\ UNCHANGED <<file, entry, unit, marker, st, backup, before, attested, ifaults>>

RecordRuntime ==
    /\ istep = "record"
    /\ st' = [st EXCEPT !.runtimeKnown = TRUE]
    /\ istep' = "files"
    /\ UNCHANGED <<file, runtime, entry, unit, marker, backup, before, attested, ifaults>>

\* Fault variant: the target is replaced before its backup is recorded.
PrepareLate(f) ==
    /\ istep = "files" /\ st.resources[f] = "none"
    /\ file' = [file EXCEPT ![f] = "new"]
    /\ backup' = [backup EXCEPT ![f] = "new"]
    /\ st' = [st EXCEPT !.resources[f] = "existed"]
    /\ UNCHANGED <<runtime, entry, unit, marker, istep, before, attested, ifaults>>

\* _prepare_resource: the backup, if there is none yet, and then the record.
PrepareResource(f) ==
    /\ istep = "files" /\ st.resources[f] = "none"
    /\ backup' = [backup EXCEPT ![f] = IF @ = NoFile THEN file[f] ELSE @]
    /\ st' = [st EXCEPT !.resources[f] = IF file[f] = NoFile THEN "absent" ELSE "existed"]
    /\ UNCHANGED <<file, runtime, entry, unit, marker, istep, before, attested, ifaults>>

\* _install_files.
InstallFile(f) ==
    /\ istep = "files" /\ st.resources[f] # "none" /\ file[f] # "new"
    /\ file' = [file EXCEPT ![f] = "new"]
    /\ UNCHANGED <<runtime, entry, unit, marker, st, backup, istep, before, attested, ifaults>>

\* _install_repository_snapshot: an entry is recorded, then written; one that exists
\* and is not recorded is a collision.
PrepareEntry(e) ==
    /\ istep = "snapshot" /\ e \notin st.entries
    /\ \/ e \in entry /\ istep' = "rollback" /\ UNCHANGED st
       \/ e \notin entry /\ st' = [st EXCEPT !.entries = @ \cup {e}] /\ UNCHANGED istep
    /\ UNCHANGED <<file, runtime, entry, unit, marker, backup, before, attested, ifaults>>

InstallEntry(e) ==
    /\ istep = "snapshot" /\ e \in st.entries \ entry
    /\ entry' = entry \cup {e}
    /\ UNCHANGED <<file, runtime, unit, marker, st, backup, istep, before, attested, ifaults>>

FilesDone == \A f \in Files : st.resources[f] # "none" /\ file[f] = "new"
EntriesDone == entry = Entries /\ st.entries = Entries

RuntimeInstalled == runtime = "new" /\ st.runtimeKnown

\* Fault variant: the controller's runtime contract is not attested.
TreeAttestedByDigest == FilesDone /\ EntriesDone /\ RuntimeInstalled

\* _attest_installed_tree, with the runtime contract of the controller.
TreeAttested ==
    /\ FilesDone /\ EntriesDone /\ RuntimeInstalled /\ ControllerRuntimeBinds(payload)

NextPhase ==
    /\ \/ istep = "files" /\ FilesDone /\ istep' = "snapshot"
       \/ istep = "snapshot" /\ EntriesDone /\ istep' = "attest"
       \/ istep = "attest" /\ istep' = IF TreeAttested THEN "enable" ELSE "rollback"
    /\ UNCHANGED <<file, runtime, entry, unit, marker, st, backup, before, attested, ifaults>>

\* _enable_paths_after_attestation, after the daemon was reloaded.
EnablePaths ==
    /\ istep = "enable"
    /\ unit' = [enabled |-> TRUE, active |-> TRUE]
    /\ istep' = "commit"
    /\ UNCHANGED <<file, runtime, entry, marker, st, backup, before, attested, ifaults>>

\* The status is saved as COMMITTED first; then the COMMIT event is recorded and the
\* attestation returned.
SaveCommitted ==
    /\ istep = "commit"
    /\ st' = [st EXCEPT !.status = "COMMITTED"]
    /\ istep' = "announce"
    /\ UNCHANGED <<file, runtime, entry, unit, marker, backup, before, attested, ifaults>>

RecordCommit ==
    /\ istep = "announce"
    /\ attested' = TRUE /\ istep' = "idle"
    /\ UNCHANGED <<file, runtime, entry, unit, marker, st, backup, before, ifaults>>

\* A COMMITTED transaction is only attested again: no later apply replays it or rolls
\* it back.
AttestCommitted ==
    /\ istep = "idle" /\ st.status = "COMMITTED" /\ PreflightSources
    /\ TreeAttested /\ unit.active
    /\ attested' = TRUE
    /\ UNCHANGED <<file, runtime, entry, unit, marker, st, backup, istep, before, ifaults>>

-----------------------------------------------------------------------------
(* rollback: units stopped, snapshot entries removed one by one, files       *)
(* restored, the recorded runtime removed, units restored, status written.   *)
(* A run that dies has made a prefix of these writes, and the status is what *)
(* it was: also COMMITTED, when the COMMIT event could not be recorded.      *)

Restored(f) == IF st.resources[f] = "existed" THEN backup[f] ELSE NoFile

StoppedUnit == IF st.effects /\ ~st.baseline.active THEN [unit EXCEPT !.active = FALSE] ELSE unit

Rollback ==
    /\ istep = "rollback"
    /\ \E es \in SUBSET st.entries, fs \in SUBSET {f \in Files : st.resources[f] # "none"},
          stage \in {"files", "runtime", "done"} :
          /\ stage # "files" => fs = {f \in Files : st.resources[f] # "none"}
          /\ fs # {} => es = st.entries
          /\ stage # "files" => es = st.entries
          /\ entry' = entry \ es
          /\ file' = [f \in Files |-> IF f \in fs THEN Restored(f) ELSE file[f]]
          /\ \/ stage = "files" /\ UNCHANGED runtime
             \/ stage # "files" /\ ~st.runtimeKnown /\ UNCHANGED runtime
             \/ stage # "files" /\ st.runtimeKnown /\ runtime' = NoFile
             \/ stage = "runtime" /\ st.runtimeKnown /\ runtime # NoFile /\ runtime' = "partial"
          /\ unit' = IF stage = "done" /\ st.effects THEN st.baseline ELSE StoppedUnit
          /\ IF stage = "done"
             THEN st' = [st EXCEPT !.status = "ROLLED_BACK"] /\ UNCHANGED ifaults
             ELSE InstallFault /\ UNCHANGED st
    /\ istep' = "idle"
    /\ UNCHANGED <<marker, backup, before, attested>>

\* A step raises, or the process dies.
InstallFails ==
    /\ InstallFault
    /\ \/ istep \notin {"idle", "rollback"} /\ istep' = "rollback"
       \/ istep # "idle" /\ istep' = "idle"
    /\ UNCHANGED <<file, runtime, entry, unit, marker, st, backup, before, attested>>

Apply ==
    \/ OpenTransaction \/ Quiesce \/ EnsureStopMarker \/ ExtractRuntime \/ RecordRuntime
    \/ \E f \in Files : PrepareResource(f) \/ InstallFile(f)
    \/ \E e \in Entries : PrepareEntry(e) \/ InstallEntry(e)
    \/ NextPhase \/ EnablePaths \/ SaveCommitted \/ RecordCommit \/ AttestCommitted

InstallNext == Apply \/ Rollback \/ InstallFails
-----------------------------------------------------------------------------
\* Type invariant of the installer.
InstallTypeOK ==
    /\ file \in [Files -> {NoFile, "old", "new"}]
    /\ runtime \in {NoFile, "partial", "new"} /\ entry \subseteq Entries
    /\ unit \in UnitStates /\ marker \in BOOLEAN /\ attested \in BOOLEAN
    /\ st.status \in {"none", "open", "COMMITTED", "ROLLED_BACK"}
    /\ st.resources \in [Files -> {"none", "absent", "existed"}]
    /\ ifaults \in 0 .. MaxInstallFaults

\* While the machine holds a mixture of old and new bytes, also after a death in apply
\* or in rollback, the STOP marker exists and no unit runs that did not run before the
\* installation.  (One that did may: rollback does not stop it again before it replaces
\* the files under it.)
HalfInstalledIsQuiet ==
    (\E f, g \in Files : file[f] = "new" /\ file[g] # "new")
        => marker /\ (unit.active => st.baseline.active)

FullyInstalled ==
    /\ \A f \in Files : file[f] = "new"
    /\ entry = Entries /\ runtime = "new" /\ unit.active

\* COMMITTED is written over a complete installation, and what an apply attested stays
\* one.  Between the two a failure to record COMMIT starts a rollback, and a death in it
\* leaves COMMITTED over what is partly restored: that is never attested.
CommittedIsComplete ==
    /\ istep = "announce" => FullyInstalled
    /\ attested => st.status = "COMMITTED" /\ FullyInstalled

\* A COMMITTED installation is of one build; and whatever was replaced between the
\* validation, the pins and the copies, so is what the installer compares again.
CommittedIsOneBuild ==
    st.status = "COMMITTED" =>
        \A r \in (IF edits = 0 THEN Roles ELSE Revalidated) : payload[r] = payload["snapshot"]

\* Whatever raised or died, a mixture of old and new bytes is quiet, also under COMMITTED;
\* and what an apply attested is complete and of one build (apply, rollback).
InstallationIsSound ==
    InstallTypeOK /\ HalfInstalledIsQuiet /\ CommittedIsComplete /\ CommittedIsOneBuild

\* "rollback restores preexisting bytes" and "exact preexisting unit states": whichever
\* steps raised or died on the way, when ROLLED_BACK is written the files and units are
\* what they were when this attempt captured its baselines.
RollbackRestores ==
    [][ st.status # "ROLLED_BACK" /\ st'.status = "ROLLED_BACK"
            => file' = before.file /\ unit' = before.unit /\ entry' = {} ]_installVars
=============================================================================
