-------------------------- MODULE DeploymentProofs --------------------------
(***************************************************************************)
(* Machine-checked proofs about Deployment, for every set of targets and   *)
(* snapshot entries, any number of mains and any number of failures: what  *)
(* is installed is quiet until it is complete, a rollback restores, and a  *)
(* refresh loses nothing that is needed to go back or forward.             *)
(*                                                                         *)
(* Then about V2Autopilot, which shares no state with it, for any number of*)
(* cycles, models, recoveries and interruptions: what is released is what  *)
(* was judged.  The parts of its invariant follow the checkpoint from the  *)
(* adversary's verdict to the release, through everything that writes it.  *)
(***************************************************************************)
EXTENDS Deployment, V2Autopilot, TLAPS

(* Bytes and steps of the installer. *)
Stored == {NoFile, "old"}

InstallSteps == {"idle", "quiesce", "marker", "runtime", "record", "files", "snapshot", "attest",
                 "enable", "commit", "announce", "rollback"}

InstallStates ==
  [status : {"none", "open", "COMMITTED", "ROLLED_BACK"},
   resources : [Files -> {"none", "absent", "existed"}], runtimeKnown : BOOLEAN,
   entries : SUBSET Entries, baseline : UnitStates, effects : BOOLEAN]

InstallTyped ==
  /\ InstallTypeOK
  /\ st \in InstallStates /\ istep \in InstallSteps
  /\ backup \in [Files -> Stored]
  /\ before \in [file : [Files -> Stored], unit : UnitStates]

(* The copies are what was validated, unless something was replaced.       *)
BundleInv ==
  /\ edits \in Nat
  /\ edits = 0 /\ bstep # "validate" => \A r \in Roles : art[r] = art["snapshot"]
  /\ edits = 0 /\ bstep = "staged" => payload = art

(* A transaction that has begun, also a committed one, can put back every  *)
(* target and the unit with what it recorded; any other has nothing to put *)
(* back.                                                                   *)
Restorable ==
  IF st.status \in {"open", "COMMITTED"}
  THEN /\ \A f \in Files :
            /\ st.resources[f] = "none" => file[f] = before.file[f]
            /\ st.resources[f] = "absent" => before.file[f] = NoFile
            /\ st.resources[f] = "existed" => before.file[f] = "old" /\ backup[f] = "old"
       /\ st.baseline = before.unit
       /\ ~st.effects => unit = before.unit /\ \A f \in Files : st.resources[f] = "none"
       /\ entry \subseteq st.entries
  ELSE entry = {} /\ \A f \in Files : file[f] # "new"

(* Nothing is replaced before the units are stopped and STOP is there.     *)
Stopped ==
  /\ HalfInstalledIsQuiet
  /\ (\E f \in Files : file[f] = "new") => marker
  /\ istep \notin {"idle", "quiesce", "marker", "rollback"} => marker
  /\ istep \notin {"idle", "quiesce", "rollback"} => st.effects
  /\ istep \notin {"idle", "quiesce", "commit", "announce", "rollback"} => ~unit.active

(* How far an attempt is, and what that took. *)
Attempted ==
  /\ istep # "idle" => st.status \in {"open", "COMMITTED"} /\ PreflightSources /\ ~attested
  /\ istep \notin {"idle", "announce", "rollback"} => st.status = "open"
  /\ istep = "announce" => st.status = "COMMITTED"
  /\ istep \in {"enable", "commit", "announce"} => TreeAttested
  /\ istep \in {"commit", "announce"} => unit.active
  /\ CommittedIsComplete
  /\ st.status = "COMMITTED" => PreflightSources /\ ControllerRuntimeBinds(payload)

InstallInv == BundleInv /\ InstallTyped /\ Restorable /\ Stopped /\ Attempted

-----------------------------------------------------------------------------
(* The parts of which a runtime is attested. *)
Runtime == {"boundary", "manifest", "environment", "config"}

(* A switch that has begun and is neither rolled back nor completed. *)
Open(h) ==
  h \notin completed /\ journal[h].phase \in {"SWITCHING", "SWITCHED", "COMMITTED"}

RefreshSteps == {"idle", "stage", "prepare", "switch0", "switch1", "switch2", "switch3",
                 "switch4", "switch5", "switch6", "attest", "commit", "complete", "consume"}

RefreshTyped ==
  /\ RefreshTypeOK
  /\ journal \in [Handoffs -> [phase : Phases, created : BOOLEAN, prev : [Parts -> 0 .. MaxMain]]]
  /\ rstep \in RefreshSteps
  /\ rstep # "idle" => rh \in claimed
  /\ \A h \in Handoffs : moved[h] \in {0, h.from}
  /\ part["manifest"] # 0

(* What a rollback of h finds: the old boundary is in its place or in the  *)
(* backup, and the journal has the rest.                                   *)
Kept(h) ==
  /\ moved[h] = h.from \/ (moved[h] = 0 /\ part["boundary"] = h.from)
  /\ \A p \in Runtime : journal[h].prev[p] = h.from

(* Completed refreshes reach no further than main m. *)
Floor(m) == \A h \in completed : h.to <= m

(* Where the root service is with its handoff. *)
Following ==
  /\ rstep \in {"stage", "prepare"} => PreAttested(rh) /\ ~Open(rh)
  /\ rstep \notin {"idle", "stage", "prepare", "consume"} => Open(rh)
  /\ rstep = "switch0" => PreAttested(rh)
  /\ rstep \notin {"idle", "stage", "prepare", "switch0", "consume"} => moved[rh] = rh.from
  /\ rstep \notin {"idle", "consume"} => Floor(rh.from)
  /\ rstep = "complete" => journal[rh].phase = "COMMITTED"
  /\ rstep = "consume" => rh \in completed

(* One switch is open at a time, and it keeps its claim. *)
Switching ==
  \A h \in Handoffs : Open(h) =>
    /\ h \in claimed /\ Kept(h) /\ Floor(h.from)
    /\ rstep # "idle" => h = rh
    /\ \A g \in Handoffs : Open(g) => g = h

RefreshInv ==
  /\ RefreshTyped /\ Following /\ Switching
  /\ MixtureIsJournalled
  /\ \A h \in completed : journal[h].phase = "COMMITTED" /\ h.to <= part["manifest"]
  /\ inbox \subseteq completed

-----------------------------------------------------------------------------
(* The bundle. *)
LEMMA BundleStarts == BundleInit => BundleInv
  BY DEF BundleInit, BundleInv

(* Validated artifacts are of one build (assemble_bundle).                 *)
LEMMA BundleSteps ==
  ASSUME BundleInv, BundleNext
  PROVE  BundleInv' /\ bstep # "staged"
<1>1. CASE EditArtifact
  BY <1>1 DEF EditArtifact, BundleInv
<1>2. CASE ValidateSources
  <2>1. \A r \in Roles : art[r] = art["snapshot"]
    BY <1>2 DEF ValidateSources, PythonRuntimeBinds, ControllerRuntimeBinds, AnchorProducerBinds,
       ObserverPoliciesBind, MachinePolicyBinds, CanaryPolicyBinds, DeploymentRefreshBinds, Roles
  <2> QED
    BY <1>2, <2>1 DEF ValidateSources, BundleInv
<1>3. CASE PinSources \/ StageBundle
  BY <1>3 DEF PinSources, StageBundle, BundleInv
<1> QED
  BY <1>1, <1>2, <1>3 DEF BundleNext

-----------------------------------------------------------------------------
(* The installer. *)
LEMMA InstallStarts ==
  ASSUME BundleInit, InstallInit PROVE InstallInv
<1>1. BundleInv
  BY BundleStarts
<1>2. /\ file \in [Files -> Stored] /\ unit \in UnitStates /\ st.status = "none"
      /\ runtime = NoFile /\ entry = {} /\ marker = FALSE /\ istep = "idle" /\ ifaults = 0
      /\ attested = FALSE
      /\ backup = [f \in Files |-> NoFile] /\ before = [file |-> file, unit |-> unit]
      /\ st \in InstallStates
  BY DEF InstallInit, Stored, NewState, InstallStates
<1>3. InstallTyped
  <2>1. backup \in [Files -> Stored] /\ before \in [file : [Files -> Stored], unit : UnitStates]
    BY <1>2 DEF Stored
  <2>2. InstallTypeOK
    <3>1. file \in [Files -> {NoFile, "old", "new"}] /\ marker \in BOOLEAN
      BY <1>2 DEF Stored
    <3>2. ifaults \in 0 .. MaxInstallFaults
      BY <1>2, InstallerAssumption
    <3>3. /\ st.status \in {"none", "open", "COMMITTED", "ROLLED_BACK"}
          /\ st.resources \in [Files -> {"none", "absent", "existed"}]
      BY <1>2 DEF InstallStates
    <3> QED
      BY <1>2, <3>1, <3>2, <3>3 DEF InstallTypeOK
  <2> QED
    BY <1>2, <2>1, <2>2 DEF InstallTyped, InstallSteps
<1>4. \A f \in Files : file[f] # "new"
  BY <1>2 DEF Stored, NoFile
<1> QED
  BY <1>1, <1>2, <1>3, <1>4
  DEF InstallInv, Restorable, Stopped, HalfInstalledIsQuiet, Attempted, CommittedIsComplete

(* What the steps of one attempt rely on. *)
LEMMA OpenTransactionKeeps ==
  ASSUME InstallInv, UNCHANGED bundleVars, OpenTransaction PROVE InstallInv'
<1>1. /\ InstallTyped /\ Restorable /\ Stopped /\ Attempted /\ BundleInv
  BY DEF InstallInv
<1>2. /\ istep = "idle" /\ istep' = "quiesce" /\ st.status # "COMMITTED" /\ PreflightSources
      /\ UNCHANGED <<file, runtime, entry, unit, marker, backup, attested, ifaults>>
  BY DEF OpenTransaction
<1>3. CASE st.status = "open" /\ UNCHANGED <<st, before>>
  BY <1>1, <1>2, <1>3
  DEF InstallInv, InstallTyped, InstallTypeOK, InstallSteps, Restorable, Stopped,
      HalfInstalledIsQuiet, Attempted, CommittedIsComplete, PreflightSources, bundleVars, BundleInv,
      PythonRuntimeBinds, AnchorProducerBinds
<1>4. CASE st.status # "open" /\ st' = NewState(unit) /\ before' = [file |-> file, unit |-> unit]
  <2>1. entry = {} /\ \A f \in Files : file[f] # "new"
    BY <1>1, <1>2, <1>4 DEF Restorable
  <2>2. file \in [Files -> Stored]
    BY <1>1, <2>1 DEF InstallTyped, InstallTypeOK, Stored
  <2>3. st' \in InstallStates /\ st'.status = "open" /\ st'.baseline = unit /\ ~st'.effects
        /\ st'.entries = {} /\ \A f \in Files : st'.resources[f] = "none"
    BY <1>1, <1>4 DEF NewState, InstallStates, InstallTyped, InstallTypeOK
  <2>4. InstallTyped'
    BY <1>1, <1>2, <1>4, <2>2, <2>3
    DEF InstallTyped, InstallTypeOK, InstallSteps, InstallStates
  <2>5. Restorable'
    BY <1>2, <1>4, <2>1, <2>3 DEF Restorable
  <2> QED
    BY <1>1, <1>2, <2>1, <2>3, <2>4, <2>5
    DEF InstallInv, Stopped, HalfInstalledIsQuiet, Attempted, CommittedIsComplete,
        PreflightSources, bundleVars, BundleInv, PythonRuntimeBinds, AnchorProducerBinds
<1> QED
  BY <1>2, <1>3, <1>4 DEF OpenTransaction

(* A step of an attempt leaves the bundle and what was captured before.    *)
LEMMA AttemptKeeps ==
  ASSUME InstallInv, UNCHANGED bundleVars, UNCHANGED before, istep # "idle"
  PROVE  /\ BundleInv' /\ PreflightSources' /\ PreflightSources /\ ~attested
         /\ st.status \in {"open", "COMMITTED"}
         /\ istep \notin {"announce", "rollback"} => st.status = "open"
         /\ (ControllerRuntimeBinds(payload) => ControllerRuntimeBinds(payload)')
  BY DEF InstallInv, Attempted, BundleInv, bundleVars, PreflightSources, PythonRuntimeBinds,
     AnchorProducerBinds, ControllerRuntimeBinds

(* Stopping units, the STOP marker and the runtime (apply).                *)
LEMMA QuiesceKeeps ==
  ASSUME InstallInv, UNCHANGED bundleVars,
         Quiesce \/ EnsureStopMarker \/ ExtractRuntime \/ RecordRuntime
  PROVE  InstallInv'
<1>0. /\ InstallTyped /\ Restorable /\ Stopped /\ Attempted
  BY DEF InstallInv
<1>1. /\ UNCHANGED before /\ istep \in {"quiesce", "marker", "runtime", "record"}
      /\ UNCHANGED <<file, entry, backup, attested, ifaults>>
  BY DEF Quiesce, EnsureStopMarker, ExtractRuntime, RecordRuntime
<1>2. BundleInv' /\ st.status = "open" /\ PreflightSources' /\ ~attested
  BY <1>1, AttemptKeeps
<1>3. CASE Quiesce
  <2>1. /\ st' = [st EXCEPT !.effects = TRUE] /\ unit' = [unit EXCEPT !.active = FALSE]
        /\ istep = "quiesce" /\ istep' = "marker" /\ UNCHANGED <<runtime, marker>>
    BY <1>3 DEF Quiesce
  <2>2. /\ st' \in InstallStates /\ st'.effects /\ st'.status = "open"
        /\ st'.resources = st.resources /\ st'.baseline = st.baseline /\ st'.entries = st.entries
    BY <1>0, <1>2, <2>1 DEF InstallStates, InstallTyped
  <2>3. unit' \in UnitStates /\ ~unit'.active
    BY <1>0, <2>1 DEF InstallTyped, InstallTypeOK, UnitStates
  <2>4. InstallTyped'
    BY <1>0, <1>1, <2>1, <2>2, <2>3
    DEF InstallTyped, InstallTypeOK, InstallStates, InstallSteps
  <2>5. Restorable'
    BY <1>0, <1>1, <1>2, <2>2 DEF Restorable
  <2> QED
    BY <1>0, <1>1, <1>2, <2>1, <2>2, <2>3, <2>4, <2>5
    DEF InstallInv, Stopped, HalfInstalledIsQuiet, Attempted, CommittedIsComplete
<1>4. CASE EnsureStopMarker
  BY <1>0, <1>1, <1>2, <1>4
  DEF EnsureStopMarker, InstallInv, InstallTyped, InstallTypeOK, InstallSteps, Restorable,
      Stopped, HalfInstalledIsQuiet, Attempted, CommittedIsComplete
<1>5. CASE ExtractRuntime
  <2>1. /\ UNCHANGED <<unit, marker, st>> /\ istep = "runtime"
        /\ istep' \in {"record", "files", "rollback"} /\ runtime' \in {runtime, "new"}
    BY <1>5 DEF ExtractRuntime
  <2> QED
    BY <1>0, <1>1, <1>2, <2>1
    DEF InstallInv, InstallTyped, InstallTypeOK, InstallSteps, Restorable,
      Stopped, HalfInstalledIsQuiet, Attempted, CommittedIsComplete
<1>6. CASE RecordRuntime
  <2>1. /\ st' = [st EXCEPT !.runtimeKnown = TRUE]
        /\ istep = "record" /\ istep' = "files" /\ UNCHANGED <<runtime, marker, unit>>
    BY <1>6 DEF RecordRuntime
  <2>2. /\ st' \in InstallStates /\ st'.effects = st.effects /\ st'.status = "open"
        /\ st'.resources = st.resources /\ st'.baseline = st.baseline /\ st'.entries = st.entries
    BY <1>0, <1>2, <2>1 DEF InstallStates, InstallTyped
  <2>3. InstallTyped'
    BY <1>0, <1>1, <2>1, <2>2 DEF InstallTyped, InstallTypeOK, InstallStates, InstallSteps
  <2>4. Restorable'
    BY <1>0, <1>1, <1>2, <2>1, <2>2 DEF Restorable
  <2> QED
    BY <1>0, <1>1, <1>2, <2>1, <2>2, <2>3, <2>4
    DEF InstallInv, Stopped, HalfInstalledIsQuiet, Attempted, CommittedIsComplete
<1> QED
  BY <1>3, <1>4, <1>5, <1>6

(* A target is backed up and recorded before it is replaced               *)
(* (_prepare_resource, _install_files).                                    *)
LEMMA FilesKeep ==
  ASSUME InstallInv, UNCHANGED bundleVars, NEW f \in Files, PrepareResource(f) \/ InstallFile(f)
  PROVE  InstallInv'
<1>0. /\ InstallTyped /\ Restorable /\ Stopped /\ Attempted
  BY DEF InstallInv
<1>1. /\ UNCHANGED <<before, runtime, entry, unit, marker, istep, attested, ifaults>> /\ istep = "files"
  BY DEF PrepareResource, InstallFile
<1>2. BundleInv' /\ st.status = "open" /\ PreflightSources' /\ ~attested
  BY <1>1, AttemptKeeps
<1>3. marker /\ ~unit.active /\ st.effects
  BY <1>0, <1>1 DEF Stopped
<1>4. CASE PrepareResource(f)
  <2>1. /\ st.resources[f] = "none" /\ file' = file
        /\ backup' = [backup EXCEPT ![f] = IF @ = NoFile THEN file[f] ELSE @]
        /\ st' = [st EXCEPT !.resources[f] = IF file[f] = NoFile THEN "absent" ELSE "existed"]
    BY <1>4 DEF PrepareResource
  <2>2. file[f] = before.file[f] /\ file[f] \in Stored
    BY <1>0, <1>2, <2>1 DEF Restorable, InstallTyped
  <2>3. /\ st' \in InstallStates /\ st'.effects = st.effects /\ st'.status = "open"
        /\ st'.baseline = st.baseline /\ st'.entries = st.entries
        /\ st'.resources[f] = (IF file[f] = NoFile THEN "absent" ELSE "existed")
        /\ \A g \in Files \ {f} : st'.resources[g] = st.resources[g]
    BY <1>0, <1>2, <2>1 DEF InstallStates, InstallTyped
  <2>4. backup' \in [Files -> Stored]
    BY <1>0, <2>1, <2>2 DEF InstallTyped
  <2>5. file[f] # NoFile => file[f] = "old" /\ backup'[f] = "old"
    BY <1>0, <2>1, <2>2 DEF InstallTyped, Stored
  <2>6. \A g \in Files \ {f} : backup'[g] = backup[g]
    BY <1>0, <2>1 DEF InstallTyped
  <2>7. InstallTyped'
    BY <1>0, <1>1, <2>1, <2>3, <2>4 DEF InstallTyped, InstallTypeOK, InstallStates
  <2>8. Restorable'
    <3>1. ASSUME NEW g \in Files
          PROVE  /\ st'.resources[g] = "none" => file'[g] = before'.file[g]
                 /\ st'.resources[g] = "absent" => before'.file[g] = NoFile
                 /\ st'.resources[g] = "existed" => before'.file[g] = "old" /\ backup'[g] = "old"
      BY <1>0, <1>1, <1>2, <2>1, <2>2, <2>3, <2>5, <2>6 DEF Restorable
    <3> QED
      BY <1>0, <1>1, <1>2, <1>3, <2>3, <3>1 DEF Restorable
  <2> QED
    BY <1>0, <1>1, <1>2, <1>3, <2>1, <2>3, <2>7, <2>8
    DEF InstallInv, Stopped, HalfInstalledIsQuiet, Attempted, CommittedIsComplete
<1>5. CASE InstallFile(f)
  <2>1. /\ st.resources[f] # "none" /\ file' = [file EXCEPT ![f] = "new"]
        /\ UNCHANGED <<st, backup>>
    BY <1>5 DEF InstallFile
  <2>2. \A g \in Files : file'[g] = IF g = f THEN "new" ELSE file[g]
    BY <1>0, <2>1 DEF InstallTyped, InstallTypeOK
  <2>3. InstallTyped'
    BY <1>0, <1>1, <2>1 DEF InstallTyped, InstallTypeOK
  <2>4. Restorable'
    BY <1>0, <1>1, <1>2, <1>3, <2>1, <2>2 DEF Restorable
  <2> QED
    BY <1>0, <1>1, <1>2, <1>3, <2>1, <2>3, <2>4
    DEF InstallInv, Stopped, HalfInstalledIsQuiet, Attempted, CommittedIsComplete
<1> QED
  BY <1>4, <1>5

(* The snapshot, its entries recorded first (_install_repository_snapshot) *)
LEMMA EntriesKeep ==
  ASSUME InstallInv, UNCHANGED bundleVars, NEW e \in Entries, PrepareEntry(e) \/ InstallEntry(e)
  PROVE  InstallInv'
<1>0. /\ InstallTyped /\ Restorable /\ Stopped /\ Attempted
  BY DEF InstallInv
<1>1. /\ UNCHANGED <<before, runtime, file, unit, marker, backup, attested, ifaults>> /\ istep = "snapshot"
      /\ istep' \in {"snapshot", "rollback"}
  BY DEF PrepareEntry, InstallEntry
<1>2. BundleInv' /\ st.status = "open" /\ PreflightSources' /\ ~attested
  BY <1>1, AttemptKeeps
<1>3. \/ entry' = entry /\ st' = [st EXCEPT !.entries = @ \cup {e}]
      \/ entry' \subseteq entry \cup st.entries /\ st' = st
  BY DEF PrepareEntry, InstallEntry
<1>4. /\ st' \in InstallStates /\ st'.effects = st.effects /\ st'.status = "open"
      /\ st'.baseline = st.baseline /\ st'.resources = st.resources
      /\ entry' \subseteq st'.entries
  BY <1>0, <1>2, <1>3 DEF InstallStates, InstallTyped, Restorable
<1>5. InstallTyped'
  BY <1>0, <1>1, <1>4 DEF InstallTyped, InstallTypeOK, InstallStates, InstallSteps
<1>6. Restorable'
  BY <1>0, <1>1, <1>2, <1>4 DEF Restorable
<1> QED
  BY <1>0, <1>1, <1>2, <1>4, <1>5, <1>6
  DEF InstallInv, Stopped, HalfInstalledIsQuiet, Attempted, CommittedIsComplete

(* Attestation, enabling and the commit. *)
LEMMA CommitKeeps ==
  ASSUME InstallInv, UNCHANGED bundleVars, NextPhase \/ EnablePaths \/ SaveCommitted \/ RecordCommit
  PROVE  InstallInv'
<1>0. /\ InstallTyped /\ Restorable /\ Stopped /\ Attempted
  BY DEF InstallInv
<1>1. /\ UNCHANGED <<before, runtime, file, entry, marker, backup, ifaults>> /\ istep # "idle"
  BY DEF NextPhase, EnablePaths, SaveCommitted, RecordCommit
<1>2. /\ BundleInv' /\ PreflightSources' /\ ~attested
      /\ istep # "announce" => st.status = "open"
  <2>1. istep # "rollback"
    BY DEF NextPhase, EnablePaths, SaveCommitted, RecordCommit
  <2> QED
    BY <1>1, <2>1, AttemptKeeps
<1>3. TreeAttested /\ st' = st => TreeAttested'
  BY <1>1, AttemptKeeps
  DEF TreeAttested, FilesDone, EntriesDone, RuntimeInstalled
<1>4. CASE NextPhase
  <2>1. /\ UNCHANGED <<unit, st, attested>> /\ istep \in {"files", "snapshot", "attest"}
        /\ istep' \in {"snapshot", "attest", "enable", "rollback"}
        /\ istep' = "enable" => TreeAttested
    BY <1>4 DEF NextPhase
  <2>2. InstallTyped' /\ Restorable'
    BY <1>0, <1>1, <2>1 DEF InstallTyped, InstallTypeOK, InstallSteps, Restorable
  <2> QED
    BY <1>0, <1>1, <1>2, <1>3, <2>1, <2>2
    DEF InstallInv, Stopped, HalfInstalledIsQuiet, Attempted, CommittedIsComplete
<1>5. CASE EnablePaths
  <2>1. /\ unit' = [enabled |-> TRUE, active |-> TRUE] /\ st' = st /\ attested' = attested
        /\ istep = "enable" /\ istep' = "commit"
    BY <1>5 DEF EnablePaths
  <2>2. TreeAttested' /\ \A f \in Files : file'[f] = "new"
    BY <1>0, <1>1, <1>3, <2>1 DEF Attempted, TreeAttested, FilesDone
  <2>3. unit' \in UnitStates /\ unit'.active /\ st.effects
    BY <1>0, <2>1 DEF UnitStates, Stopped
  <2>4. InstallTyped' /\ Restorable'
    BY <1>0, <1>1, <1>2, <2>1, <2>3
    DEF InstallTyped, InstallTypeOK, InstallSteps, Restorable
  <2> QED
    BY <1>0, <1>1, <1>2, <2>1, <2>2, <2>3, <2>4
    DEF InstallInv, Stopped, HalfInstalledIsQuiet, Attempted, CommittedIsComplete
<1>6. CASE SaveCommitted
  <2>1. /\ st' = [st EXCEPT !.status = "COMMITTED"] /\ UNCHANGED <<unit, attested>>
        /\ istep = "commit" /\ istep' = "announce"
    BY <1>6 DEF SaveCommitted
  <2>2. /\ st' \in InstallStates /\ st'.status = "COMMITTED" /\ st'.effects = st.effects
        /\ st'.resources = st.resources /\ st'.baseline = st.baseline
        /\ st'.entries = st.entries /\ st'.runtimeKnown = st.runtimeKnown
    BY <1>0, <2>1 DEF InstallTyped, InstallStates
  <2>3. TreeAttested' /\ FullyInstalled' /\ unit.active
    BY <1>0, <1>1, <2>1, <2>2, AttemptKeeps
    DEF Attempted, TreeAttested, FilesDone, EntriesDone, RuntimeInstalled, FullyInstalled
  <2>4. InstallTyped' /\ Restorable'
    BY <1>0, <1>1, <1>2, <2>1, <2>2
    DEF InstallTyped, InstallTypeOK, InstallSteps, Restorable
  <2> QED
    BY <1>0, <1>1, <1>2, <2>1, <2>2, <2>3, <2>4
    DEF InstallInv, Stopped, HalfInstalledIsQuiet, Attempted, CommittedIsComplete, TreeAttested
<1>7. CASE RecordCommit
  <2>1. /\ attested' = TRUE /\ UNCHANGED <<unit, st>> /\ istep = "announce" /\ istep' = "idle"
    BY <1>7 DEF RecordCommit
  <2>2. FullyInstalled' /\ ControllerRuntimeBinds(payload)' /\ st.status = "COMMITTED"
    BY <1>0, <1>1, <2>1, AttemptKeeps
    DEF Attempted, CommittedIsComplete, FullyInstalled, TreeAttested
  <2>3. InstallTyped' /\ Restorable'
    BY <1>0, <1>1, <2>1 DEF InstallTyped, InstallTypeOK, InstallSteps, Restorable
  <2> QED
    BY <1>0, <1>1, <1>2, <2>1, <2>2, <2>3
    DEF InstallInv, Stopped, HalfInstalledIsQuiet, Attempted, CommittedIsComplete
<1> QED
  BY <1>4, <1>5, <1>6, <1>7

(* A committed transaction that is whole is attested again (apply).        *)
LEMMA AttestKeeps ==
  ASSUME InstallInv, UNCHANGED bundleVars, AttestCommitted PROVE InstallInv'
<1>1. /\ istep = "idle" /\ st.status = "COMMITTED" /\ TreeAttested /\ unit.active /\ attested' = TRUE
      /\ UNCHANGED <<file, runtime, entry, unit, marker, st, backup, istep, before, ifaults>>
  BY DEF AttestCommitted
<1>2. FullyInstalled'
  BY <1>1 DEF TreeAttested, FilesDone, EntriesDone, RuntimeInstalled, FullyInstalled
<1>3. BundleInv' /\ PreflightSources' /\ ControllerRuntimeBinds(payload)'
  BY <1>1 DEF InstallInv, Attempted, BundleInv, bundleVars, PreflightSources, PythonRuntimeBinds,
     AnchorProducerBinds, ControllerRuntimeBinds
<1> QED
  BY <1>1, <1>2, <1>3
  DEF InstallInv, InstallTyped, InstallTypeOK, Restorable, Stopped, HalfInstalledIsQuiet, Attempted,
      CommittedIsComplete

(* A rollback puts back every target and the unit, or a part of them when  *)
(* it dies, and nothing that was not replaced (rollback).                  *)
LEMMA RollbackKeeps ==
  ASSUME InstallInv, UNCHANGED bundleVars, Rollback
  PROVE  /\ InstallInv'
         /\ st'.status = "ROLLED_BACK" => file' = before.file /\ unit' = before.unit /\ entry' = {}
<1>0. /\ InstallTyped /\ Restorable /\ Stopped /\ Attempted
  BY DEF InstallInv
<1>1. /\ UNCHANGED <<marker, backup, before, attested>> /\ istep = "rollback" /\ istep' = "idle"
  BY DEF Rollback
<1>2. BundleInv' /\ st.status \in {"open", "COMMITTED"} /\ PreflightSources' /\ ~attested
  BY <1>1, AttemptKeeps
<1> DEFINE Recorded == {f \in Files : st.resources[f] # "none"}
<1>3. PICK es \in SUBSET st.entries, fs \in SUBSET Recorded, stage \in {"files", "runtime", "done"} :
         /\ stage # "files" => fs = Recorded /\ es = st.entries
         /\ entry' = entry \ es
         /\ file' = [f \in Files |-> IF f \in fs THEN Restored(f) ELSE file[f]]
         /\ runtime' \in {runtime, NoFile, "partial"}
         /\ unit' = IF stage = "done" /\ st.effects THEN st.baseline ELSE StoppedUnit
         /\ IF stage = "done"
            THEN st' = [st EXCEPT !.status = "ROLLED_BACK"] /\ UNCHANGED ifaults
            ELSE InstallFault /\ UNCHANGED st
  BY DEF Rollback
<1>4. \A f \in Files : f \notin fs => file'[f] = file[f]
  BY <1>3
<1>5. \A f \in Files : f \in fs => file'[f] = before.file[f]
  BY <1>0, <1>2, <1>3 DEF Restored, Restorable, InstallTyped, InstallStates
<1>6. \A f \in Files : before.file[f] \in Stored /\ before.file[f] # "new"
  BY <1>0 DEF InstallTyped, Stored, NoFile
<1>7. \A f \in Files : st.resources[f] = "none" => file'[f] = before.file[f]
  BY <1>0, <1>2, <1>3, <1>4 DEF Restorable
<1>8. file' \in [Files -> {NoFile, "old", "new"}]
  <2>1. \A f \in Files : file'[f] \in {NoFile, "old", "new"}
    BY <1>0, <1>4, <1>5, <1>6 DEF InstallTyped, InstallTypeOK, Stored
  <2> HIDE DEF Recorded
  <2> QED
    BY <1>3, <2>1
<1>9. /\ st' \in InstallStates /\ st'.resources = st.resources /\ st'.baseline = st.baseline
      /\ st'.effects = st.effects /\ st'.entries = st.entries
      /\ st'.status = (IF stage = "done" THEN "ROLLED_BACK" ELSE st.status)
  BY <1>0, <1>2, <1>3 DEF InstallTyped, InstallStates
<1>10. ifaults' \in 0 .. MaxInstallFaults
  BY <1>0, <1>3, InstallerAssumption DEF InstallTyped, InstallTypeOK, InstallFault
<1>11. unit' \in UnitStates /\ (stage # "done" => unit' = StoppedUnit)
  BY <1>0, <1>3 DEF InstallTyped, InstallTypeOK, InstallStates, UnitStates, StoppedUnit
<1>12. InstallTyped'
  <2>1. runtime' \in {NoFile, "partial", "new"} /\ entry' \subseteq Entries
    BY <1>0, <1>3 DEF InstallTyped, InstallTypeOK
  <2>2. InstallTypeOK'
    BY <1>0, <1>1, <1>8, <1>9, <1>10, <1>11, <2>1 DEF InstallTyped, InstallTypeOK, InstallStates
  <2> QED
    BY <1>0, <1>1, <1>9, <2>2 DEF InstallTyped, InstallSteps
<1>13. CASE stage = "done"
  <2>1. \A f \in Files : file'[f] = before.file[f]
    BY <1>3, <1>5, <1>7, <1>13
  <2>2. file' = before.file
    <3>1. before.file \in [Files -> Stored]
      BY <1>0 DEF InstallTyped
    <3>2. before.file = [f \in Files |-> before.file[f]] /\ file' = [f \in Files |-> file'[f]]
      BY <1>8, <3>1
    <3> QED
      BY <2>1, <3>2
  <2>3. unit' = before.unit
    BY <1>0, <1>2, <1>3, <1>13 DEF StoppedUnit, Restorable
  <2>4. entry' = {}
    BY <1>0, <1>2, <1>3, <1>13 DEF Restorable
  <2> QED
    BY <1>1, <1>2, <1>6, <1>9, <1>12, <1>13, <2>1, <2>2, <2>3, <2>4
    DEF InstallInv, Restorable, Stopped, HalfInstalledIsQuiet, Attempted, CommittedIsComplete
<1>14. CASE stage # "done"
  <2>1. st' = st /\ unit' = StoppedUnit
    BY <1>3, <1>14
  <2>2. ~st.effects => unit' = before.unit /\ \A f \in Files : st.resources[f] = "none"
    BY <1>0, <1>2, <2>1 DEF StoppedUnit, Restorable
  <2>3. \A f \in Files : file'[f] = "new" => file[f] = "new" /\ st.effects
    BY <1>4, <1>5, <1>6, <1>7, <2>2
  <2>4. st.effects => (unit'.active => st.baseline.active)
    BY <1>0, <2>1 DEF StoppedUnit, InstallTyped, InstallTypeOK, UnitStates
  <2>5. Restorable'
    BY <1>0, <1>1, <1>2, <1>3, <1>7, <2>1, <2>2 DEF Restorable
  <2>6. Stopped'
    BY <1>0, <1>1, <2>1, <2>3, <2>4 DEF Stopped, HalfInstalledIsQuiet
  <2>7. Attempted'
    BY <1>0, <1>1, <1>2, <2>1, AttemptKeeps DEF Attempted, CommittedIsComplete
  <2> QED
    BY <1>2, <1>9, <1>12, <1>14, <2>5, <2>6, <2>7 DEF InstallInv
<1> QED
  BY <1>13, <1>14

(* A step that raises, or a death (apply). *)
LEMMA FailureKeeps ==
  ASSUME InstallInv, UNCHANGED bundleVars, InstallFails PROVE InstallInv'
<1>0. /\ InstallTyped /\ Restorable /\ Stopped /\ Attempted
  BY DEF InstallInv
<1>1. /\ UNCHANGED <<before, runtime, file, entry, unit, marker, st, backup, attested>> /\ istep # "idle"
      /\ istep' \in {"idle", "rollback"}
      /\ ifaults < MaxInstallFaults /\ ifaults' = ifaults + 1
  BY DEF InstallFails, InstallFault
<1>2. BundleInv' /\ st.status \in {"open", "COMMITTED"} /\ PreflightSources' /\ ~attested
  BY <1>1, AttemptKeeps
<1>3. ifaults' \in 0 .. MaxInstallFaults
  BY <1>0, <1>1, InstallerAssumption DEF InstallTyped, InstallTypeOK
<1>4. InstallTyped'
  BY <1>0, <1>1, <1>3 DEF InstallTyped, InstallTypeOK, InstallSteps
<1>5. st.status = "COMMITTED" => ControllerRuntimeBinds(payload)'
  BY <1>0, <1>1, AttemptKeeps DEF Attempted
<1> QED
  BY <1>0, <1>1, <1>2, <1>4, <1>5
  DEF InstallInv, Restorable, Stopped, HalfInstalledIsQuiet, Attempted, CommittedIsComplete

(* Every step of the installer keeps the invariant, and one that writes    *)
(* ROLLED_BACK has put everything back.                                    *)
LEMMA InstallerKeeps ==
  ASSUME InstallInv, UNCHANGED bundleVars, InstallNext
  PROVE  /\ InstallInv'
         /\ st.status # "ROLLED_BACK" /\ st'.status = "ROLLED_BACK"
              => file' = before.file /\ unit' = before.unit /\ entry' = {}
<1>0. InstallTyped
  BY DEF InstallInv
<1>1. CASE Rollback
  BY <1>1, RollbackKeeps
<1>2. CASE Apply \/ InstallFails
  <2>1. InstallInv'
    <3>1. CASE \E f \in Files : PrepareResource(f) \/ InstallFile(f)
      BY <3>1, FilesKeep
    <3>2. CASE \E e \in Entries : PrepareEntry(e) \/ InstallEntry(e)
      BY <3>2, EntriesKeep
    <3> QED
      BY <1>2, <3>1, <3>2, OpenTransactionKeeps, QuiesceKeeps, CommitKeeps, AttestKeeps,
         FailureKeeps
      DEF Apply
  <2>2. st'.status # "ROLLED_BACK" \/ st'.status = st.status
    <3>1. CASE OpenTransaction
      BY <3>1 DEF OpenTransaction, NewState
    <3>2. CASE Apply /\ ~OpenTransaction
      <4>1. CASE Quiesce
        BY <1>0, <4>1 DEF Quiesce, InstallTyped, InstallStates
      <4>2. CASE \/ EnsureStopMarker \/ ExtractRuntime \/ NextPhase \/ EnablePaths
                 \/ RecordCommit \/ AttestCommitted
        BY <4>2 DEF EnsureStopMarker, ExtractRuntime, NextPhase, EnablePaths, RecordCommit, AttestCommitted
      <4>3. CASE RecordRuntime
        BY <1>0, <4>3 DEF RecordRuntime, InstallTyped, InstallStates
      <4>4. CASE SaveCommitted
        BY <1>0, <4>4 DEF SaveCommitted, InstallTyped, InstallStates
      <4>5. CASE \E f \in Files : PrepareResource(f) \/ InstallFile(f)
        BY <1>0, <4>5 DEF PrepareResource, InstallFile, InstallTyped, InstallStates
      <4>6. CASE \E e \in Entries : PrepareEntry(e) \/ InstallEntry(e)
        BY <1>0, <4>6 DEF PrepareEntry, InstallEntry, InstallTyped, InstallStates
      <4> QED
        BY <3>2, <4>1, <4>2, <4>3, <4>4, <4>5, <4>6 DEF Apply
    <3>3. CASE InstallFails
      BY <3>3 DEF InstallFails
    <3> QED
      BY <1>2, <3>1, <3>2, <3>3
  <2> QED
    BY <2>1, <2>2
<1> QED
  BY <1>1, <1>2 DEF InstallNext

(* What the bundle does before the installer starts leaves it alone.       *)
LEMMA BundleKeepsInstall ==
  ASSUME InstallInv, BundleNext, UNCHANGED installVars PROVE InstallInv'
<1>1. BundleInv' /\ bstep # "staged"
  BY BundleSteps DEF InstallInv
<1>2. istep = "idle" /\ st.status # "COMMITTED" /\ ~attested
  BY <1>1 DEF InstallInv, Attempted, CommittedIsComplete, PreflightSources
<1> QED
  BY <1>1, <1>2
  DEF InstallInv, installVars, InstallTyped, InstallTypeOK, Restorable, Stopped,
      HalfInstalledIsQuiet, Attempted, CommittedIsComplete

(* Nobody else changes what the installer keeps.                           *)
LEMMA StutterKeepsInstall ==
  ASSUME InstallInv, UNCHANGED <<bundleVars, installVars>> PROVE InstallInv'
  BY DEF InstallInv, bundleVars, installVars, InstallTyped, InstallTypeOK, Restorable, Stopped,
      HalfInstalledIsQuiet, Attempted, CommittedIsComplete, FullyInstalled, TreeAttested, FilesDone, EntriesDone,
      RuntimeInstalled, ControllerRuntimeBinds, PreflightSources, PythonRuntimeBinds,
      AnchorProducerBinds, BundleInv

(* The invariant gives what the run checks. *)
LEMMA InstallInvIsSound ==
  ASSUME InstallInv PROVE InstallationIsSound
<1>1. CommittedIsOneBuild
  <2>1. CASE st.status = "COMMITTED" /\ edits = 0
    BY <2>1 DEF InstallInv, BundleInv, Attempted, PreflightSources, CommittedIsOneBuild
  <2>2. CASE st.status = "COMMITTED" /\ edits # 0
    BY <2>2 DEF InstallInv, Attempted, PreflightSources, ControllerRuntimeBinds,
       PythonRuntimeBinds, AnchorProducerBinds, CommittedIsOneBuild, Revalidated
  <2> QED
    BY <2>1, <2>2 DEF CommittedIsOneBuild
<1> QED
  BY <1>1 DEF InstallInv, InstallTyped, Stopped, Attempted, InstallationIsSound

-----------------------------------------------------------------------------
(* The refresh. *)
(* The parts, by name, and the length of the two orders.                    *)
LEMMA PartNames ==
  /\ Parts = {"boundary", "manifest", "environment", "config", "genManifest", "pointer"}
  /\ Len(SwitchOrder) = 6 /\ DOMAIN SwitchOrder = 1 .. 6 /\ Len(RollbackOrder) = 6
  /\ Runtime \subseteq Parts
<1>1. DOMAIN SwitchOrder = 1 .. 6 /\ Len(SwitchOrder) = 6 /\ Len(RollbackOrder) = 6
  BY DEF SwitchOrder, RollbackOrder
<1>2. Parts = {"boundary", "manifest", "environment", "config", "genManifest", "pointer"}
  BY <1>1 DEF Parts, SwitchOrder
<1> QED
  BY <1>1, <1>2 DEF Runtime

(* The writes a rollback has made when it stops after n of them.           *)
LEMMA Undone ==
  ASSUME RefreshTyped, NEW h \in Handoffs, NEW n \in 0 .. 6
  PROVE  /\ RolledBack(h, n) \in [Parts -> 0 .. MaxMain]
         /\ RolledBack(h, n)["boundary"] = IF n < 2 \/ moved[h] = 0 THEN part["boundary"] ELSE moved[h]
         /\ RolledBack(h, n)["manifest"] = IF n < 3 THEN part["manifest"] ELSE journal[h].prev["manifest"]
         /\ n = 6 => \A p \in {"environment", "config"} :
                        RolledBack(h, n)[p] = journal[h].prev[p]
<1> DEFINE done == {RollbackOrder[i] : i \in 1 .. n}
<1>1. /\ part \in [Parts -> 0 .. MaxMain] /\ journal[h].prev \in [Parts -> 0 .. MaxMain]
      /\ moved[h] \in 0 .. MaxMain
  BY DEF RefreshTyped, RefreshTypeOK
<1>2. "boundary" \in done <=> n >= 2
  BY DEF RollbackOrder
<1>3. "manifest" \in done <=> n >= 3
  BY DEF RollbackOrder
<1>4. n = 6 => "environment" \in done /\ "config" \in done
  BY DEF RollbackOrder
<1>5. RolledBack(h, n) =
        [p \in Parts |-> IF p \notin done THEN part[p]
                         ELSE IF p = "boundary" /\ moved[h] = 0 THEN part[p]
                         ELSE IF p = "boundary" THEN moved[h]
                         ELSE journal[h].prev[p]]
  BY DEF RolledBack
<1> HIDE DEF done
<1>6. RolledBack(h, n) \in [Parts -> 0 .. MaxMain]
  <2>1. \A p \in Parts : part[p] \in 0 .. MaxMain /\ journal[h].prev[p] \in 0 .. MaxMain
    BY <1>1
  <2> QED
    BY <1>1, <1>5, <2>1
<1>7. {"boundary", "manifest", "environment", "config"} \subseteq Parts
  BY PartNames
<1> QED
  BY <1>2, <1>3, <1>4, <1>5, <1>6, <1>7

(* Nothing of the start is a switch. *)
LEMMA RefreshStarts ==
  ASSUME RefreshInit PROVE RefreshInv
<1>1. /\ part \in [Parts -> 0 .. MaxMain] /\ moved \in [Handoffs -> 0 .. MaxMain]
      /\ journal \in [Handoffs -> [phase : Phases, created : BOOLEAN, prev : [Parts -> 0 .. MaxMain]]]
      /\ \A h \in Handoffs : journal[h].phase = "none" /\ moved[h] = 0
  BY RefreshAssumption DEF RefreshInit, NoJournal, Phases
<1>2. RefreshTypeOK
  <2>1. UNION {proposed, claimed, consumed, completed, inbox} = {}
    BY DEF RefreshInit
  <2>2. anchor \in Mains /\ rfaults \in 0 .. MaxRefreshFaults /\ gens \subseteq Mains
    BY RefreshAssumption DEF RefreshInit, Mains
  <2>3. controlling \in BOOLEAN /\ \A h \in Handoffs : journal[h].phase \in Phases
    BY <1>1 DEF RefreshInit, Phases
  <2> QED
    BY <1>1, <2>1, <2>2, <2>3 DEF RefreshTypeOK
<1>3. RefreshTyped
  <2>1. part["manifest"] = 1
    BY PartNames DEF RefreshInit
  <2> QED
    BY <1>1, <1>2, <2>1 DEF RefreshInit, RefreshTyped, RefreshSteps
<1>4. RuntimeAttested
  BY PartNames DEF RefreshInit, RuntimeAttested
<1>5. \A h \in Handoffs : ~Open(h)
  BY <1>1 DEF Open
<1> QED
  BY <1>1, <1>3, <1>4, <1>5
  DEF RefreshInit, RefreshInv, Following, Switching, MixtureIsJournalled

(* The controller and the brokers touch neither the parts nor a journal.   *)
LEMMA BrokersKeep ==
  ASSUME RefreshInv,
         AnchorMoves \/ ControllerStarts \/ ControllerStops \/ Propose \/ ClaimPending
           \/ PublishCompletions
  PROVE  RefreshInv'
<1>1. /\ UNCHANGED <<part, moved, gens, consumed, journal, completed, rstep, rh, rfaults>>
      /\ claimed \subseteq claimed' /\ inbox' \subseteq inbox \cup completed
  BY DEF AnchorMoves, ControllerStarts, ControllerStops, Propose, ClaimPending, PublishCompletions
<1>2. RefreshTyped /\ RefreshTypeOK /\ Following /\ Switching /\ MixtureIsJournalled
  BY DEF RefreshInv, RefreshTyped
<1>3. RefreshTypeOK'
  <2>1. anchor' \in Mains /\ controlling' \in BOOLEAN
    <3>1. anchor \in 1 .. MaxMain /\ controlling \in BOOLEAN
      BY <1>2 DEF RefreshTypeOK, Mains
    <3>2. \/ anchor' = anchor
          \/ anchor < MaxMain /\ anchor' = anchor + 1
      BY DEF AnchorMoves, ControllerStarts, ControllerStops, Propose, ClaimPending, PublishCompletions
    <3>3. controlling' \in {controlling, TRUE, FALSE}
      BY DEF AnchorMoves, ControllerStarts, ControllerStops, Propose, ClaimPending, PublishCompletions
    <3>4. anchor' \in Mains
      BY <3>1, <3>2, RefreshAssumption DEF Mains
    <3> QED
      BY <3>1, <3>3, <3>4
  <2>2. /\ proposed \subseteq Handoffs /\ claimed \subseteq Handoffs /\ consumed \subseteq Handoffs
        /\ completed \subseteq Handoffs /\ inbox \subseteq Handoffs
    BY <1>2 DEF RefreshTypeOK
  <2>3. proposed' \subseteq Handoffs
    <3>1. CASE Propose
      <4>1. part["manifest"] \in 0 .. MaxMain /\ anchor \in Mains /\ part["manifest"] < anchor
        BY <1>2, <3>1, PartNames DEF RefreshTypeOK, Propose
      <4>2. part["manifest"] # 0
        BY <1>2 DEF RefreshTyped
      <4> QED
        BY <2>2, <3>1, <4>1, <4>2 DEF Propose, Handoffs, Mains
    <3> QED
      BY <2>2, <3>1 DEF AnchorMoves, ControllerStarts, ControllerStops, ClaimPending, PublishCompletions
  <2>4. claimed' \subseteq Handoffs /\ inbox' \subseteq Handoffs
    BY <1>1, <2>2
    DEF AnchorMoves, ControllerStarts, ControllerStops, Propose, ClaimPending, PublishCompletions
  <2>5. UNION {proposed', claimed', consumed', completed', inbox'} \subseteq Handoffs
    BY <1>1, <2>2, <2>3, <2>4
  <2> QED
    BY <1>1, <1>2, <2>1, <2>5 DEF RefreshTypeOK
<1> QED
  BY <1>1, <1>2, <1>3
  DEF RefreshInv, RefreshTyped, Following, Switching, Open, Kept, Floor, PreAttested,
      MixtureIsJournalled, RuntimeAttested

(* Putting back an open switch, completely or until a death, keeps the     *)
(* invariant (_rollback_switch).                                           *)
LEMMA PuttingBackKeeps ==
  ASSUME RefreshInv, NEW h \in Handoffs, Open(h), NEW n \in 0 .. 6,
         part' = RolledBack(h, n),
         moved' = IF n >= 2 THEN [moved EXCEPT ![h] = 0] ELSE moved,
         \/ n = 6 /\ SetPhase(h, "ROLLED_BACK") /\ gens' \subseteq gens
         \/ UNCHANGED <<journal, gens>>,
         rstep' = "idle", rfaults' \in 0 .. MaxRefreshFaults,
         UNCHANGED <<proposed, claimed, consumed, completed, inbox, anchor, controlling>>
  PROVE  RefreshInv'
<1>1. /\ RefreshTyped /\ RefreshTypeOK /\ Switching
      /\ \A g \in completed : journal[g].phase = "COMMITTED" /\ g.to <= part["manifest"]
      /\ inbox \subseteq completed /\ completed \subseteq Handoffs
  BY DEF RefreshInv, RefreshTyped, RefreshTypeOK
<1>2. /\ Kept(h) /\ Floor(h.from) /\ h \notin completed /\ h \in claimed
      /\ \A g \in Handoffs : Open(g) => g = h
  BY <1>1 DEF Switching, Open
<1>3. h.from \in Nat /\ h.from # 0
  BY DEF Handoffs, Mains
<1>4. \A p \in Runtime : journal[h].prev[p] = h.from
  BY <1>2 DEF Kept
<1>5. /\ part' \in [Parts -> 0 .. MaxMain]
      /\ part'["boundary"] = IF n < 2 \/ moved[h] = 0 THEN part["boundary"] ELSE moved[h]
      /\ part'["manifest"] = IF n < 3 THEN part["manifest"] ELSE h.from
      /\ n = 6 => part'["environment"] = h.from /\ part'["config"] = h.from
  BY <1>1, <1>4, Undone DEF Runtime
<1>6. /\ moved' \in [Handoffs -> 0 .. MaxMain]
      /\ moved'[h] = IF n >= 2 THEN 0 ELSE moved[h]
      /\ \A g \in Handoffs : moved'[g] \in {0, g.from}
  <2>1. moved \in [Handoffs -> 0 .. MaxMain] /\ 0 \in 0 .. MaxMain
        /\ \A g \in Handoffs : moved[g] \in {0, g.from}
    BY <1>1, RefreshAssumption DEF RefreshTyped, RefreshTypeOK
  <2>2. CASE n >= 2
    <3>1. moved' = [moved EXCEPT ![h] = 0]
      BY <2>2
    <3>2. moved'[h] = 0 /\ moved' \in [Handoffs -> 0 .. MaxMain]
          /\ \A g \in Handoffs : moved'[g] \in {0, moved[g]}
      BY <2>1, <3>1
    <3> QED
      BY <2>1, <2>2, <3>2
  <2>3. CASE ~(n >= 2)
    BY <2>1, <2>3
  <2> QED
    BY <2>2, <2>3
<1>7. /\ journal' \in [Handoffs -> [phase : Phases, created : BOOLEAN, prev : [Parts -> 0 .. MaxMain]]]
      /\ \A g \in Handoffs : /\ journal'[g].prev = journal[g].prev
                             /\ g # h => journal'[g] = journal[g]
      /\ journal'[h].phase = "ROLLED_BACK" \/ journal' = journal
  <2> DEFINE J == [phase : Phases, created : BOOLEAN, prev : [Parts -> 0 .. MaxMain]]
  <2>1. journal \in [Handoffs -> J]
    BY <1>1 DEF RefreshTyped
  <2>2. CASE SetPhase(h, "ROLLED_BACK")
    <3>1. journal[h] \in J
      BY <2>1
    <3>2. [journal[h] EXCEPT !.phase = "ROLLED_BACK"] \in J
      BY <3>1 DEF Phases
    <3>3. [journal[h] EXCEPT !.phase = "ROLLED_BACK"].prev = journal[h].prev
          /\ [journal[h] EXCEPT !.phase = "ROLLED_BACK"].phase = "ROLLED_BACK"
      BY <3>1
    <3>4. journal' = [journal EXCEPT ![h] = [journal[h] EXCEPT !.phase = "ROLLED_BACK"]]
      BY <2>2 DEF SetPhase
    <3> HIDE DEF J
    <3>5. journal' \in [Handoffs -> J]
      BY <2>1, <3>2, <3>4
    <3>6. \A g \in Handoffs : journal'[g] = IF g = h THEN [journal[h] EXCEPT !.phase = "ROLLED_BACK"]
                                            ELSE journal[g]
      BY <2>1, <3>4
    <3> QED
      BY <3>3, <3>5, <3>6 DEF J
  <2>3. CASE journal' = journal
    BY <2>1, <2>3
  <2> QED
    BY <2>2, <2>3
<1>8. part'["manifest"] # 0 /\ part'["manifest"] \in Nat /\ part["manifest"] \in Nat
  BY <1>1, <1>3, <1>5, PartNames DEF RefreshTyped, RefreshTypeOK
<1>9. RefreshTyped'
  <2>1. RefreshTypeOK'
    <3>1. \A g \in Handoffs : journal'[g].phase \in Phases
      BY <1>7
    <3> QED
      BY <1>1, <1>5, <1>6, <3>1 DEF RefreshTypeOK
  <2> QED
    BY <1>6, <1>7, <1>8, <2>1 DEF RefreshTyped, RefreshSteps
<1>10. \A g \in completed : journal'[g].phase = "COMMITTED" /\ g.to <= part'["manifest"]
  BY <1>1, <1>2, <1>5, <1>7 DEF Floor
<1>11. \A g \in Handoffs : Open(g)' => g = h /\ journal' = journal
  BY <1>2, <1>7 DEF Open
<1>12. Kept(h)'
  BY <1>1, <1>2, <1>5, <1>6, <1>7 DEF Kept, RefreshTyped
<1>13. Switching'
  BY <1>2, <1>11, <1>12 DEF Switching, Floor
<1>14. MixtureIsJournalled'
  <2>1. CASE journal' = journal
    BY <1>2, <2>1 DEF MixtureIsJournalled, Open
  <2>2. CASE n = 6
    <3>1. part'["boundary"] = h.from
      BY <1>2, <1>3, <1>5, <2>2 DEF Kept
    <3> QED
      BY <1>5, <2>2, <3>1 DEF MixtureIsJournalled, RuntimeAttested
  <2> QED
    BY <2>1, <2>2
<1> QED
  BY <1>1, <1>9, <1>10, <1>13, <1>14 DEF RefreshInv, Following

(* A step that moves only the service's own place and journal entry.       *)
LEMMA JournalSet ==
  ASSUME RefreshTyped, NEW h \in Handoffs, NEW e,
         e \in [phase : Phases, created : BOOLEAN, prev : [Parts -> 0 .. MaxMain]],
         journal' = [journal EXCEPT ![h] = e]
  PROVE  /\ journal' \in [Handoffs -> [phase : Phases, created : BOOLEAN, prev : [Parts -> 0 .. MaxMain]]]
         /\ \A g \in Handoffs : journal'[g].phase \in Phases
         /\ journal'[h] = e
         /\ \A g \in Handoffs : g # h => journal'[g] = journal[g]
<1> DEFINE J == [phase : Phases, created : BOOLEAN, prev : [Parts -> 0 .. MaxMain]]
<1>1. journal \in [Handoffs -> J] /\ e \in J
  BY DEF RefreshTyped
<1>2. \A x \in J : x.phase \in Phases
  OBVIOUS
<1> HIDE DEF J
<1>3. journal' \in [Handoffs -> J] /\ journal'[h] = e /\ \A g \in Handoffs : g # h => journal'[g] = journal[g]
  BY <1>1
<1>4. \A g \in Handoffs : journal'[g].phase \in Phases
  BY <1>2, <1>3
<1> QED
  BY <1>3, <1>4 DEF J

(* The start of a refresh, or the rollback of an interrupted one           *)
(* (process_pending, refresh).                                             *)
LEMMA StartKeeps ==
  ASSUME RefreshInv, NEW h \in Handoffs, StartRefresh(h) PROVE RefreshInv'
<1>0. /\ RefreshTyped /\ RefreshTypeOK /\ Switching /\ MixtureIsJournalled
      /\ \A g \in completed : journal[g].phase = "COMMITTED" /\ g.to <= part["manifest"]
      /\ inbox \subseteq completed /\ completed \subseteq Handoffs
  BY DEF RefreshInv, RefreshTyped, RefreshTypeOK
<1>1. /\ rstep = "idle" /\ claimed = {h} /\ RuntimeAttested /\ part["manifest"] = h.from
      /\ UNCHANGED <<proposed, claimed, consumed, inbox, anchor, controlling>>
  BY DEF StartRefresh, PreAttested
<1>2. h.from \in Nat /\ h.to \in Nat /\ h.from < h.to
  BY DEF Handoffs, Mains
<1>3. h \notin completed /\ Floor(h.from)
  BY <1>0, <1>1, <1>2 DEF Floor
<1>4. CASE journal[h].phase \in {"SWITCHING", "SWITCHED"} /\ RollbackSwitch(h)
           /\ UNCHANGED <<rstep, rh, completed>>
  <2>1. Open(h)
    BY <1>3, <1>4 DEF Open
  <2>2. PICK n \in 0 .. 6 :
          /\ part' = RolledBack(h, n)
          /\ moved' = IF n >= 2 THEN [moved EXCEPT ![h] = 0] ELSE moved
          /\ \/ n = 6 /\ SetPhase(h, "ROLLED_BACK") /\ UNCHANGED rfaults
                 /\ gens' = (IF journal[h].created THEN gens \ {h.to} ELSE gens)
             \/ RefreshFault /\ UNCHANGED <<journal, gens>>
    BY <1>4, PartNames DEF RollbackSwitch
  <2>3. rfaults' \in 0 .. MaxRefreshFaults
    BY <1>0, <2>2, RefreshAssumption DEF RefreshFault, RefreshTypeOK
  <2>4. \/ n = 6 /\ SetPhase(h, "ROLLED_BACK") /\ gens' \subseteq gens
        \/ UNCHANGED <<journal, gens>>
    BY <2>2
  <2> QED
    BY <1>1, <1>4, <2>1, <2>2, <2>3, <2>4, PuttingBackKeeps
<1>5. CASE /\ journal[h].phase \notin {"SWITCHING", "SWITCHED", "COMMITTED"}
           /\ journal' = [journal EXCEPT ![h] = [NoJournal EXCEPT !.phase = "PREPARED"]]
           /\ rstep' = "stage" /\ rh' = h
           /\ UNCHANGED <<part, moved, gens, completed, rfaults>>
  <2> DEFINE e == [NoJournal EXCEPT !.phase = "PREPARED"]
  <2>1. e \in [phase : Phases, created : BOOLEAN, prev : [Parts -> 0 .. MaxMain]]
        /\ e.phase = "PREPARED"
    <3> DEFINE none == [p \in Parts |-> 0]
    <3>1. none \in [Parts -> 0 .. MaxMain]
      BY RefreshAssumption
    <3>2. NoJournal = [phase |-> "none", created |-> FALSE, prev |-> none]
      BY DEF NoJournal
    <3> HIDE DEF none
    <3> QED
      BY <3>1, <3>2 DEF Phases
  <2> HIDE DEF e
  <2>2. /\ journal' \in [Handoffs -> [phase : Phases, created : BOOLEAN, prev : [Parts -> 0 .. MaxMain]]]
        /\ \A g \in Handoffs : journal'[g].phase \in Phases
        /\ journal'[h].phase = "PREPARED"
        /\ \A g \in Handoffs : g # h => journal'[g] = journal[g]
    <3>1. journal' = [journal EXCEPT ![h] = e]
      BY <1>5 DEF e
    <3> QED
      BY <1>0, <2>1, <3>1, JournalSet
  <2>3. \A g \in Handoffs : ~Open(g) /\ ~Open(g)'
    BY <1>0, <1>1, <1>3, <1>5, <2>2 DEF Switching, Open
  <2>4. RefreshTyped'
    BY <1>0, <1>1, <1>5, <2>2 DEF RefreshTyped, RefreshTypeOK, RefreshSteps
  <2>5. Following'
    BY <1>1, <1>3, <1>5, <2>3 DEF Following, PreAttested, RuntimeAttested, Floor
  <2>6. \A g \in completed : journal'[g] = journal[g]
    BY <1>0, <1>3, <2>2
  <2> QED
    BY <1>0, <1>1, <1>5, <2>3, <2>4, <2>5, <2>6
    DEF RefreshInv, Switching, MixtureIsJournalled, RuntimeAttested
<1> QED
  BY <1>4, <1>5 DEF StartRefresh

(* The generation is built, or found, and STAGED journalled                *)
(* (_build_generation).                                                    *)
LEMMA StageKeeps ==
  ASSUME RefreshInv, StageGeneration PROVE RefreshInv'
<1>0. /\ RefreshTyped /\ RefreshTypeOK /\ Switching /\ MixtureIsJournalled /\ Following
      /\ \A g \in completed : journal[g].phase = "COMMITTED" /\ g.to <= part["manifest"]
      /\ inbox \subseteq completed /\ completed \subseteq Handoffs /\ claimed \subseteq Handoffs
  BY DEF RefreshInv, RefreshTyped, RefreshTypeOK
<1>1. /\ rstep = "stage" /\ rstep' \in {"prepare", "idle"}
      /\ UNCHANGED <<part, moved, proposed, claimed, consumed, completed, inbox, anchor,
                     controlling, rh>>
      /\ gens' = gens \cup {rh.to}
  BY DEF StageGeneration
<1>2. rh \in Handoffs /\ rh \in claimed /\ PreAttested(rh) /\ ~Open(rh) /\ Floor(rh.from)
  BY <1>0, <1>1 DEF RefreshTyped, Following
<1>3. rh.to \in Mains /\ rh.from \in Nat /\ rh.to \in Nat /\ rh.from < rh.to /\ rh \notin completed
  BY <1>2 DEF Handoffs, Mains, Floor
<1>4. rfaults' \in 0 .. MaxRefreshFaults
  BY <1>0, RefreshAssumption DEF StageGeneration, RefreshFault, RefreshTypeOK
<1>5. /\ journal' \in [Handoffs -> [phase : Phases, created : BOOLEAN, prev : [Parts -> 0 .. MaxMain]]]
      /\ \A g \in Handoffs : journal'[g].phase \in Phases
      /\ journal' = journal \/ (journal'[rh].phase = "STAGED" /\ rstep' = "prepare")
      /\ \A g \in Handoffs : g # rh => journal'[g] = journal[g]
  <2>1. CASE journal' = journal
    BY <1>0, <2>1 DEF RefreshTyped, RefreshTypeOK
  <2>2. CASE /\ journal' = [journal EXCEPT ![rh].phase = "STAGED", ![rh].created = rh.to \notin gens]
             /\ rstep' = "prepare"
    <3> DEFINE c == rh.to \notin gens
               e == [journal[rh] EXCEPT !.phase = "STAGED", !.created = c]
    <3>1. journal[rh] \in [phase : Phases, created : BOOLEAN, prev : [Parts -> 0 .. MaxMain]]
          /\ c \in BOOLEAN
      BY <1>0, <1>2 DEF RefreshTyped
    <3>2. journal' = [journal EXCEPT ![rh] = e]
      <4> DEFINE D == [phase : Phases, created : BOOLEAN, prev : [Parts -> 0 .. MaxMain]]
      <4>1. journal \in [Handoffs -> D]
        BY <1>0 DEF RefreshTyped
      <4> HIDE DEF D, c
      <4> QED
        BY <1>2, <2>2, <4>1 DEF c
    <3> HIDE DEF c
    <3>3. /\ e \in [phase : Phases, created : BOOLEAN, prev : [Parts -> 0 .. MaxMain]]
          /\ e.phase = "STAGED"
      BY <3>1 DEF Phases
    <3> HIDE DEF e
    <3> QED
      BY <1>0, <1>2, <2>2, <3>2, <3>3, JournalSet
  <2> QED
    BY <2>1, <2>2 DEF StageGeneration
<1>6. \A g \in Handoffs : ~Open(g) /\ ~Open(g)'
  BY <1>0, <1>1, <1>2, <1>5 DEF Switching, Open
<1>7. RefreshTyped'
  BY <1>0, <1>1, <1>3, <1>4, <1>5 DEF RefreshTyped, RefreshTypeOK, RefreshSteps
<1>8. Following'
  BY <1>0, <1>1, <1>2, <1>6 DEF Following, PreAttested, RuntimeAttested, Floor
<1>9. \A g \in completed : journal'[g] = journal[g]
  BY <1>0, <1>3, <1>5
<1> QED
  BY <1>0, <1>1, <1>2, <1>6, <1>7, <1>8, <1>9
  DEF RefreshInv, Switching, MixtureIsJournalled, RuntimeAttested, PreAttested

(* The backups are taken and SWITCHING is journalled (refresh).            *)
LEMMA BeginKeeps ==
  ASSUME RefreshInv, BeginSwitch PROVE RefreshInv'
<1>0. /\ RefreshTyped /\ RefreshTypeOK /\ Switching /\ MixtureIsJournalled /\ Following
      /\ \A g \in completed : journal[g].phase = "COMMITTED" /\ g.to <= part["manifest"]
      /\ inbox \subseteq completed /\ completed \subseteq Handoffs /\ claimed \subseteq Handoffs
  BY DEF RefreshInv, RefreshTyped, RefreshTypeOK
<1>1. /\ rstep = "prepare" /\ rstep' = "switch0"
      /\ UNCHANGED <<part, moved, gens, proposed, claimed, consumed, completed, inbox, anchor,
                     controlling, rh, rfaults>>
  BY DEF BeginSwitch
<1>2. rh \in Handoffs /\ rh \in claimed /\ PreAttested(rh) /\ ~Open(rh) /\ Floor(rh.from)
  BY <1>0, <1>1 DEF RefreshTyped, Following
<1>3. rh.from \in Nat /\ rh.to \in Nat /\ rh.from < rh.to /\ rh \notin completed
  BY <1>2 DEF Handoffs, Mains, Floor
<1>4. /\ journal' \in [Handoffs -> [phase : Phases, created : BOOLEAN, prev : [Parts -> 0 .. MaxMain]]]
      /\ \A g \in Handoffs : journal'[g].phase \in Phases
      /\ journal'[rh].phase = "SWITCHING" /\ journal'[rh].prev = part
      /\ \A g \in Handoffs : g # rh => journal'[g] = journal[g]
  <2> DEFINE D == [phase : Phases, created : BOOLEAN, prev : [Parts -> 0 .. MaxMain]]
             e == [journal[rh] EXCEPT !.phase = "SWITCHING", !.prev = part]
  <2>1. journal \in [Handoffs -> D] /\ journal[rh] \in D /\ part \in [Parts -> 0 .. MaxMain]
    BY <1>0, <1>2 DEF RefreshTyped, RefreshTypeOK
  <2>2. journal' = [journal EXCEPT ![rh] = e]
    <3> HIDE DEF D
    <3> QED
      BY <1>2, <2>1 DEF BeginSwitch
  <2>3. e \in D /\ e.phase = "SWITCHING" /\ e.prev = part
    BY <2>1 DEF Phases
  <2> HIDE DEF e
  <2> QED
    BY <1>0, <1>2, <2>2, <2>3, JournalSet
<1>5. Open(rh)' /\ \A g \in Handoffs : Open(g)' => g = rh
  BY <1>0, <1>1, <1>2, <1>3, <1>4 DEF Switching, Open
<1>6. RefreshTyped'
  BY <1>0, <1>1, <1>4 DEF RefreshTyped, RefreshTypeOK, RefreshSteps
<1>7. Kept(rh)'
  BY <1>0, <1>1, <1>2, <1>4 DEF Kept, PreAttested, RuntimeAttested, Runtime, RefreshTyped
<1>8. Following'
  BY <1>1, <1>2, <1>5 DEF Following, PreAttested, RuntimeAttested, Floor
<1>9. Switching'
  BY <1>1, <1>2, <1>5, <1>7 DEF Switching, Floor
<1>10. \A g \in completed : journal'[g] = journal[g]
  BY <1>0, <1>3, <1>4
<1> QED
  BY <1>0, <1>1, <1>2, <1>6, <1>8, <1>9, <1>10
  DEF RefreshInv, MixtureIsJournalled, RuntimeAttested, PreAttested

(* The boundary is moved to the backup, and each part is replaced          *)
(* (_switch_installed).                                                    *)
LEMMA SwitchKeeps ==
  ASSUME RefreshInv, MoveBoundary \/ \E i \in DOMAIN SwitchOrder : SwitchPart(i)
  PROVE  RefreshInv'
<1>0. /\ RefreshTyped /\ RefreshTypeOK /\ Switching /\ Following
      /\ \A g \in completed : journal[g].phase = "COMMITTED" /\ g.to <= part["manifest"]
      /\ inbox \subseteq completed /\ completed \subseteq Handoffs /\ claimed \subseteq Handoffs
  BY DEF RefreshInv, RefreshTyped, RefreshTypeOK
<1>1. /\ UNCHANGED <<gens, proposed, claimed, consumed, journal, completed, inbox, anchor,
                     controlling, rh, rfaults>>
  BY DEF MoveBoundary, SwitchPart
<1>2. /\ rstep \in {"switch0", "switch1", "switch2", "switch3", "switch4", "switch5", "switch6"}
      /\ rstep' \in {"switch1", "switch2", "switch3", "switch4", "switch5", "switch6", "attest"}
  <2>1. CASE MoveBoundary
    BY <2>1 DEF MoveBoundary
  <2>2. CASE \E i \in DOMAIN SwitchOrder : SwitchPart(i)
    <3>1. PICK i \in 1 .. 6 : /\ rstep = SwitchSteps[i]
                              /\ rstep' = IF i = 6 THEN "attest" ELSE SwitchSteps[i + 1]
      BY <2>2, PartNames DEF SwitchPart
    <3>2. i = 1 \/ i = 2 \/ i = 3 \/ i = 4 \/ i = 5 \/ i = 6
      BY <3>1
    <3> QED
      BY <3>1, <3>2 DEF SwitchSteps
  <2> QED
    BY <2>1, <2>2
<1>3. /\ rh \in Handoffs /\ rh \in claimed /\ Open(rh) /\ Kept(rh) /\ Floor(rh.from)
      /\ \A g \in Handoffs : Open(g) => g = rh
  BY <1>0, <1>2 DEF RefreshTyped, Following, Switching
<1>4. rh.from \in 1 .. MaxMain /\ rh.to \in 1 .. MaxMain /\ rh.from < rh.to
  BY <1>3 DEF Handoffs, Mains
<1>5. /\ part' \in [Parts -> 0 .. MaxMain] /\ moved' \in [Handoffs -> 0 .. MaxMain]
      /\ \A g \in Handoffs : moved'[g] \in {0, g.from}
      /\ moved'[rh] = rh.from
      /\ part'["manifest"] \in {part["manifest"], rh.to}
  <2>0. /\ part \in [Parts -> 0 .. MaxMain] /\ moved \in [Handoffs -> 0 .. MaxMain]
        /\ \A g \in Handoffs : moved[g] \in {0, g.from}
    BY <1>0 DEF RefreshTyped, RefreshTypeOK
  <2>1. CASE MoveBoundary
    <3>1. part["boundary"] = rh.from
      BY <1>0, <2>1 DEF MoveBoundary, Following, PreAttested, RuntimeAttested
    <3>2. moved' = [moved EXCEPT ![rh] = rh.from] /\ part' = [part EXCEPT !["boundary"] = 0]
      BY <2>1, <3>1 DEF MoveBoundary
    <3>3. 0 \in 0 .. MaxMain /\ rh.from \in 0 .. MaxMain
      BY <1>4, RefreshAssumption
    <3>4. part' \in [Parts -> 0 .. MaxMain] /\ part'["manifest"] = part["manifest"]
      BY <2>0, <3>2, <3>3, PartNames
    <3>5. /\ moved' \in [Handoffs -> 0 .. MaxMain] /\ moved'[rh] = rh.from
          /\ \A g \in Handoffs : g # rh => moved'[g] = moved[g]
      BY <1>3, <2>0, <3>2, <3>3
    <3> QED
      BY <2>0, <3>4, <3>5
  <2>2. CASE \E i \in DOMAIN SwitchOrder : SwitchPart(i)
    <3>1. PICK i \in 1 .. 6 : /\ rstep = SwitchSteps[i] /\ moved' = moved
                              /\ part' = [part EXCEPT ![SwitchOrder[i]] = rh.to]
      BY <2>2, PartNames DEF SwitchPart
    <3>2. rstep # "switch0"
      <4>1. i = 1 \/ i = 2 \/ i = 3 \/ i = 4 \/ i = 5 \/ i = 6
        BY <3>1
      <4> QED
        BY <3>1, <4>1 DEF SwitchSteps
    <3>3. moved[rh] = rh.from
      BY <1>0, <1>2, <3>2 DEF Following
    <3>4. rh.to \in 0 .. MaxMain /\ rh.to # 0
      BY <1>4
    <3>5. part' \in [Parts -> 0 .. MaxMain] /\ part'["manifest"] \in {part["manifest"], rh.to}
      BY <2>0, <3>1, <3>4, PartNames
    <3> QED
      BY <2>0, <3>1, <3>3, <3>5
  <2> QED
    BY <2>1, <2>2
<1>6. part["manifest"] \in Nat /\ part["manifest"] # 0
  BY <1>0, PartNames DEF RefreshTyped, RefreshTypeOK
<1>7. RefreshTyped'
  <2>1. part'["manifest"] # 0
    BY <1>4, <1>5, <1>6
  <2> QED
    BY <1>0, <1>1, <1>2, <1>3, <1>5, <2>1 DEF RefreshTyped, RefreshTypeOK, RefreshSteps
<1>8. \A g \in Handoffs : Open(g)' <=> Open(g)
  BY <1>1 DEF Open
<1>9. Kept(rh)'
  BY <1>1, <1>3, <1>5 DEF Kept
<1>10. Floor(rh.from)' /\ \A g \in completed : g.to <= part'["manifest"]
  <2>1. \A g \in completed : g.to \in Nat /\ g.to <= rh.from
    BY <1>0, <1>3 DEF Floor, Handoffs, Mains
  <2> QED
    BY <1>0, <1>1, <1>4, <1>5, <2>1 DEF Floor
<1>11. Switching'
  BY <1>1, <1>3, <1>8, <1>9, <1>10 DEF Switching
<1>12. Following'
  BY <1>1, <1>2, <1>3, <1>5, <1>8, <1>10 DEF Following
<1>13. MixtureIsJournalled'
  BY <1>1, <1>3 DEF MixtureIsJournalled, Open
<1> QED
  BY <1>0, <1>1, <1>7, <1>10, <1>11, <1>12, <1>13 DEF RefreshInv

(* SWITCHED and COMMITTED are journalled (refresh).                        *)
LEMMA SwitchedKeeps ==
  ASSUME RefreshInv, Switched PROVE RefreshInv'
<1>0. /\ RefreshTyped /\ RefreshTypeOK /\ Switching /\ Following
      /\ \A g \in completed : journal[g].phase = "COMMITTED" /\ g.to <= part["manifest"]
      /\ inbox \subseteq completed /\ completed \subseteq Handoffs /\ claimed \subseteq Handoffs
  BY DEF RefreshInv, RefreshTyped, RefreshTypeOK
<1>1. UNCHANGED <<part, moved, gens, proposed, claimed, consumed, completed, inbox, anchor,
                  controlling, rh, rfaults>>
  BY DEF Switched
<1>2. \/ rstep = "attest" /\ SetPhase(rh, "SWITCHED") /\ rstep' = "commit"
      \/ rstep = "commit" /\ SetPhase(rh, "COMMITTED") /\ rstep' = "complete"
  BY DEF Switched
<1>3. /\ rh \in Handoffs /\ rh \in claimed /\ Open(rh) /\ Kept(rh) /\ Floor(rh.from)
      /\ moved[rh] = rh.from
      /\ \A g \in Handoffs : Open(g) => g = rh
  BY <1>0, <1>2 DEF RefreshTyped, Following, Switching
<1>4. PICK p \in {"SWITCHED", "COMMITTED"} :
        SetPhase(rh, p) /\ (rstep' = "complete" => p = "COMMITTED")
  BY <1>2
<1>5. /\ journal' \in [Handoffs -> [phase : Phases, created : BOOLEAN, prev : [Parts -> 0 .. MaxMain]]]
      /\ \A g \in Handoffs : journal'[g].phase \in Phases
      /\ journal'[rh].phase = p /\ journal'[rh].prev = journal[rh].prev
      /\ \A g \in Handoffs : g # rh => journal'[g] = journal[g]
  <2> DEFINE D == [phase : Phases, created : BOOLEAN, prev : [Parts -> 0 .. MaxMain]]
             e == [journal[rh] EXCEPT !.phase = p]
  <2>1. journal[rh] \in D
    BY <1>0, <1>3 DEF RefreshTyped
  <2>2. e \in D /\ e.phase = p /\ e.prev = journal[rh].prev
    BY <2>1 DEF Phases
  <2>3. journal' = [journal EXCEPT ![rh] = e]
    BY <1>4 DEF SetPhase
  <2> HIDE DEF e
  <2> QED
    BY <1>0, <1>3, <2>2, <2>3, JournalSet
<1>6. RefreshTyped'
  BY <1>0, <1>1, <1>2, <1>5 DEF RefreshTyped, RefreshTypeOK, RefreshSteps
<1>7. Open(rh)' /\ \A g \in Handoffs : Open(g)' => g = rh
  BY <1>1, <1>3, <1>5 DEF Open
<1>8. Kept(rh)' /\ Floor(rh.from)'
  BY <1>1, <1>3, <1>5 DEF Kept, Floor
<1>9. Following'
  BY <1>1, <1>2, <1>3, <1>4, <1>5, <1>7, <1>8 DEF Following
<1>10. Switching'
  BY <1>1, <1>3, <1>7, <1>8 DEF Switching
<1>11. MixtureIsJournalled'
  BY <1>1, <1>3, <1>7 DEF MixtureIsJournalled, Open
<1>12. \A g \in completed : journal'[g] = journal[g]
  BY <1>0, <1>3, <1>5 DEF Open
<1> QED
  BY <1>0, <1>1, <1>6, <1>9, <1>10, <1>11, <1>12 DEF RefreshInv

(* A completion is written when all is attested to be of the handoff, and  *)
(* then the claim is consumed (_write_completion, process_pending).        *)
LEMMA CompleteKeeps ==
  ASSUME RefreshInv, WriteCompletion \/ ConsumeHandoff PROVE RefreshInv'
<1>0. /\ RefreshTyped /\ RefreshTypeOK /\ Switching /\ Following /\ MixtureIsJournalled
      /\ \A g \in completed : journal[g].phase = "COMMITTED" /\ g.to <= part["manifest"]
      /\ inbox \subseteq completed /\ completed \subseteq Handoffs /\ claimed \subseteq Handoffs
      /\ proposed \subseteq Handoffs /\ consumed \subseteq Handoffs
  BY DEF RefreshInv, RefreshTyped, RefreshTypeOK
<1>1. CASE WriteCompletion
  <2>1. /\ rstep = "complete" /\ rstep' = "consume" /\ CommittedAttested(rh)
        /\ completed' = completed \cup {rh}
        /\ UNCHANGED <<part, moved, gens, proposed, claimed, consumed, journal, inbox, anchor,
                       controlling, rh, rfaults>>
    BY <1>1 DEF WriteCompletion
  <2>2. /\ rh \in Handoffs /\ rh \in claimed /\ Floor(rh.from) /\ journal[rh].phase = "COMMITTED"
        /\ \A g \in Handoffs : Open(g) => g = rh
    BY <1>0, <2>1 DEF RefreshTyped, Following, Switching
  <2>3. /\ part["manifest"] = rh.to /\ part["boundary"] = rh.to /\ part["environment"] = rh.to
        /\ part["config"] = rh.to
    BY <2>1, PartNames DEF CommittedAttested
  <2>4. RuntimeAttested' /\ \A g \in Handoffs : ~Open(g)'
    BY <2>1, <2>2, <2>3 DEF RuntimeAttested, Open
  <2>5. UNION {proposed', claimed', consumed', completed', inbox'} \subseteq Handoffs
    <3>1. completed' \subseteq Handoffs
      BY <1>0, <2>1, <2>2
    <3> QED
      BY <1>0, <2>1, <3>1
  <2>6. RefreshTyped'
    BY <1>0, <2>1, <2>5 DEF RefreshTyped, RefreshTypeOK, RefreshSteps
  <2>7. \A g \in completed' : journal'[g].phase = "COMMITTED" /\ g.to <= part'["manifest"]
    <3>1. rh.to \in Nat
      BY <2>2 DEF Handoffs, Mains
    <3> QED
      BY <1>0, <2>1, <2>2, <2>3, <3>1
  <2>8. inbox' \subseteq completed' /\ rh' \in completed'
    BY <1>0, <2>1
  <2> QED
    BY <2>1, <2>4, <2>6, <2>7, <2>8 DEF RefreshInv, Switching, Following, MixtureIsJournalled
<1>2. CASE ConsumeHandoff
  <2>1. /\ rstep = "consume" /\ rstep' = "idle"
        /\ claimed' = claimed \ {rh} /\ consumed' = consumed \cup {rh}
        /\ UNCHANGED <<part, moved, gens, proposed, journal, completed, inbox, anchor,
                       controlling, rfaults>>
    BY <1>2 DEF ConsumeHandoff
  <2>2. rh \in Handoffs /\ rh \in completed
    BY <1>0, <2>1 DEF RefreshTyped, Following
  <2>3. \A g \in Handoffs : ~Open(g)
    BY <1>0, <2>1, <2>2 DEF Switching, Open
  <2>4. UNION {proposed', claimed', consumed', completed', inbox'} \subseteq Handoffs
    <3>1. claimed' \subseteq Handoffs /\ consumed' \subseteq Handoffs
      BY <1>0, <2>1, <2>2
    <3> QED
      BY <1>0, <2>1, <3>1
  <2>5. RefreshTyped'
    BY <1>0, <2>1, <2>4 DEF RefreshTyped, RefreshTypeOK, RefreshSteps
  <2>6. \A g \in Handoffs : ~Open(g)'
    BY <2>1, <2>3 DEF Open
  <2> QED
    BY <1>0, <2>1, <2>3, <2>5, <2>6
    DEF RefreshInv, Switching, Following, MixtureIsJournalled, RuntimeAttested
<1> QED
  BY <1>1, <1>2

(* An exception puts an open switch back; a death leaves it (refresh).     *)
LEMMA RefreshFailureKeeps ==
  ASSUME RefreshInv, RefreshRaises \/ RefreshDies PROVE RefreshInv'
<1>0. /\ RefreshTyped /\ RefreshTypeOK /\ Switching /\ Following /\ MixtureIsJournalled
      /\ \A g \in completed : journal[g].phase = "COMMITTED" /\ g.to <= part["manifest"]
      /\ inbox \subseteq completed
  BY DEF RefreshInv, RefreshTyped
<1>1. /\ rstep # "idle" /\ rstep' = "idle"
      /\ UNCHANGED <<proposed, claimed, consumed, completed, inbox, anchor, controlling>>
  BY DEF RefreshRaises, RefreshDies
<1>2. rfaults' \in 0 .. MaxRefreshFaults
  BY <1>0, RefreshAssumption DEF RefreshRaises, RefreshDies, RefreshFault, RefreshTypeOK
<1>3. CASE UNCHANGED <<part, moved, gens, journal>>
  <2>1. RefreshTyped'
    BY <1>0, <1>1, <1>2, <1>3 DEF RefreshTyped, RefreshTypeOK, RefreshSteps
  <2>2. Switching'
    BY <1>0, <1>1, <1>3 DEF Switching, Open, Kept, Floor
  <2> QED
    BY <1>0, <1>1, <1>3, <2>1, <2>2 DEF RefreshInv, Following, MixtureIsJournalled, RuntimeAttested
<1>4. CASE RefreshRaises /\ rstep \notin {"stage", "prepare"}
  <2>1. rh \in Handoffs /\ Open(rh)
    BY <1>0, <1>4 DEF RefreshRaises, RefreshTyped, RefreshTypeOK, Following
  <2>2. PICK n \in 0 .. 6 :
          /\ part' = RolledBack(rh, n)
          /\ moved' = IF n >= 2 THEN [moved EXCEPT ![rh] = 0] ELSE moved
          /\ \/ n = 6 /\ SetPhase(rh, "ROLLED_BACK")
                 /\ gens' = (IF journal[rh].created THEN gens \ {rh.to} ELSE gens)
             \/ UNCHANGED <<journal, gens>>
    BY <1>4, PartNames DEF RefreshRaises
  <2>3. \/ n = 6 /\ SetPhase(rh, "ROLLED_BACK") /\ gens' \subseteq gens
        \/ UNCHANGED <<journal, gens>>
    BY <2>2
  <2> QED
    BY <1>1, <1>2, <2>1, <2>2, <2>3, PuttingBackKeeps
<1> QED
  BY <1>3, <1>4 DEF RefreshRaises, RefreshDies

(* Nobody else changes what the refresh keeps. *)
LEMMA StutterKeepsRefresh ==
  ASSUME RefreshInv, UNCHANGED refreshVars PROVE RefreshInv'
<1>1. UNCHANGED <<part, moved, gens, proposed, claimed, consumed, journal, completed, inbox,
                  anchor, controlling, rstep, rh, rfaults>>
  BY DEF refreshVars
<1>2. RefreshTyped' /\ Following' /\ Switching'
  BY <1>1
  DEF RefreshInv, RefreshTyped, RefreshTypeOK, Following, Switching, Open, Kept, Floor,
      PreAttested, RuntimeAttested
<1> QED
  BY <1>1, <1>2 DEF RefreshInv, MixtureIsJournalled, RuntimeAttested

(* Every step of the refresh keeps its invariant. *)
LEMMA RefreshKeeps ==
  ASSUME RefreshInv, RefreshNext PROVE RefreshInv'
<1>1. CASE \E h \in Handoffs : StartRefresh(h)
  BY <1>1, StartKeeps
<1>2. CASE MoveBoundary \/ \E i \in DOMAIN SwitchOrder : SwitchPart(i)
  BY <1>2, SwitchKeeps
<1> QED
  BY <1>1, <1>2, BrokersKeep, StageKeeps, BeginKeeps, SwitchedKeeps, CompleteKeeps,
     RefreshFailureKeeps
  DEF RefreshNext, RefreshService

(* The invariant gives what the run checks. *)
LEMMA RefreshInvIsSound ==
  ASSUME RefreshInv PROVE RuntimeIsSound
<1>0. RefreshTyped /\ Switching /\ completed \subseteq Handoffs
  BY DEF RefreshInv, RefreshTyped, RefreshTypeOK
<1>1. ASSUME NEW h \in Handoffs, journal[h].phase \in {"SWITCHING", "SWITCHED"}
      PROVE  h.from \in {part["boundary"], moved[h]} /\ journal[h].prev["manifest"] = h.from
  <2>1. h \notin completed
    BY <1>1 DEF RefreshInv
  <2>2. Kept(h)
    BY <1>0, <1>1, <2>1 DEF Switching, Open
  <2> QED
    BY <2>2 DEF Kept, Runtime
<1>2. OldRuntimeIsKept
  BY <1>1 DEF OldRuntimeIsKept
<1>3. CompletionIsInstalled
  <2>1. \A h \in completed : /\ h.to \in Nat /\ part["manifest"] \in Nat
                             /\ h.to <= part["manifest"]
    BY <1>0, PartNames DEF RefreshInv, RefreshTyped, RefreshTypeOK, Handoffs, Mains
  <2> QED
    BY <2>1 DEF RefreshInv, CompletionIsInstalled
<1> QED
  BY <1>2, <1>3 DEF RefreshInv, RefreshTyped, RuntimeIsSound

-----------------------------------------------------------------------------
(* The whole. *)
LEMMA DeploymentSteps ==
  ASSUME InstallInv, RefreshInv, [Next]_deploymentVars
  PROVE  /\ InstallInv' /\ RefreshInv'
         /\ st.status # "ROLLED_BACK" /\ st'.status = "ROLLED_BACK"
              => file' = before.file /\ unit' = before.unit /\ entry' = {}
<1>1. CASE BundleNext /\ UNCHANGED <<installVars, refreshVars>>
  BY <1>1, BundleKeepsInstall, StutterKeepsRefresh DEF installVars
<1>2. CASE InstallNext /\ UNCHANGED <<bundleVars, refreshVars>>
  BY <1>2, InstallerKeeps, StutterKeepsRefresh
<1>3. CASE RefreshNext /\ UNCHANGED <<bundleVars, installVars>>
  BY <1>3, RefreshKeeps, StutterKeepsInstall DEF installVars
<1>4. CASE UNCHANGED deploymentVars
  BY <1>4, StutterKeepsInstall, StutterKeepsRefresh DEF deploymentVars, installVars
<1> QED
  BY <1>1, <1>2, <1>3, <1>4 DEF Next

(* Whatever raised or died, and whatever was replaced while the bundle was *)
(* assembled: while old and new bytes are mixed the STOP marker is there   *)
(* and no unit runs that did not run before, also when a rollback from     *)
(* COMMITTED has died; what is committed is of one build; and an apply     *)
(* returns its attestation only of a complete installation, which remains  *)
(* one (apply, rollback).                                                  *)
THEOREM InstallationSound == Spec => []InstallationIsSound
<1>1. Init => InstallInv /\ RefreshInv
  BY InstallStarts, RefreshStarts DEF Init
<1>2. InstallInv /\ RefreshInv /\ [Next]_deploymentVars => (InstallInv /\ RefreshInv)'
  BY DeploymentSteps
<1>3. InstallInv => InstallationIsSound
  BY InstallInvIsSound
<1> QED
  BY <1>1, <1>2, <1>3, PTL DEF Spec

(* When ROLLED_BACK is written, whichever steps raised or died before, the *)
(* files and units are those the attempt captured (rollback).              *)
THEOREM Restores == Spec => RollbackRestores
<1>1. Init => InstallInv /\ RefreshInv
  BY InstallStarts, RefreshStarts DEF Init
<1>2. InstallInv /\ RefreshInv /\ [Next]_deploymentVars => (InstallInv /\ RefreshInv)'
  BY DeploymentSteps
<1>3. InstallInv /\ RefreshInv /\ [Next]_deploymentVars
        => [ st.status # "ROLLED_BACK" /\ st'.status = "ROLLED_BACK"
               => file' = before.file /\ unit' = before.unit /\ entry' = {} ]_installVars
  BY DeploymentSteps
<1> QED
  BY <1>1, <1>2, <1>3, PTL DEF Spec, RollbackRestores

(* Whichever write of a refresh was the last: a runtime of mixed mains has *)
(* an open journal, the old runtime is in its place or in the backup, and  *)
(* a completion the activation side sees is of a runtime that was reached  *)
(* and only moved on since (refresh, _rollback_switch).                    *)
THEOREM RuntimeSound == Spec => []RuntimeIsSound
<1>1. Init => InstallInv /\ RefreshInv
  BY InstallStarts, RefreshStarts DEF Init
<1>2. InstallInv /\ RefreshInv /\ [Next]_deploymentVars => (InstallInv /\ RefreshInv)'
  BY DeploymentSteps
<1>3. RefreshInv => RuntimeIsSound
  BY RefreshInvIsSound
<1> QED
  BY <1>1, <1>2, <1>3, PTL DEF Spec

-----------------------------------------------------------------------------
Places == {"down", "sync", "decide", "load", "stage", "session", "release", "complete"}
Running == {"load", "stage", "session", "release"}
Live == {"NEW", "RUNNING", "PAUSED"}
Checkpoints ==
  [state : Live \cup {"none", "BLOCKED", "FAILED", "PASSED"}, onMain : BOOLEAN, work : BOOLEAN,
   gated : BOOLEAN, reviewed : BOOLEAN, stage : {Owner, Adversary, Release},
   active : {0, Owner, Adversary}, results : BOOLEAN, ownerFailures : 0 .. Models,
   reviewFailures : Nat, cycles : 0 .. MaxCycles, repeats : Nat, err : Errors]
Items ==
  [status : Statuses, packet : BOOLEAN, terminal : BOOLEAN, revisions : Nat,
   redesigns : 0 .. MaxRedesigns, recoveries : 0 .. MaxRecoveries]

(* A checkpoint reaches the release only from the adversary, who judged    *)
(* the candidate as it is, and nothing is written to it afterwards.        *)
Judged(c) ==
  /\ c.stage = Release => c.reviewed /\ c.active = 0
  /\ c.active = Adversary => c.stage = Adversary
  /\ c.state \in Live => c.ownerFailures < Models
  /\ c.state = "PASSED" => c.stage = Release

(* What the owner's gates have seen, as long as nothing was interrupted: a *)
(* candidate under review, unless it is being repaired or will not resume. *)
Gated(c) ==
  /\ c.stage = Release => c.gated
  /\ c.stage = Adversary /\ c.active # Owner /\ c.state \in Live => c.gated

(* No session is open. *)
Rested(c) == c.active = 0 \/ c.state = "FAILED"

Uninterrupted == budget = MaxInterruptions

(* Where a running pipeline stands in its checkpoint. *)
Placed ==
  /\ pc = "stage" => ck.stage # Release /\ ck.state \in {"NEW", "RUNNING"} /\ ck.active = 0
  /\ pc = "session" => ck.state = "RUNNING" /\ ck.active # 0
  /\ pc = "release" => ck.stage = Release

(* The task of an old marker is terminal until it is recovered. *)
Marked ==
  retry => /\ pc \in {"down", "sync", "decide"}
           /\ item.terminal /\ item.status # "passed"
           /\ ck.stage # Owner => ck.gated

Kinds ==
  /\ pc \in Places /\ q \in QueueStates /\ err \in Errors /\ wt \in Worktrees
  /\ raises \in 0 .. MaxTurnRaises /\ dirty \in BOOLEAN /\ budget \in 0 .. MaxInterruptions
  /\ retry \in BOOLEAN /\ stuck \in BOOLEAN

Respecified == item \in Items /\ item.revisions <= MaxRespecs + item.redesigns

FactoryInv ==
  /\ Kinds /\ Respecified /\ ck \in Checkpoints
  /\ Judged(ck) /\ Placed
  /\ Uninterrupted => Gated(ck) /\ (pc # "session" => Rested(ck)) /\ Marked

-----------------------------------------------------------------------------
(* The parts give the type invariant and the property. *)
LEMMA FactoryIsSafe ==
  ASSUME FactoryInv PROVE ReviewedIsReleased
<1>1. ck \in Checkpoints /\ Judged(ck) /\ Kinds /\ Respecified
  BY DEF FactoryInv
<1>2. PipelineTypeOK
  BY <1>1 DEF Kinds, Checkpoints, PipelineTypeOK, Places, Live
<1>3. item.revisions \in 0 .. (MaxRespecs + MaxRedesigns)
  BY <1>1, AutopilotAssumption DEF Respecified, Items
<1>4. TypeOK
  BY <1>1, <1>2, <1>3 DEF TypeOK, Kinds, Respecified, Items
<1>5. budget \in 0 .. MaxInterruptions
  BY <1>1 DEF Kinds
<1>6. ASSUME ck.state = "PASSED" PROVE ck.reviewed /\ (ck.gated \/ budget < MaxInterruptions)
  <2>1. ck.stage = Release /\ ck.reviewed
    BY <1>1, <1>6 DEF Judged
  <2>2. CASE budget = MaxInterruptions
    BY <2>1, <2>2 DEF FactoryInv, Uninterrupted, Gated
  <2>3. CASE budget # MaxInterruptions
    BY <1>5, <2>1, <2>3, PipelineAssumption
  <2> QED
    BY <2>2, <2>3
<1> QED
  BY <1>4, <1>6 DEF ReviewedIsReleased

(* A new checkpoint has judged nothing. *)
LEMMA NewIsJudged ==
  ASSUME NEW s \in {"none", "NEW", "RUNNING", "FAILED"}
  PROVE  LET c == NewCheckpoint(s) IN
           /\ c \in Checkpoints /\ Judged(c) /\ Gated(c) /\ Rested(c)
           /\ c.state = s /\ c.stage = Owner /\ c.active = 0
  BY PipelineAssumption
  DEF NewCheckpoint, Checkpoints, Judged, Gated, Rested, Live, Owner, Adversary, Release, Errors

(* What a session wrote is judged by nobody; the stage stays. *)
LEMMA ReturnedIs ==
  ASSUME NEW c \in Checkpoints
  PROVE  LET k == Cleared(IF c.active = Owner THEN Committed(c) ELSE c)
             r == Returned(c)
         IN  /\ k \in Checkpoints /\ k.active = 0 /\ k.state = c.state /\ k.stage = c.stage
             /\ k.ownerFailures = c.ownerFailures /\ k.cycles = c.cycles
             /\ c.active # Owner => k.gated = c.gated /\ k.reviewed = c.reviewed
             /\ r \in Checkpoints /\ r.active = 0 /\ r.state = c.state /\ r.stage = c.stage
             /\ r.ownerFailures = c.ownerFailures /\ r.cycles = c.cycles
             /\ c.active # Owner => r.gated = c.gated /\ r.reviewed = c.reviewed
<1>1. /\ Committed(c) \in Checkpoints /\ Committed(c).state = c.state
      /\ Committed(c).stage = c.stage /\ Committed(c).ownerFailures = c.ownerFailures
      /\ Committed(c).cycles = c.cycles /\ Committed(c).active = c.active
  BY DEF Committed, Checkpoints
<1> DEFINE d == IF c.active = Owner THEN Committed(c) ELSE c
<1>2. /\ d \in Checkpoints /\ d.state = c.state /\ d.stage = c.stage
      /\ d.ownerFailures = c.ownerFailures /\ d.cycles = c.cycles
      /\ c.active # Owner => d.gated = c.gated /\ d.reviewed = c.reviewed
  BY <1>1
<1>3. Cleared(d) = [d EXCEPT !.active = 0] /\ Returned(c) = [Cleared(d) EXCEPT !.results = TRUE]
  BY DEF Cleared, Returned
<1> HIDE DEF d
<1>4. /\ Cleared(d) \in Checkpoints /\ Cleared(d).active = 0 /\ Cleared(d).state = d.state
      /\ Cleared(d).stage = d.stage /\ Cleared(d).ownerFailures = d.ownerFailures
      /\ Cleared(d).cycles = d.cycles /\ Cleared(d).gated = d.gated
      /\ Cleared(d).reviewed = d.reviewed
  BY <1>2, <1>3 DEF Checkpoints
<1> DEFINE e == Cleared(d)
<1> HIDE DEF e
<1>5. /\ Returned(c) \in Checkpoints /\ Returned(c).active = e.active /\ Returned(c).state = e.state
      /\ Returned(c).stage = e.stage /\ Returned(c).ownerFailures = e.ownerFailures
      /\ Returned(c).cycles = e.cycles /\ Returned(c).gated = e.gated
      /\ Returned(c).reviewed = e.reviewed
  <2>1. Returned(c) = [e EXCEPT !.results = TRUE] /\ e \in Checkpoints
    BY <1>3, <1>4 DEF e
  <2> QED
    BY <2>1 DEF Checkpoints
<1> QED
  BY <1>2, <1>4, <1>5 DEF d, e

-----------------------------------------------------------------------------
(* The pipeline saves its checkpoint (CheckpointStore.save). *)
LEMMA SaveKeeps ==
  ASSUME FactoryInv, pc \in Running, UNCHANGED <<item, retry, stuck, dirty>>,
         ck' \in Checkpoints, Judged(ck'), budget' \in 0 .. MaxInterruptions,
         pc' \in Places, q' \in QueueStates, err' \in Errors, wt' \in Worktrees,
         raises' \in 0 .. MaxTurnRaises, Placed',
         budget' = MaxInterruptions =>
           Uninterrupted /\ Gated(ck') /\ (pc' # "session" => Rested(ck'))
  PROVE  FactoryInv'
<1>1. Kinds' /\ Respecified'
  BY DEF FactoryInv, Kinds, Respecified
<1>2. ASSUME budget' = MaxInterruptions PROVE Marked'
  <2>1. ~retry
    BY <1>2 DEF FactoryInv, Marked, Running
  <2> QED
    BY <2>1 DEF Marked
<1>3. budget' = MaxInterruptions =>
        Gated(ck)' /\ ((pc # "session")' => Rested(ck)') /\ Marked'
  BY <1>2 DEF Gated, Rested
<1>4. Judged(ck)'
  BY DEF Judged
<1> QED
  BY <1>1, <1>3, <1>4 DEF FactoryInv, Uninterrupted

(* An interruption is remembered. *)
LEMMA Interrupted ==
  ASSUME Kinds, Interrupt
  PROVE  budget' \in 0 .. MaxInterruptions /\ budget' # MaxInterruptions
  BY PipelineAssumption DEF Kinds, Interrupt

(* The run ends and the packet is moved (process_one). *)
LEMMA SettleKeeps ==
  ASSUME FactoryInv, pc \in Running, UNCHANGED <<item, retry, stuck>>,
         NEW c \in Checkpoints, Judged(c), Uninterrupted => Gated(c) /\ Rested(c),
         NEW target \in QueueStates, NEW e \in Errors, Settle(c, target, e)
  PROVE  FactoryInv'
<1>1. Kinds
  BY DEF FactoryInv
<1>2. /\ ck' = c /\ wt' \in Worktrees /\ pc' \in {"sync", "down"}
      /\ q' \in QueueStates /\ err' \in Errors /\ raises' = raises /\ dirty' = dirty
  BY <1>1 DEF Settle, Kinds, Worktrees
<1>3. budget' \in 0 .. MaxInterruptions /\ (budget' = MaxInterruptions => Uninterrupted)
  <2>1. budget' = budget \/ Interrupt
    BY DEF Settle
  <2> QED
    BY <1>1, <2>1, Interrupted DEF Kinds, Uninterrupted
<1>4. Placed'
  BY <1>2 DEF Placed
<1>5. Judged(ck') /\ (Uninterrupted => Gated(ck') /\ Rested(ck'))
  BY <1>2
<1> QED
  BY <1>1, <1>2, <1>3, <1>4, <1>5, SaveKeeps DEF Kinds, Places

(* A failed run is not resumed, whatever was open. *)
LEMMA FailsKeeps ==
  ASSUME FactoryInv, pc \in Running, UNCHANGED <<item, retry, stuck>>,
         NEW c \in Checkpoints,
         c.stage = Release => c.reviewed /\ c.active = 0,
         c.active = Adversary => c.stage = Adversary,
         Uninterrupted => (c.stage = Release => c.gated),
         NEW e \in Errors, Fails(c, e)
  PROVE  FactoryInv'
<1> DEFINE f == [c EXCEPT !.state = "FAILED", !.err = e]
<1>1. /\ f \in Checkpoints /\ f.state = "FAILED" /\ f.stage = c.stage /\ f.active = c.active
      /\ f.reviewed = c.reviewed /\ f.gated = c.gated
  BY DEF Checkpoints
<1>2. Settle(f, "failed", e) /\ "failed" \in QueueStates
  BY DEF Fails, QueueStates
<1> HIDE DEF f
<1>3. Judged(f) /\ (Uninterrupted => Gated(f) /\ Rested(f))
  BY <1>1 DEF Judged, Gated, Rested, Live
<1> QED
  BY <1>1, <1>2, <1>3, SettleKeeps

(* A blocked run has no session open. *)
LEMMA BlocksKeeps ==
  ASSUME FactoryInv, pc \in Running, UNCHANGED <<item, retry, stuck>>,
         NEW c \in Checkpoints, c.stage = Release => c.reviewed, c.active = 0,
         Uninterrupted => (c.stage = Release => c.gated),
         NEW e \in Errors, Blocks(c, e)
  PROVE  FactoryInv'
<1> DEFINE f == [c EXCEPT !.state = "BLOCKED", !.err = e]
<1>1. /\ f \in Checkpoints /\ f.state = "BLOCKED" /\ f.stage = c.stage /\ f.active = c.active
      /\ f.reviewed = c.reviewed /\ f.gated = c.gated
  BY DEF Checkpoints, Live
<1>2. Settle(f, "blocked", e) /\ "blocked" \in QueueStates
  BY DEF Blocks, QueueStates
<1> HIDE DEF f
<1>3. Judged(f) /\ (Uninterrupted => Gated(f) /\ Rested(f))
  BY <1>1 DEF Judged, Gated, Rested, Live, Adversary
<1> QED
  BY <1>1, <1>2, <1>3, SettleKeeps

-----------------------------------------------------------------------------
(* The checkpoint is loaded (run_pipeline, _recover_interrupted_stage). *)
LEMMA LoadKeeps ==
  ASSUME FactoryInv, Load, UNCHANGED <<item, retry, stuck>> PROVE FactoryInv'
<1>1. pc = "load"
  BY DEF Load, RefuseDirtyMain, RefuseMovedMain, StartRun, StillBlocked, StillPaused, ResumeRun,
         RecoverOutside
<1>2. pc \in Running /\ ck \in Checkpoints /\ Judged(ck) /\ Kinds
      /\ (Uninterrupted => Gated(ck) /\ Rested(ck))
  BY <1>1 DEF FactoryInv, Running
<1>3. /\ {"failed", "blocked"} \subseteq QueueStates
      /\ {"product", "infrastructure", ck.err} \subseteq Errors
  BY <1>2 DEF QueueStates, Errors, Checkpoints
<1>4. CASE RefuseDirtyMain
  BY <1>2, <1>3, <1>4, SettleKeeps DEF RefuseDirtyMain
<1>5. CASE RefuseMovedMain
  BY <1>2, <1>3, <1>5, SettleKeeps DEF RefuseMovedMain
<1>6. CASE StartRun
  <2> DEFINE n == NewCheckpoint("NEW")
  <2>1. n \in Checkpoints /\ Judged(n) /\ Gated(n) /\ Rested(n)
        /\ n.state = "NEW" /\ n.stage = Owner /\ n.active = 0
    BY NewIsJudged
  <2> HIDE DEF n
  <2>2. /\ ck' = n /\ wt' = "none" /\ raises' = 0 /\ pc' = "stage"
        /\ UNCHANGED <<q, err, dirty, budget>>
    BY <1>6 DEF StartRun, n
  <2>3. Placed'
    BY <2>1, <2>2 DEF Placed, Owner, Release
  <2>4. /\ budget' \in 0 .. MaxInterruptions /\ pc' \in Places /\ q' \in QueueStates
        /\ err' \in Errors /\ wt' \in Worktrees /\ raises' \in 0 .. MaxTurnRaises
    BY <1>2, <2>2, PipelineAssumption DEF Kinds, Places, Worktrees
  <2>5. ck' \in Checkpoints /\ Judged(ck') /\ Gated(ck') /\ Rested(ck') /\ budget' = budget
    BY <2>1, <2>2
  <2> QED
    BY <1>2, <2>2, <2>3, <2>4, <2>5, SaveKeeps DEF Uninterrupted
<1>7. CASE StillBlocked
  BY <1>2, <1>3, <1>7, SettleKeeps DEF StillBlocked
<1>8. CASE StillPaused
  <2>1. budget' \in 0 .. MaxInterruptions /\ budget' # MaxInterruptions
    BY <1>2, <1>8, Interrupted DEF StillPaused
  <2>2. /\ pc' = "sync" /\ q' = "paused" /\ UNCHANGED <<err, ck, wt, raises, dirty>>
    BY <1>8 DEF StillPaused
  <2>3. Placed'
    BY <2>2 DEF Placed
  <2>4. /\ pc' \in Places /\ q' \in QueueStates /\ err' \in Errors /\ wt' \in Worktrees
        /\ raises' \in 0 .. MaxTurnRaises /\ ck' \in Checkpoints /\ Judged(ck')
    BY <1>2, <2>2 DEF Kinds, Places, QueueStates
  <2> QED
    BY <1>2, <2>1, <2>2, <2>3, <2>4, SaveKeeps
<1>9. CASE ResumeRun
  <2> DEFINE k == Cleared(IF ck.active = Owner THEN Committed(ck) ELSE ck)
             n == [k EXCEPT !.state = "RUNNING"]
  <2>1. /\ k \in Checkpoints /\ k.active = 0 /\ k.state = ck.state /\ k.stage = ck.stage
        /\ k.ownerFailures = ck.ownerFailures
        /\ ck.active # Owner => k.gated = ck.gated /\ k.reviewed = ck.reviewed
    BY <1>2, ReturnedIs
  <2>2. /\ ck' = n /\ wt' = "none" /\ raises' = 0 /\ ck.state \in {"PAUSED", "RUNNING"}
        /\ pc' = (IF ck.stage = Release THEN "release" ELSE "stage")
        /\ UNCHANGED <<q, err, dirty, budget>>
    BY <1>9 DEF ResumeRun
  <2> HIDE DEF k
  <2>3. /\ n \in Checkpoints /\ n.active = 0 /\ n.state = "RUNNING" /\ n.stage = ck.stage
        /\ n.ownerFailures = ck.ownerFailures
        /\ ck.active # Owner => n.gated = ck.gated /\ n.reviewed = ck.reviewed
    BY <2>1 DEF Checkpoints, Live
  <2> HIDE DEF n
  <2>4. Judged(n)
    BY <1>2, <2>2, <2>3 DEF Judged, Live, Owner, Adversary
  <2>5. Uninterrupted => Gated(n) /\ Rested(n)
    BY <1>2, <2>2, <2>3 DEF Gated, Rested, Live, Owner
  <2>6. Placed'
    BY <2>2, <2>3 DEF Placed
  <2>7. /\ budget' \in 0 .. MaxInterruptions /\ pc' \in Places /\ q' \in QueueStates
        /\ err' \in Errors /\ wt' \in Worktrees /\ raises' \in 0 .. MaxTurnRaises
    BY <1>2, <2>2, PipelineAssumption DEF Kinds, Places, Worktrees
  <2>8. ck' \in Checkpoints /\ Judged(ck') /\ budget' = budget
        /\ (Uninterrupted => Gated(ck') /\ Rested(ck'))
    BY <2>2, <2>3, <2>4, <2>5
  <2> QED
    BY <1>2, <2>2, <2>6, <2>7, <2>8, SaveKeeps DEF Uninterrupted
<1>10. CASE RecoverOutside
  <2> DEFINE f == [ck EXCEPT !.state = "BLOCKED", !.err = "product"]
  <2>1. /\ f \in Checkpoints /\ f.state = "BLOCKED" /\ f.stage = ck.stage /\ f.active = ck.active
        /\ f.reviewed = ck.reviewed /\ f.gated = ck.gated
    BY <1>2 DEF Checkpoints, Live, Errors
  <2>2. Settle(f, "blocked", "product") /\ ck.active # 0 /\ ck.state # "FAILED"
    BY <1>10 DEF RecoverOutside
  <2> HIDE DEF f
  <2>3. Judged(f) /\ (Uninterrupted => Gated(f) /\ Rested(f))
    BY <1>2, <2>1, <2>2 DEF Judged, Gated, Rested, Live
  <2> QED
    BY <1>2, <1>3, <2>1, <2>2, <2>3, SettleKeeps
<1> QED
  BY <1>4, <1>5, <1>6, <1>7, <1>8, <1>9, <1>10 DEF Load

(* A stage is begun, or refused for its budget; the agent edits            *)
(* (_execute_stage).                                                       *)
LEMMA SessionBegins ==
  ASSUME FactoryInv, BeginStage \/ RefuseBudget \/ AgentEdits, UNCHANGED <<item, retry, stuck>>
  PROVE  FactoryInv'
<1>1. ck \in Checkpoints /\ Judged(ck) /\ Kinds /\ Placed
  BY DEF FactoryInv
<1>2. CASE BeginStage
  <2> DEFINE n == Session(ck, ck.stage)
  <2>1. /\ pc = "stage" /\ ck.stage \in {Owner, Adversary} /\ ck.state \in {"NEW", "RUNNING"}
        /\ ck.active = 0
    BY <1>1, <1>2 DEF BeginStage, Placed, Checkpoints
  <2>2. /\ n \in Checkpoints /\ n.state = "RUNNING" /\ n.stage = ck.stage /\ n.active = ck.stage
        /\ n.gated = ck.gated /\ n.ownerFailures = ck.ownerFailures /\ n.reviewed = ck.reviewed
    BY <1>1, <2>1 DEF Session, Checkpoints, Live
  <2>3. /\ ck' = n /\ wt' = "clean" /\ pc' = "session"
        /\ UNCHANGED <<q, err, raises, dirty, budget>>
    BY <1>2 DEF BeginStage
  <2> HIDE DEF n
  <2>4. Judged(n)
    BY <1>1, <2>1, <2>2 DEF Judged, Live, Owner, Adversary, Release
  <2>5. Uninterrupted => Gated(n)
    BY <2>1, <2>2 DEF FactoryInv, Gated, Live, Owner, Adversary, Release
  <2>6. Placed'
    BY <2>1, <2>2, <2>3 DEF Placed, Owner, Adversary
  <2>7. /\ budget' \in 0 .. MaxInterruptions /\ pc' \in Places /\ q' \in QueueStates
        /\ err' \in Errors /\ wt' \in Worktrees /\ raises' \in 0 .. MaxTurnRaises
    BY <1>1, <2>3 DEF Kinds, Places, Worktrees
  <2>8. ck' \in Checkpoints /\ Judged(ck') /\ budget' = budget /\ (Uninterrupted => Gated(ck'))
        /\ pc' = "session" /\ pc \in Running
    BY <2>1, <2>2, <2>3, <2>4, <2>5 DEF Running
  <2> QED
    BY <2>3, <2>6, <2>7, <2>8, SaveKeeps DEF Uninterrupted
<1>3. CASE RefuseBudget
  <2>1. pc \in Running /\ Fails(ck, "product") /\ "product" \in Errors
    BY <1>3 DEF RefuseBudget, Running, Errors
  <2>2. Uninterrupted => (ck.stage = Release => ck.gated)
    BY DEF FactoryInv, Gated
  <2> QED
    BY <1>1, <2>1, <2>2, FailsKeeps DEF Judged
<1>4. CASE AgentEdits
  <2>1. wt' \in Worktrees /\ UNCHANGED <<pc, q, err, ck, raises, dirty, budget>> /\ pc \in Running
    BY <1>4 DEF AgentEdits, Worktrees, Running
  <2>2. Placed' /\ Judged(ck') /\ ck' \in Checkpoints
    BY <1>1, <2>1 DEF Placed
  <2>3. budget' = MaxInterruptions =>
          Uninterrupted /\ Gated(ck') /\ (pc' # "session" => Rested(ck'))
    BY <2>1 DEF FactoryInv, Uninterrupted
  <2> QED
    BY <1>1, <2>1, <2>2, <2>3, SaveKeeps DEF Kinds
<1> QED
  BY <1>2, <1>3, <1>4

-----------------------------------------------------------------------------
(* The caller of a session saves what it made of the checkpoint. *)
LEMMA AdvanceKeeps ==
  ASSUME FactoryInv, pc = "session", UNCHANGED <<item, retry, stuck>>,
         NEW c \in Checkpoints, NEW next \in {"stage", "release"}, Advance(c, next),
         Judged(c), c.active = 0, c.state = "RUNNING",
         next = "stage" => c.stage # Release, next = "release" => c.stage = Release,
         Uninterrupted => Gated(c), raises' \in 0 .. MaxTurnRaises
  PROVE  FactoryInv'
<1>1. Kinds
  BY DEF FactoryInv
<1>2. /\ ck' = c /\ wt' = "none" /\ pc' = next /\ UNCHANGED <<q, err, dirty, budget>>
  BY DEF Advance
<1>3. Placed'
  BY <1>2 DEF Placed
<1>4. /\ budget' \in 0 .. MaxInterruptions /\ pc' \in Places /\ q' \in QueueStates
      /\ err' \in Errors /\ wt' \in Worktrees /\ pc \in Running
  BY <1>1, <1>2 DEF Kinds, Places, Worktrees, Running
<1>5. ck' \in Checkpoints /\ Judged(ck') /\ budget' = budget
      /\ (Uninterrupted => Gated(ck') /\ Rested(ck'))
  BY <1>2 DEF Rested
<1> QED
  BY <1>2, <1>3, <1>4, <1>5, SaveKeeps DEF Uninterrupted

(* A repair session is opened in the worktree of the review. *)
LEMMA RepairOpens ==
  ASSUME FactoryInv, pc = "session", UNCHANGED <<item, retry, stuck>>,
         NEW c \in Checkpoints, c.stage = Adversary, c.cycles < MaxCycles,
         c.ownerFailures < Models,
         ck' = [Session(c, Owner) EXCEPT !.cycles = @ + 1], wt' = "clean",
         UNCHANGED <<pc, q, err, raises, dirty, budget>>
  PROVE  FactoryInv'
<1> DEFINE n == [Session(c, Owner) EXCEPT !.cycles = @ + 1]
<1>1. /\ Session(c, Owner) \in Checkpoints
      /\ Session(c, Owner) = [c EXCEPT !.state = "RUNNING", !.active = Owner]
  BY DEF Session, Checkpoints, Live
<1>2. /\ n \in Checkpoints /\ n.state = "RUNNING" /\ n.stage = Adversary /\ n.active = Owner
      /\ n.ownerFailures = c.ownerFailures
  <2>1. c.cycles + 1 \in 0 .. MaxCycles
    BY PipelineAssumption DEF Checkpoints
  <2> QED
    BY <1>1, <2>1 DEF Checkpoints, Live
<1> HIDE DEF n
<1>3. Judged(n) /\ Gated(n)
  BY <1>2 DEF Judged, Gated, Live, Owner, Adversary, Release
<1>4. ck' = n /\ pc' = "session"
  BY DEF n
<1>5. Placed'
  <2>1. n.active # 0
    BY <1>2 DEF Owner
  <2> QED
    BY <1>2, <1>4, <2>1 DEF Placed
<1>6. /\ budget' \in 0 .. MaxInterruptions /\ pc' \in Places /\ q' \in QueueStates
      /\ err' \in Errors /\ wt' \in Worktrees /\ raises' \in 0 .. MaxTurnRaises /\ pc \in Running
  BY DEF FactoryInv, Kinds, Places, Worktrees, Running
<1>7. ck' \in Checkpoints /\ Judged(ck') /\ Gated(ck') /\ budget' = budget /\ pc' = "session"
  BY <1>2, <1>3, <1>4
<1> QED
  BY <1>5, <1>6, <1>7, SaveKeeps DEF Uninterrupted

(* An open session, and the checkpoint it returns to its caller. *)
LEMMA SessionIs ==
  ASSUME FactoryInv, pc = "session"
  PROVE  LET r == Returned(ck) IN
           /\ pc \in Running /\ ck \in Checkpoints /\ ck.state = "RUNNING"
           /\ ck.stage \in {Owner, Adversary} /\ ck.active \in {Owner, Adversary}
           /\ ck.active = Adversary => ck.stage = Adversary
           /\ r \in Checkpoints /\ r.active = 0 /\ r.state = "RUNNING" /\ r.stage = ck.stage
           /\ r.ownerFailures = ck.ownerFailures /\ r.ownerFailures < Models
           /\ Uninterrupted /\ ck.active = Adversary => r.gated
           /\ r.stage # Release
<1>1. ck \in Checkpoints /\ Judged(ck) /\ ck.state = "RUNNING" /\ ck.active # 0
  BY DEF FactoryInv, Placed
<1>2. /\ ck.stage \in {Owner, Adversary} /\ ck.active \in {Owner, Adversary}
      /\ ck.active = Adversary => ck.stage = Adversary
      /\ ck.ownerFailures < Models
  BY <1>1 DEF Judged, Checkpoints, Live
<1>3. Uninterrupted /\ ck.active = Adversary => ck.gated
  BY <1>1, <1>2 DEF FactoryInv, Gated, Live, Owner, Adversary
<1>4. pc \in Running
  BY DEF Running
<1> QED
  BY <1>1, <1>2, <1>3, <1>4, ReturnedIs DEF Owner, Adversary, Release

(* A session pauses, raises, is blocked, or dies with what it committed    *)
(* (_execute_stage).                                                       *)
LEMMA SessionStopsKeeps ==
  ASSUME FactoryInv, SessionStops, UNCHANGED <<item, retry, stuck>> PROVE FactoryInv'
<1>1. pc = "session"
  BY DEF SessionStops, SessionPauses, SessionRaises, StageBlocked, DiesBeforeCaller
<1> DEFINE r == Returned(ck)
           k == Cleared(IF ck.active = Owner THEN Committed(ck) ELSE ck)
<1>2. /\ pc \in Running /\ ck \in Checkpoints /\ ck.state = "RUNNING"
      /\ ck.stage \in {Owner, Adversary} /\ ck.active \in {Owner, Adversary}
      /\ ck.active = Adversary => ck.stage = Adversary
      /\ r \in Checkpoints /\ r.active = 0 /\ r.stage # Release /\ ck.stage # Release
      /\ ck.ownerFailures < Models
  BY <1>1, SessionIs DEF Owner, Adversary, Release
<1>3. /\ k \in Checkpoints /\ k.active = 0 /\ k.stage = ck.stage /\ k.ownerFailures = ck.ownerFailures
  BY <1>2, ReturnedIs
<1>4. {"product", "infrastructure"} \subseteq Errors /\ Kinds
  BY DEF Errors, FactoryInv
<1>5. CASE SessionPauses
  <2> DEFINE n == [k EXCEPT !.state = "PAUSED"]
  <2>1. /\ ck' = n /\ wt' = "none" /\ q' = "paused" /\ err' = "none" /\ pc' = "sync"
        /\ UNCHANGED <<raises, dirty>> /\ Interrupt
    BY <1>5 DEF SessionPauses
  <2> HIDE DEF k
  <2>2. /\ n \in Checkpoints /\ n.state = "PAUSED" /\ n.stage = ck.stage /\ n.active = 0
        /\ n.ownerFailures = ck.ownerFailures
    BY <1>3 DEF Checkpoints, Live
  <2> HIDE DEF n
  <2>3. Judged(n)
    BY <1>2, <2>2 DEF Judged, Adversary
  <2>4. Placed'
    BY <2>1 DEF Placed
  <2>5. budget' \in 0 .. MaxInterruptions /\ budget' # MaxInterruptions
    BY <1>4, <2>1, Interrupted
  <2>6. /\ pc' \in Places /\ q' \in QueueStates /\ err' \in Errors /\ wt' \in Worktrees
        /\ raises' \in 0 .. MaxTurnRaises /\ ck' \in Checkpoints /\ Judged(ck')
    BY <1>4, <2>1, <2>2, <2>3 DEF Kinds, Places, QueueStates, Errors, Worktrees
  <2> QED
    BY <1>2, <2>1, <2>4, <2>5, <2>6, SaveKeeps
<1>6. CASE SessionRaises
  <2>1. PICK e \in {"product", "infrastructure"} : Fails(ck, e)
    BY <1>6 DEF SessionRaises
  <2> QED
    BY <1>2, <1>4, <2>1, FailsKeeps
<1>7. CASE StageBlocked
  <2>1. PICK e \in {"product", "infrastructure"} : Blocks(r, e)
    BY <1>7 DEF StageBlocked
  <2> HIDE DEF r
  <2> QED
    BY <1>2, <1>4, <2>1, BlocksKeeps
<1>8. CASE DiesBeforeCaller
  <2> DEFINE n == Cleared(ck)
  <2>1. /\ ck' = n /\ wt' = "none" /\ pc' = "down" /\ UNCHANGED <<q, err, raises, dirty>> /\ Interrupt
    BY <1>8 DEF DiesBeforeCaller
  <2>2. /\ n \in Checkpoints /\ n.stage = ck.stage /\ n.active = 0 /\ n.state = "RUNNING"
        /\ n.ownerFailures = ck.ownerFailures
    BY <1>2 DEF Cleared, Checkpoints
  <2> HIDE DEF n
  <2>3. Judged(n)
    BY <1>2, <2>2 DEF Judged, Adversary
  <2>4. Placed'
    BY <2>1 DEF Placed
  <2>5. budget' \in 0 .. MaxInterruptions /\ budget' # MaxInterruptions
    BY <1>4, <2>1, Interrupted
  <2>6. /\ pc' \in Places /\ q' \in QueueStates /\ err' \in Errors /\ wt' \in Worktrees
        /\ raises' \in 0 .. MaxTurnRaises /\ ck' \in Checkpoints /\ Judged(ck')
    BY <1>4, <2>1, <2>2, <2>3 DEF Kinds, Places, Worktrees
  <2> QED
    BY <1>2, <2>1, <2>4, <2>5, <2>6, SaveKeeps
<1> QED
  BY <1>5, <1>6, <1>7, <1>8 DEF SessionStops

(* The owner's candidate passes its gates or fails (run_pipeline). *)
LEMMA OwnerKeeps ==
  ASSUME FactoryInv, OwnerEnds, UNCHANGED <<item, retry, stuck>> PROVE FactoryInv'
<1>1. pc = "session" /\ ck.active = Owner
  BY DEF OwnerEnds, OwnerPasses, OwnerFails, RepairPasses, RepairFails, Repairing
<1> DEFINE r == Returned(ck)
<1>2. /\ pc \in Running /\ ck \in Checkpoints
      /\ r \in Checkpoints /\ r.active = 0 /\ r.state = "RUNNING" /\ r.stage = ck.stage
      /\ r.ownerFailures = ck.ownerFailures /\ r.ownerFailures < Models /\ r.stage # Release
  BY <1>1, SessionIs
<1>3. {"product", "infrastructure"} \subseteq Errors /\ raises \in 0 .. MaxTurnRaises
  BY DEF Errors, FactoryInv, Kinds
<1>4. CASE OwnerPasses \/ RepairPasses
  <2> DEFINE n == [r EXCEPT !.gated = TRUE, !.stage = Adversary]
  <2>1. Advance(n, "stage") /\ raises' = raises
    BY <1>4 DEF OwnerPasses, RepairPasses
  <2> HIDE DEF r
  <2>2. /\ n \in Checkpoints /\ n.stage = Adversary /\ n.gated /\ n.active = 0
        /\ n.state = "RUNNING" /\ n.ownerFailures = r.ownerFailures
    BY <1>2 DEF Checkpoints
  <2> HIDE DEF n
  <2>3. Judged(n) /\ Gated(n) /\ n.stage # Release
    BY <1>2, <2>2 DEF Judged, Gated, Adversary, Release
  <2> QED
    BY <1>1, <1>3, <2>1, <2>2, <2>3, AdvanceKeeps
<1>5. CASE OwnerFails
  <2> DEFINE c == [r EXCEPT !.ownerFailures = @ + 1]
  <2>0. ck.stage = Owner
    BY <1>5 DEF OwnerFails
  <2>1. \/ RetryOwner(c)
        \/ c.ownerFailures >= Models /\ \E e \in {"product", "infrastructure"} : Fails(c, e)
    BY <1>5 DEF OwnerFails
  <2> HIDE DEF r
  <2>2. r.ownerFailures + 1 \in 0 .. Models
    BY <1>2, PipelineAssumption DEF Checkpoints
  <2>3. /\ c \in Checkpoints /\ c.stage = Owner /\ c.active = 0 /\ c.state = "RUNNING"
    BY <1>2, <2>0, <2>2 DEF Checkpoints
  <2> HIDE DEF c
  <2>4. CASE RetryOwner(c)
    <3>1. Judged(c) /\ Gated(c) /\ Advance(c, "stage") /\ raises' = raises
      BY <2>3, <2>4 DEF RetryOwner, Judged, Gated, Owner, Adversary, Release
    <3> QED
      BY <1>1, <1>3, <2>3, <3>1, AdvanceKeeps DEF Owner, Release
  <2>5. ASSUME NEW e \in {"product", "infrastructure"}, Fails(c, e) PROVE FactoryInv'
    BY <1>2, <1>3, <2>3, <2>5, FailsKeeps DEF Owner, Adversary, Release
  <2> QED
    BY <2>1, <2>4, <2>5
<1>6. CASE RepairFails
  <2>1. ck.stage = Adversary
    BY <1>6 DEF RepairFails, Repairing
  <2>2. CASE r.cycles < MaxCycles
    <3>1. /\ ck' = [Session(r, Owner) EXCEPT !.cycles = @ + 1] /\ wt' = "clean"
          /\ UNCHANGED <<pc, q, err, raises, dirty, budget>>
      BY <1>6, <2>2 DEF RepairFails
    <3> HIDE DEF r
    <3> QED
      BY <1>1, <1>2, <2>1, <2>2, <3>1, RepairOpens
  <2>3. CASE ~(r.cycles < MaxCycles)
    <3>1. PICK e \in {"product", "infrastructure"} : Fails(r, e)
      BY <1>6, <2>3 DEF RepairFails
    <3> HIDE DEF r
    <3> QED
      BY <1>2, <1>3, <3>1, FailsKeeps DEF Adversary
  <2> QED
    BY <2>2, <2>3
<1> QED
  BY <1>4, <1>5, <1>6 DEF OwnerEnds

(* The adversary passes, is asked again, or rejects                        *)
(* (review_turn_retry_update, review_infra_retry_update,                   *)
(* route_repair_findings).                                                 *)
LEMMA AdversaryKeeps ==
  ASSUME FactoryInv, AdversaryEnds, UNCHANGED <<item, retry, stuck>> PROVE FactoryInv'
<1>1. pc = "session" /\ ck.active = Adversary
  BY DEF AdversaryEnds, AdversaryPasses, ReviewAgain, ReviewRejects
<1> DEFINE r == Returned(ck)
<1>2. /\ pc \in Running /\ ck \in Checkpoints
      /\ r \in Checkpoints /\ r.active = 0 /\ r.state = "RUNNING" /\ r.stage = Adversary
      /\ r.ownerFailures < Models /\ (Uninterrupted => r.gated)
  BY <1>1, SessionIs
<1>3. raises \in 0 .. MaxTurnRaises
  BY DEF FactoryInv, Kinds
<1>4. CASE AdversaryPasses
  <2> DEFINE n == [r EXCEPT !.reviewed = TRUE, !.stage = Release]
  <2>1. Advance(n, "release") /\ raises' = raises
    BY <1>4 DEF AdversaryPasses
  <2> HIDE DEF r
  <2>2. /\ n \in Checkpoints /\ n.stage = Release /\ n.reviewed /\ n.active = 0
        /\ n.state = "RUNNING" /\ n.ownerFailures = r.ownerFailures /\ n.gated = r.gated
    BY <1>2 DEF Checkpoints
  <2> HIDE DEF n
  <2>3. Judged(n) /\ (Uninterrupted => Gated(n))
    BY <1>2, <2>2 DEF Judged, Gated, Adversary, Release
  <2> QED
    BY <1>1, <1>3, <2>1, <2>2, <2>3, AdvanceKeeps
<1>5. ASSUME NEW c \in Checkpoints, c.active = 0, c.state = "RUNNING", c.stage = Adversary,
             c.ownerFailures < Models, c.gated = r.gated,
             RaiseTurns(c) \/ RepeatReport(c)
      PROVE  FactoryInv'
  <2>1. Advance(c, "stage") /\ raises' \in 0 .. MaxTurnRaises
    <3>1. CASE RaiseTurns(c)
      BY <1>3, <3>1, PipelineAssumption DEF RaiseTurns
    <3>2. CASE RepeatReport(c)
      BY <1>3, <3>2 DEF RepeatReport
    <3> QED
      BY <1>5, <3>1, <3>2
  <2>2. Judged(c) /\ (Uninterrupted => Gated(c))
    BY <1>2, <1>5 DEF Judged, Gated, Adversary, Release
  <2> HIDE DEF r
  <2> QED
    BY <1>1, <1>5, <2>1, <2>2, AdvanceKeeps DEF Adversary, Release
<1>6. \A n \in Nat : Count(n, MaxReportRetries + 1) \in Nat
  BY PipelineAssumption DEF Count
<1>7. CASE ReviewAgain
  <2> DEFINE c == [r EXCEPT !.reviewFailures = Count(@, MaxReportRetries + 1)]
  <2>1. RaiseTurns(c) \/ RepeatReport(c)
    BY <1>7 DEF ReviewAgain
  <2> HIDE DEF r
  <2>2. Count(r.reviewFailures, MaxReportRetries + 1) \in Nat
    BY <1>2, <1>6 DEF Checkpoints
  <2>3. /\ c \in Checkpoints /\ c.active = 0 /\ c.state = "RUNNING" /\ c.stage = Adversary
        /\ c.ownerFailures < Models /\ c.gated = r.gated
    BY <1>2, <2>2 DEF Checkpoints
  <2> HIDE DEF c
  <2> QED
    BY <1>5, <2>1, <2>3
<1>8. CASE ReviewRejects
  <2>1. PICK again \in BOOLEAN :
          LET c == [r EXCEPT !.reviewFailures = Count(@, MaxReportRetries + 1),
                             !.repeats = IF again THEN @ + 1 ELSE @] IN
          Stalls(c) \/ OwnerDeclared(c) \/ ScopeGap(c) \/ StartRepair(c) \/ NoRepairLeft(c)
    BY <1>8 DEF ReviewRejects
  <2> DEFINE c == [r EXCEPT !.reviewFailures = Count(@, MaxReportRetries + 1),
                            !.repeats = IF again THEN @ + 1 ELSE @]
  <2>2. Stalls(c) \/ OwnerDeclared(c) \/ ScopeGap(c) \/ StartRepair(c) \/ NoRepairLeft(c)
    BY <2>1
  <2> HIDE DEF r
  <2>3. /\ Count(r.reviewFailures, MaxReportRetries + 1) \in Nat
        /\ (IF again THEN r.repeats + 1 ELSE r.repeats) \in Nat
    BY <1>2, <1>6 DEF Checkpoints
  <2>4. /\ c \in Checkpoints /\ c.active = 0 /\ c.state = "RUNNING" /\ c.stage = Adversary
        /\ c.ownerFailures < Models
    BY <1>2, <2>3 DEF Checkpoints
  <2> HIDE DEF c
  <2>5. \A e \in Errors : ~(c.stage = Release) /\ ~(c.active = Adversary)
    BY <2>4 DEF Adversary, Release
  <2>6. ASSUME NEW e \in Errors, Fails(c, e) PROVE FactoryInv'
    BY <1>2, <2>4, <2>5, <2>6, FailsKeeps
  <2>7. ASSUME NEW e \in Errors, Blocks(c, e) PROVE FactoryInv'
    BY <1>2, <2>4, <2>5, <2>7, BlocksKeeps
  <2>8. {"product", "infrastructure", "factory", "external"} \subseteq Errors
    BY DEF Errors
  <2>9. CASE StartRepair(c)
    BY <1>1, <2>4, <2>9, RepairOpens DEF StartRepair
  <2> QED
    BY <2>2, <2>6, <2>7, <2>8, <2>9 DEF Stalls, OwnerDeclared, ScopeGap, NoRepairLeft
<1> QED
  BY <1>4, <1>7, <1>8 DEF AdversaryEnds

(* The release refuses the candidate, or passes what was judged            *)
(* (run_pipeline).                                                         *)
LEMMA ReleaseKeeps ==
  ASSUME FactoryInv, ReleaseRefused \/ ReleasePasses, UNCHANGED <<item, retry, stuck>>
  PROVE  FactoryInv'
<1>1. pc = "release" /\ pc \in Running
  BY DEF ReleaseRefused, ReleasePasses, Running
<1>2. ck \in Checkpoints /\ Judged(ck) /\ ck.stage = Release /\ ck.reviewed /\ ck.active = 0
      /\ (Uninterrupted => ck.gated)
  BY <1>1 DEF FactoryInv, Placed, Judged, Gated
<1>3. ASSUME NEW e \in Errors, Fails(ck, e) PROVE FactoryInv'
  BY <1>1, <1>2, <1>3, FailsKeeps DEF Adversary
<1>4. ASSUME NEW e \in Errors, Blocks(ck, e) PROVE FactoryInv'
  BY <1>1, <1>2, <1>4, BlocksKeeps
<1>5. CASE ReleaseRefused
  <2>1. {"product", "value", "external"} \subseteq Errors
    BY DEF Errors
  <2> QED
    BY <1>3, <1>4, <1>5, <2>1
    DEF ReleaseRefused, DeltaRefused, PrivateGateRefused, ValueRefused
<1>6. CASE ReleasePasses
  <2> DEFINE n == [ck EXCEPT !.state = "PASSED", !.err = "none"]
  <2>1. Settle(n, "done", "none")
    BY <1>6 DEF ReleasePasses
  <2>2. /\ n \in Checkpoints /\ n.state = "PASSED" /\ n.stage = Release /\ n.reviewed
        /\ n.active = 0 /\ n.gated = ck.gated
    BY <1>2 DEF Checkpoints, Live, Errors
  <2> HIDE DEF n
  <2>3. Judged(n) /\ (Uninterrupted => Gated(n) /\ Rested(n))
    BY <1>2, <2>2 DEF Judged, Gated, Rested, Live, Adversary, Release
  <2>4. "done" \in QueueStates /\ "none" \in Errors
    BY DEF QueueStates, Errors
  <2> QED
    BY <1>1, <2>1, <2>2, <2>3, <2>4, SettleKeeps
<1> QED
  BY <1>5, <1>6

-----------------------------------------------------------------------------
(* A commit of the ledger only moves main away from a checkpoint. *)
LEMMA OffMainIs ==
  ASSUME NEW c \in Checkpoints
  PROVE  /\ OffMain(c) \in Checkpoints
         /\ Judged(c) => Judged(OffMain(c))
         /\ Gated(c) => Gated(OffMain(c))
         /\ Rested(c) => Rested(OffMain(c))
         /\ OffMain(c).stage = c.stage /\ OffMain(c).gated = c.gated
<1> DEFINE n == OffMain(c)
<1>1. /\ n \in Checkpoints /\ n.state = c.state /\ n.stage = c.stage /\ n.active = c.active
      /\ n.gated = c.gated /\ n.reviewed = c.reviewed /\ n.ownerFailures = c.ownerFailures
  BY DEF OffMain, Checkpoints
<1> HIDE DEF n
<1>2. (Judged(c) => Judged(n)) /\ (Gated(c) => Gated(n)) /\ (Rested(c) => Rested(n))
  BY <1>1 DEF Judged, Gated, Rested
<1> QED
  BY <1>1, <1>2 DEF n

(* The loop keeps the checkpoint, dates it by a commit of the ledger, or   *)
(* archives it.                                                            *)
LEMMA LoopKeeps ==
  ASSUME FactoryInv, pc \notin {"stage", "session", "release"},
         pc' \in Places \ {"stage", "session", "release"}, Kinds', Respecified',
         ck' \in {ck, OffMain(ck), NoCheckpoint},
         budget' = MaxInterruptions =>
           /\ Uninterrupted
           /\ retry' => /\ retry /\ pc' \in {"down", "sync", "decide"}
                        /\ item'.terminal /\ item'.status # "passed"
                        /\ ck' \in {ck, OffMain(ck)}
  PROVE  FactoryInv'
<1>1. ck \in Checkpoints /\ Judged(ck) /\ (Uninterrupted => Gated(ck) /\ Rested(ck) /\ Marked)
  BY DEF FactoryInv
<1>2. NoCheckpoint \in Checkpoints /\ Judged(NoCheckpoint) /\ Gated(NoCheckpoint) /\ Rested(NoCheckpoint)
  BY NewIsJudged DEF NoCheckpoint
<1>3. /\ OffMain(ck) \in Checkpoints /\ Judged(OffMain(ck))
      /\ OffMain(ck).stage = ck.stage /\ OffMain(ck).gated = ck.gated
      /\ Uninterrupted => Gated(OffMain(ck)) /\ Rested(OffMain(ck))
  BY <1>1, OffMainIs
<1>4. ck' \in Checkpoints /\ Judged(ck') /\ (Uninterrupted => Gated(ck') /\ Rested(ck'))
  BY <1>1, <1>2, <1>3
<1>5. Placed'
  BY DEF Placed
<1>6. budget' = MaxInterruptions => Marked'
  <2> SUFFICES ASSUME budget' = MaxInterruptions, retry'
               PROVE  /\ pc' \in {"down", "sync", "decide"}
                      /\ item'.terminal /\ item'.status # "passed"
                      /\ ck'.stage # Owner => ck'.gated
    BY DEF Marked
  <2>1. ck.stage # Owner => ck.gated
    BY <1>1 DEF Marked
  <2>2. ck'.stage = ck.stage /\ ck'.gated = ck.gated
    BY <1>3
  <2> QED
    BY <2>1, <2>2
<1>7. Judged(ck)' /\ (budget' = MaxInterruptions => Gated(ck)' /\ Rested(ck)')
  BY <1>4 DEF Judged, Gated, Rested
<1> QED
  BY <1>4, <1>5, <1>6, <1>7 DEF FactoryInv, Uninterrupted

(* Once the loop decides, no recovery is due. *)
LEMMA DecidingIs ==
  ASSUME FactoryInv, Deciding
  PROVE  /\ pc = "decide" /\ pc \notin {"stage", "session", "release"}
         /\ Uninterrupted => ~retry
  BY DEF FactoryInv, Deciding, Marked

(* The ledger is saved, and committed unless the process dies. *)
LEMMA LedgerSaved ==
  ASSUME Kinds, NEW i, NEW c, NEW next \in {"sync", "decide"},
         (CommitLedger(i, c, next) /\ UNCHANGED budget) \/ SaveLedgerOnly(i, c)
  PROVE  /\ item' = i /\ dirty' \in BOOLEAN /\ pc' \in {next, "down"}
         /\ ck' \in {c, OffMain(c)} /\ budget' \in 0 .. MaxInterruptions
         /\ budget' = MaxInterruptions => Uninterrupted
<1>1. CASE CommitLedger(i, c, next) /\ UNCHANGED budget
  BY <1>1 DEF CommitLedger, Kinds, Uninterrupted
<1>2. CASE SaveLedgerOnly(i, c)
  <2>1. Interrupt /\ item' = i /\ ck' = c /\ dirty' = TRUE /\ pc' = "down"
    BY <1>2 DEF SaveLedgerOnly
  <2> QED
    BY <2>1, Interrupted
<1> QED
  BY <1>1, <1>2

(* The process starts, and the ledger follows the queue                    *)
(* (reconcile_running, sync_ledger_from_queue).                            *)
LEMMA HeadKeeps ==
  ASSUME FactoryInv, Start \/ Sync PROVE FactoryInv'
<1>1. Kinds /\ Respecified /\ ck \in Checkpoints /\ (Uninterrupted => Marked)
  BY DEF FactoryInv
<1>2. CASE Start
  <2>1. /\ pc = "down" /\ q' = Reconciled /\ stuck' = FALSE /\ pc' = "sync"
        /\ err' = (IF q = "running" /\ ck.state = "BLOCKED" THEN ck.err ELSE err)
        /\ UNCHANGED <<ck, wt, raises, dirty, budget, item, retry>>
    BY <1>2 DEF Start
  <2>2. q' \in QueueStates /\ err' \in Errors
    BY <1>1, <2>1 DEF Reconciled, QueueStates, Kinds, Checkpoints
  <2>3. Kinds' /\ Respecified'
    BY <1>1, <2>1, <2>2 DEF Kinds, Respecified, Places
  <2>4. pc' \in Places \ {"stage", "session", "release"}
    BY <2>1 DEF Places
  <2>5. budget' = MaxInterruptions =>
          /\ Uninterrupted
          /\ retry' => /\ retry /\ pc' \in {"down", "sync", "decide"}
                       /\ item'.terminal /\ item'.status # "passed" /\ ck' = ck
    BY <1>1, <2>1 DEF Uninterrupted, Marked
  <2> QED
    BY <2>1, <2>3, <2>4, <2>5, LoopKeeps
<1>3. CASE Sync
  <2>1. PICK due \in BOOLEAN :
         LET now == IF due /\ q = "paused" THEN "pending" ELSE q
             new == [item EXCEPT !.status = SyncStatus(item, now, err)] IN
         /\ q' = now
         /\ \/ new = item /\ pc' = "decide" /\ UNCHANGED <<item, ck, dirty, budget>>
            \/ new # item /\ CommitLedger(new, ck, "decide") /\ UNCHANGED budget
            \/ new # item /\ SaveLedgerOnly(new, ck)
    BY <1>3 DEF Sync
  <2> DEFINE now == IF due /\ q = "paused" THEN "pending" ELSE q
             new == [item EXCEPT !.status = SyncStatus(item, now, err)]
  <2>2. pc = "sync" /\ UNCHANGED <<err, wt, raises, retry, stuck>>
    BY <1>3 DEF Sync
  <2>3. now \in QueueStates
    BY <1>1 DEF Kinds, QueueStates
  <2>4. q' = now
    BY <2>1
  <2>5. \/ pc' = "decide" /\ item' = new /\ UNCHANGED <<ck, dirty, budget>>
        \/ CommitLedger(new, ck, "decide") /\ UNCHANGED budget
        \/ SaveLedgerOnly(new, ck)
    BY <2>1
  <2> HIDE DEF now
  <2>6. /\ SyncStatus(item, now, err) \in Statuses
        /\ item.terminal => SyncStatus(item, now, err) = item.status
    <3>1. item.status \in Statuses /\ item.terminal \in BOOLEAN
      BY <1>1 DEF Respecified, Items
    <3>2. CASE item.terminal
      BY <3>1, <3>2, Zenon DEF SyncStatus
    <3>3. CASE ~item.terminal
      BY <2>3, <3>1, <3>3, Zenon DEF SyncStatus, Statuses, QueueStates
    <3> QED
      BY <3>1, <3>2, <3>3
  <2>7. /\ new \in Items /\ new.revisions = item.revisions /\ new.redesigns = item.redesigns
        /\ new.terminal = item.terminal /\ (item.terminal => new.status = item.status)
    BY <1>1, <2>6 DEF Respecified, Items
  <2> HIDE DEF new
  <2>8. /\ item' = new /\ dirty' \in BOOLEAN /\ pc' \in {"decide", "down"}
        /\ ck' \in {ck, OffMain(ck)} /\ budget' \in 0 .. MaxInterruptions
        /\ budget' = MaxInterruptions => Uninterrupted
    BY <1>1, <2>5, LedgerSaved DEF Kinds, Uninterrupted
  <2>9. Kinds' /\ Respecified'
    BY <1>1, <2>2, <2>3, <2>4, <2>7, <2>8 DEF Kinds, Respecified, Places
  <2>10. budget' = MaxInterruptions =>
          /\ Uninterrupted
          /\ retry' => /\ retry /\ pc' \in {"down", "sync", "decide"}
                       /\ item'.terminal /\ item'.status # "passed" /\ ck' \in {ck, OffMain(ck)}
    BY <1>1, <2>2, <2>7, <2>8 DEF Marked
  <2>11. pc' \in Places \ {"stage", "session", "release"}
    BY <2>8 DEF Places
  <2> QED
    BY <2>2, <2>8, <2>9, <2>10, <2>11, LoopKeeps
<1> QED
  BY <1>2, <1>3

(* The loop's branches that leave the checkpoint's meaning alone. *)
LEMMA BranchKeeps ==
  ASSUME FactoryInv,
         Complete \/ RespecRecovers \/ RespecEnds \/ Respecify \/ Claim \/ Plan \/ PlanRefused
           \/ Enqueue \/ Wait \/ TerminalBlocker \/ PlanFails
  PROVE  FactoryInv'
<1>1. Deciding
  BY DEF Complete, RespecRecovers, RespecEnds, Respecify, Claim, Plan, PlanRefused, Enqueue, Wait,
         TerminalBlocker, PlanFails, Idle
<1>2. /\ pc = "decide" /\ pc \notin {"stage", "session", "release"}
      /\ Kinds /\ Respecified /\ (Uninterrupted => ~retry)
  BY <1>1, DecidingIs DEF FactoryInv
<1>3. ASSUME pc' \in {"down", "sync", "decide", "load", "complete"}, Kinds', Respecified',
             ck' \in {ck, OffMain(ck), NoCheckpoint},
             budget' = MaxInterruptions => Uninterrupted, retry' = retry
      PROVE  FactoryInv'
  BY <1>2, <1>3, LoopKeeps DEF Places
<1>4. Interrupt => budget' \in 0 .. MaxInterruptions /\ budget' # MaxInterruptions
  BY <1>2, Interrupted
<1>5. item \in Items /\ item.revisions \in Nat /\ item.redesigns \in 0 .. MaxRedesigns
      /\ item.recoveries \in 0 .. MaxRecoveries /\ item.revisions <= MaxRespecs + item.redesigns
  BY <1>2 DEF Respecified, Items
<1>6. CASE Complete
  <2>1. pc' \in {"sync", "complete", "down"}
        /\ UNCHANGED <<q, err, ck, wt, raises, dirty, item, retry, stuck>>
    BY <1>6 DEF Complete, WriteAuditedMain
  <2>2. (UNCHANGED budget \/ Interrupt)
    BY <1>6 DEF Complete
  <2>3. budget' \in 0 .. MaxInterruptions /\ (budget' = MaxInterruptions => Uninterrupted)
    BY <1>2, <1>4, <2>2 DEF Kinds, Uninterrupted
  <2>4. Kinds' /\ Respecified'
    BY <1>2, <2>1, <2>3 DEF Kinds, Respecified, Places
  <2> QED
    BY <1>3, <2>1, <2>3, <2>4
<1>7. CASE RespecRecovers
  <2>1. /\ q' \in {q, "absent", "pending"} /\ (err' = err \/ err' = "none") /\ wt' = "none"
        /\ UNCHANGED <<raises, retry, stuck>>
        /\ item.recoveries < MaxRecoveries
        /\ \/ CommitLedger(Recovered, NoCheckpoint, "sync") /\ UNCHANGED budget
           \/ SaveLedgerOnly(Recovered, NoCheckpoint)
           \/ Interrupt /\ ck' = NoCheckpoint /\ pc' = "down" /\ UNCHANGED <<item, dirty>>
    BY <1>7 DEF RespecRecovers, Recoverable
  <2>2. Recovered \in Items /\ Recovered.revisions = item.revisions
        /\ Recovered.redesigns = item.redesigns
    <3>1. item.recoveries + 1 \in 0 .. MaxRecoveries /\ "queued" \in Statuses
      BY <1>5, <2>1, AutopilotAssumption DEF Statuses
    <3> QED
      BY <1>5, <3>1 DEF Recovered, Items
  <2>3. OffMain(NoCheckpoint) \in {OffMain(NoCheckpoint)}
    OBVIOUS
  <2>4. /\ (item' = Recovered \/ item' = item) /\ dirty' \in BOOLEAN /\ pc' \in {"sync", "down"}
        /\ ck' \in {NoCheckpoint, OffMain(NoCheckpoint)} /\ budget' \in 0 .. MaxInterruptions
        /\ budget' = MaxInterruptions => Uninterrupted
    <3>1. CASE (CommitLedger(Recovered, NoCheckpoint, "sync") /\ UNCHANGED budget)
                 \/ SaveLedgerOnly(Recovered, NoCheckpoint)
      BY <1>2, <3>1, LedgerSaved
    <3>2. CASE Interrupt /\ ck' = NoCheckpoint /\ pc' = "down" /\ UNCHANGED <<item, dirty>>
      BY <1>2, <1>4, <3>2 DEF Kinds
    <3> QED
      BY <2>1, <3>1, <3>2
  <2>5. Kinds' /\ Respecified'
    <3>1. Kinds'
      BY <1>2, <2>1, <2>4 DEF Kinds, Places, QueueStates, Errors, Worktrees
    <3>2. Respecified'
      BY <1>5, <2>2, <2>4 DEF Respecified
    <3> QED
      BY <3>1, <3>2
  <2>6. CASE ck' = NoCheckpoint
    BY <1>3, <2>1, <2>4, <2>5, <2>6
  <2>7. CASE ck' = OffMain(NoCheckpoint)
    <3> DEFINE n == OffMain(NoCheckpoint)
    <3>1. NoCheckpoint \in Checkpoints /\ Judged(NoCheckpoint) /\ Gated(NoCheckpoint) /\ Rested(NoCheckpoint)
      BY NewIsJudged DEF NoCheckpoint
    <3>2. n \in Checkpoints /\ Judged(n) /\ Gated(n) /\ Rested(n)
      BY <3>1, OffMainIs
    <3> HIDE DEF n
    <3>3. ck' = n
      BY <2>7 DEF n
    <3>4. Judged(ck)' /\ Gated(ck)' /\ Rested(ck)'
      BY <3>2, <3>3 DEF Judged, Gated, Rested
    <3>5. Placed'
      BY <2>4 DEF Placed
    <3>6. budget' = MaxInterruptions => Marked'
      BY <1>2, <2>1, <2>4 DEF Marked
    <3> QED
      BY <2>5, <3>2, <3>3, <3>4, <3>5, <3>6 DEF FactoryInv, Uninterrupted
  <2> QED
    BY <2>4, <2>6, <2>7
<1>8. CASE RespecEnds
  <2> DEFINE i == [item EXCEPT !.status = "blocked", !.terminal = TRUE,
                               !.recoveries = IF err = "factory" THEN 0 ELSE @]
  <2>1. /\ item' = i /\ ck' = OffMain(ck) /\ dirty' = FALSE /\ RepairOrHardStuck
        /\ UNCHANGED <<q, err, wt, raises, retry>>
    BY <1>8 DEF RespecEnds
  <2>2. i \in Items /\ i.revisions = item.revisions /\ i.redesigns = item.redesigns
    <3>1. (IF err = "factory" THEN 0 ELSE item.recoveries) \in 0 .. MaxRecoveries
          /\ "blocked" \in Statuses
      BY <1>5, AutopilotAssumption DEF Statuses
    <3> QED
      BY <1>5, <3>1 DEF Items
  <2> HIDE DEF i
  <2>3. pc' = "down" /\ stuck' \in BOOLEAN /\ budget' \in 0 .. MaxInterruptions
        /\ (budget' = MaxInterruptions => Uninterrupted)
    BY <1>2, <1>4, <2>1 DEF RepairOrHardStuck, Kinds, Uninterrupted
  <2>4. Kinds' /\ Respecified'
    BY <1>2, <2>1, <2>2, <2>3 DEF Kinds, Respecified, Places
  <2> QED
    BY <1>3, <2>1, <2>3, <2>4
<1>9. CASE Respecify
  <2> DEFINE i == [item EXCEPT !.status = "ready", !.packet = FALSE, !.recoveries = 0,
                               !.revisions = @ + 1,
                               !.redesigns = IF ValueFailure THEN @ + 1 ELSE @]
  <2>1. /\ (CommitLedger(i, ck, "decide") /\ UNCHANGED budget) \/ SaveLedgerOnly(i, ck)
        /\ q' = "absent" /\ err' = "none" /\ UNCHANGED <<wt, raises, retry, stuck>> /\ ~Ceiling
    BY <1>9 DEF Respecify
  <2>2. i \in Items /\ i.revisions <= MaxRespecs + i.redesigns
    <3> DEFINE n == IF ValueFailure THEN item.redesigns + 1 ELSE item.redesigns
    <3>1. n \in 0 .. MaxRedesigns /\ item.revisions + 1 <= MaxRespecs + n
      BY <1>5, <2>1, AutopilotAssumption DEF Ceiling
    <3>2. /\ "ready" \in Statuses /\ 0 \in 0 .. MaxRecoveries
          /\ item.revisions + 1 \in Nat
      BY <1>5, AutopilotAssumption DEF Statuses
    <3> HIDE DEF n
    <3>3. i = [item EXCEPT !.status = "ready", !.packet = FALSE, !.recoveries = 0,
                           !.revisions = item.revisions + 1, !.redesigns = n]
      BY <1>5 DEF n, Items
    <3> QED
      BY <1>5, <3>1, <3>2, <3>3 DEF Items
  <2> HIDE DEF i
  <2>3. /\ item' = i /\ dirty' \in BOOLEAN /\ pc' \in {"decide", "down"}
        /\ ck' \in {ck, OffMain(ck)} /\ budget' \in 0 .. MaxInterruptions
        /\ budget' = MaxInterruptions => Uninterrupted
    BY <1>2, <2>1, LedgerSaved
  <2>4. Kinds' /\ Respecified'
    BY <1>2, <2>1, <2>2, <2>3 DEF Kinds, Respecified, Places, QueueStates, Errors
  <2> QED
    BY <1>3, <2>1, <2>3, <2>4
<1>10. CASE Claim
  <2>1. q' = "running" /\ pc' = "load"
        /\ UNCHANGED <<err, ck, wt, raises, dirty, budget, item, retry, stuck>>
    BY <1>10 DEF Claim
  <2>2. Kinds' /\ Respecified'
    BY <1>2, <2>1 DEF Kinds, Respecified, Places, QueueStates
  <2> QED
    BY <1>3, <2>1, <2>2 DEF Uninterrupted
<1>11. CASE Plan
  <2> DEFINE i == [item EXCEPT !.packet = TRUE, !.status = "packet_approved"]
  <2>1. CommitLedger(i, ck, "decide") /\ UNCHANGED <<q, err, wt, raises, budget, retry, stuck>>
    BY <1>11 DEF Plan
  <2>2. i \in Items /\ i.revisions = item.revisions /\ i.redesigns = item.redesigns
    BY <1>5 DEF Items, Statuses
  <2> HIDE DEF i
  <2>3. /\ item' = i /\ dirty' \in BOOLEAN /\ pc' \in {"decide", "down"}
        /\ ck' \in {ck, OffMain(ck)} /\ budget' \in 0 .. MaxInterruptions
        /\ budget' = MaxInterruptions => Uninterrupted
    BY <1>2, <2>1, LedgerSaved
  <2>4. Kinds' /\ Respecified'
    BY <1>2, <2>1, <2>2, <2>3 DEF Kinds, Respecified, Places
  <2> QED
    BY <1>3, <2>1, <2>3, <2>4
<1>12. CASE PlanRefused \/ Wait \/ PlanFails \/ TerminalBlocker
  <2>1. /\ pc' \in {"sync", "down"} /\ UNCHANGED <<q, err, ck, wt, raises, dirty, item, retry>>
        /\ stuck' \in BOOLEAN /\ (UNCHANGED budget \/ Interrupt)
    BY <1>2, <1>12 DEF PlanRefused, Wait, PlanFails, TerminalBlocker, RepairOrHardStuck, Kinds
  <2>2. budget' \in 0 .. MaxInterruptions /\ (budget' = MaxInterruptions => Uninterrupted)
    BY <1>2, <1>4, <2>1 DEF Kinds, Uninterrupted
  <2>3. Kinds' /\ Respecified'
    BY <1>2, <2>1, <2>2 DEF Kinds, Respecified, Places
  <2> QED
    BY <1>3, <2>1, <2>2, <2>3
<1>13. CASE Enqueue
  <2> DEFINE i == [item EXCEPT !.status = "queued"]
  <2>1. /\ q' = "pending" /\ UNCHANGED <<err, wt, raises, retry, stuck>>
        /\ \/ (CommitLedger(i, ck, "sync") /\ UNCHANGED budget) \/ SaveLedgerOnly(i, ck)
           \/ Interrupt /\ pc' = "down" /\ UNCHANGED <<item, ck, dirty>>
    BY <1>13 DEF Enqueue
  <2>2. i \in Items /\ i.revisions = item.revisions /\ i.redesigns = item.redesigns
    BY <1>5 DEF Items, Statuses
  <2> HIDE DEF i
  <2>3. /\ (item' = i \/ item' = item) /\ dirty' \in BOOLEAN /\ pc' \in {"sync", "down"}
        /\ ck' \in {ck, OffMain(ck)} /\ budget' \in 0 .. MaxInterruptions
        /\ budget' = MaxInterruptions => Uninterrupted
    <3>1. CASE (CommitLedger(i, ck, "sync") /\ UNCHANGED budget) \/ SaveLedgerOnly(i, ck)
      BY <1>2, <3>1, LedgerSaved
    <3>2. CASE Interrupt /\ pc' = "down" /\ UNCHANGED <<item, ck, dirty>>
      BY <1>2, <1>4, <3>2 DEF Kinds
    <3> QED
      BY <2>1, <3>1, <3>2
  <2>4. Kinds' /\ Respecified'
    BY <1>2, <1>5, <2>1, <2>2, <2>3 DEF Kinds, Respecified, Places, QueueStates
  <2> QED
    BY <1>3, <2>1, <2>3, <2>4
<1> QED
  BY <1>6, <1>7, <1>8, <1>9, <1>10, <1>11, <1>12, <1>13

(* An old candidate is replayed onto the repaired main, or conflicts       *)
(* (recover_task_after_verified_repair, transplant_candidate_onto).        *)
LEMMA RecoverKeeps ==
  ASSUME FactoryInv, Recover \/ RecoverConflicts PROVE FactoryInv'
<1>1. Kinds /\ Respecified /\ ck \in Checkpoints /\ Judged(ck) /\ (Uninterrupted => Marked)
  BY DEF FactoryInv
<1>2. pc = "decide" /\ retry
  BY DEF Recover, RecoverConflicts
<1>3. CASE Recover
  <2>1. PICK stop \in 1..5 :
         /\ stop < 5 => Interrupt
         /\ stop = 5 => UNCHANGED budget
         /\ item' = [item EXCEPT !.terminal = FALSE, !.recoveries = 0,
                                 !.status = IF item.packet THEN "queued" ELSE "ready"]
         /\ dirty' = (stop = 1)
         /\ ck' = CASE stop = 1 -> ck [] stop = 2 -> OffMain(ck) [] stop = 3 -> NoCheckpoint
                    [] stop >= 4 -> IF ck.state = "none" THEN NewCheckpoint("RUNNING") ELSE Transplanted
         /\ q' = IF stop < 4 THEN q ELSE IF item.packet /\ stop = 5 THEN "pending" ELSE "absent"
         /\ retry' = (stop < 5)
         /\ pc' = IF stop = 5 THEN "sync" ELSE "down"
    BY <1>3 DEF Recover
  <2>2. UNCHANGED <<raises, stuck>> /\ wt' \in Worktrees /\ err' \in Errors
    BY <1>1, <1>3 DEF Recover, Kinds, Worktrees, Errors
  <2>3. budget' \in 0 .. MaxInterruptions
        /\ (budget' = MaxInterruptions => Uninterrupted /\ stop = 5)
    BY <1>1, <2>1, Interrupted DEF Kinds, Uninterrupted
  <2>4. Kinds'
    <3>1. pc' \in Places /\ dirty' \in BOOLEAN /\ retry' \in BOOLEAN
      BY <2>1 DEF Places
    <3>2. q' \in QueueStates
      BY <1>1, <2>1 DEF Kinds, QueueStates
    <3> QED
      BY <1>1, <2>2, <2>3, <3>1, <3>2 DEF Kinds
  <2>5. Respecified'
    <3> DEFINE i == [item EXCEPT !.terminal = FALSE, !.recoveries = 0,
                                 !.status = IF item.packet THEN "queued" ELSE "ready"]
    <3>1. i \in Items /\ i.revisions = item.revisions /\ i.redesigns = item.redesigns
      <4>1. 0 \in 0 .. MaxRecoveries
        BY AutopilotAssumption
      <4>2. (IF item.packet THEN "queued" ELSE "ready") \in Statuses
        BY DEF Statuses
      <4> QED
        BY <1>1, <4>1, <4>2 DEF Respecified, Items
    <3>2. item' = i
      BY <2>1
    <3> HIDE DEF i
    <3> QED
      BY <1>1, <3>1, <3>2 DEF Respecified
  <2> DEFINE n == IF ck.state = "none" THEN NewCheckpoint("RUNNING") ELSE Transplanted
  <2>6. /\ n \in Checkpoints /\ Judged(n) /\ Rested(n) /\ n.active = 0
        /\ Uninterrupted => Gated(n)
    <3> DEFINE new == NewCheckpoint("RUNNING")
               t == [new EXCEPT !.work = ck.work, !.gated = ck.gated,
                                !.reviewed = ck.reviewed, !.stage = ck.stage]
    <3>1. /\ new \in Checkpoints /\ Judged(new) /\ Gated(new) /\ Rested(new)
          /\ new.state = "RUNNING" /\ new.stage = Owner /\ new.active = 0
      BY NewIsJudged
    <3>2. Transplanted = t
      BY DEF Transplanted
    <3> HIDE DEF new
    <3>3. /\ t \in Checkpoints /\ t.state = "RUNNING" /\ t.active = 0 /\ t.stage = ck.stage
          /\ t.gated = ck.gated /\ t.reviewed = ck.reviewed /\ t.ownerFailures = new.ownerFailures
      BY <1>1, <3>1 DEF Checkpoints
    <3> HIDE DEF t
    <3>4. Judged(t) /\ Rested(t)
      BY <1>1, <3>1, <3>3 DEF Judged, Rested, Live, Adversary
    <3>5. Uninterrupted => Gated(t)
      BY <1>1, <1>2, <3>3 DEF Marked, Gated, Owner, Adversary, Release
    <3> QED
      BY <3>1, <3>2, <3>3, <3>4, <3>5 DEF new
  <2> HIDE DEF n
  <2>7. ck' \in Checkpoints /\ Judged(ck')
    <3>1. ck' \in {ck, OffMain(ck), NoCheckpoint, n}
      <4>1. CASE stop = 1
        BY <2>1, <4>1
      <4>2. CASE stop = 2
        BY <2>1, <4>2
      <4>3. CASE stop = 3
        BY <2>1, <4>3
      <4>4. CASE stop \in {4, 5}
        BY <2>1, <4>4 DEF n
      <4> QED
        BY <4>1, <4>2, <4>3, <4>4
    <3>2. NoCheckpoint \in Checkpoints /\ Judged(NoCheckpoint)
      BY NewIsJudged DEF NoCheckpoint
    <3> QED
      BY <1>1, <2>6, <3>1, <3>2, OffMainIs
  <2>8. stop = 5 => ck' = n /\ ~retry'
    <3>1. CASE stop = 5
      <4>1. ~retry'
        <5>1. ~(stop < 5)
          BY <3>1
        <5>2. retry' = (stop < 5)
          BY <2>1, Zenon
        <5> QED
          BY <5>1, <5>2, Zenon
      <4>2. ck' = n
        BY <2>1, <3>1 DEF n
      <4> QED
        BY <4>1, <4>2
    <3> QED
      BY <3>1
  <2>9. Placed'
    BY <2>1 DEF Placed
  <2>10. budget' = MaxInterruptions => Gated(ck)' /\ Rested(ck)' /\ Marked'
    BY <2>3, <2>6, <2>8 DEF Gated, Rested, Marked
  <2>11. Judged(ck)'
    BY <2>7 DEF Judged
  <2> QED
    BY <2>4, <2>5, <2>7, <2>9, <2>10, <2>11 DEF FactoryInv, Uninterrupted
<1>4. CASE RecoverConflicts
  <2> DEFINE i == [item EXCEPT !.terminal = FALSE, !.recoveries = 0, !.status = "queued"]
  <2>1. /\ item' = i /\ ck' = OffMain(ck) /\ dirty' = FALSE /\ Interrupt /\ pc' = "down"
        /\ stuck' = TRUE /\ UNCHANGED <<q, err, wt, raises, retry>>
    BY <1>4 DEF RecoverConflicts
  <2>2. i \in Items /\ i.revisions = item.revisions /\ i.redesigns = item.redesigns
    <3>1. 0 \in 0 .. MaxRecoveries /\ "queued" \in Statuses
      BY AutopilotAssumption DEF Statuses
    <3> QED
      BY <1>1, <3>1 DEF Respecified, Items
  <2> HIDE DEF i
  <2>3. budget' \in 0 .. MaxInterruptions /\ budget' # MaxInterruptions
    BY <1>1, <2>1, Interrupted
  <2>4. Kinds' /\ Respecified'
    BY <1>1, <2>1, <2>2, <2>3 DEF Kinds, Respecified, Places
  <2>5. pc' \in Places \ {"stage", "session", "release"}
    BY <2>1 DEF Places
  <2> QED
    BY <1>2, <2>1, <2>3, <2>4, <2>5, LoopKeeps
<1> QED
  BY <1>3, <1>4

(* A killed pipeline leaves its files, and the interruption is counted. *)
LEMMA DiesKeeps ==
  ASSUME FactoryInv, Dies, UNCHANGED <<item, retry, stuck>> PROVE FactoryInv'
<1>1. Kinds /\ Respecified /\ ck \in Checkpoints /\ Judged(ck)
  BY DEF FactoryInv
<1>2. /\ pc' = "down" /\ UNCHANGED <<q, err, ck, wt, raises, dirty>>
      /\ budget' \in 0 .. MaxInterruptions /\ budget' # MaxInterruptions
  BY <1>1, Interrupted DEF Dies
<1>3. Kinds' /\ Respecified'
  BY <1>1, <1>2 DEF Kinds, Respecified, Places
<1>4. Judged(ck)' /\ (ck \in Checkpoints)'
  BY <1>1, <1>2 DEF Judged
<1>5. Placed'
  BY <1>2 DEF Placed
<1> QED
  BY <1>2, <1>3, <1>4, <1>5 DEF FactoryInv, Uninterrupted

-----------------------------------------------------------------------------
(* A fresh task, or the failed run of a terminal one with its marker. *)
LEMMA FactoryStarts ==
  ASSUME AutopilotInit PROVE FactoryInv
<1>1. /\ pc = "down" /\ wt = "none" /\ raises = 0 /\ dirty = FALSE /\ budget = MaxInterruptions
      /\ stuck = FALSE
  BY DEF AutopilotInit
<1>2. FreshItem \in Items /\ FreshItem.revisions = 0 /\ FreshItem.redesigns = 0
  BY AutopilotAssumption DEF FreshItem, Items, Statuses
<1>3. /\ budget \in 0 .. MaxInterruptions /\ 0 \in 0 .. MaxTurnRaises
      /\ 0 <= MaxRespecs + 0
  BY <1>1, PipelineAssumption, AutopilotAssumption
<1>4. CASE q = "absent" /\ err = "none" /\ ck = NoCheckpoint /\ item = FreshItem /\ retry = FALSE
  <2>1. ck \in Checkpoints /\ Judged(ck) /\ Gated(ck) /\ Rested(ck)
    BY <1>4, NewIsJudged DEF NoCheckpoint
  <2>2. Kinds /\ Respecified
    BY <1>1, <1>2, <1>4, <1>3 DEF Kinds, Respecified, Places, QueueStates, Errors, Worktrees
  <2> QED
    BY <1>1, <1>4, <2>1, <2>2 DEF FactoryInv, Placed, Marked
<1>5. CASE /\ q = "failed" /\ ck \in FailedRuns
           /\ err = (IF ck.stage = Release THEN "value" ELSE "factory")
           /\ item = TerminalItem /\ retry = TRUE
  <2>1. PICK s \in {Owner, Adversary, Release} :
           ck = [NewCheckpoint("FAILED") EXCEPT !.onMain = FALSE, !.work = TRUE, !.gated = (s # Owner),
                                                !.reviewed = (s = Release), !.stage = s, !.results = TRUE]
    BY <1>5 DEF FailedRuns
  <2> DEFINE new == NewCheckpoint("FAILED")
  <2>2. new \in Checkpoints /\ new.state = "FAILED" /\ new.active = 0
    BY NewIsJudged
  <2> HIDE DEF new
  <2>3. ck = [new EXCEPT !.onMain = FALSE, !.work = TRUE, !.gated = (s # Owner),
                         !.reviewed = (s = Release), !.stage = s, !.results = TRUE]
    BY <2>1 DEF new
  <2> DEFINE g == s # Owner
             v == s = Release
  <2>4. /\ ck \in Checkpoints /\ ck.state = "FAILED" /\ ck.active = 0 /\ ck.stage = s
        /\ ck.gated = g /\ ck.reviewed = v
    <3>1. g \in BOOLEAN /\ v \in BOOLEAN /\ s \in {Owner, Adversary, Release}
      BY <2>1
    <3>2. ck = [new EXCEPT !.onMain = FALSE, !.work = TRUE, !.gated = g,
                           !.reviewed = v, !.stage = s, !.results = TRUE]
      BY <2>3
    <3> HIDE DEF g, v
    <3>3. ck \in Checkpoints
      <4> DEFINE w == [new EXCEPT !.onMain = FALSE, !.work = TRUE, !.results = TRUE]
      <4>1. w \in Checkpoints
        BY <2>2 DEF Checkpoints
      <4>2. ck = [w EXCEPT !.gated = g, !.reviewed = v, !.stage = s]
        BY <2>2, <3>2 DEF Checkpoints
      <4> HIDE DEF w
      <4> QED
        BY <3>1, <4>1, <4>2 DEF Checkpoints
    <3>4. ck.state = "FAILED" /\ ck.active = 0 /\ ck.stage = s
      BY <2>2, <3>2 DEF Checkpoints
    <3>5. ck.gated = g /\ ck.reviewed = v
      BY <2>2, <3>2 DEF Checkpoints
    <3> QED
      BY <3>3, <3>4, <3>5
  <2>5. Judged(ck) /\ Gated(ck) /\ Rested(ck)
    <3>1. s = Release => g /\ v
      BY DEF Owner, Release
    <3> HIDE DEF g, v
    <3> QED
      BY <2>4, <3>1 DEF Judged, Gated, Rested, Live, Owner, Adversary, Release
  <2>6. item \in Items /\ item.revisions = 0 /\ item.redesigns = 0 /\ item.terminal
        /\ item.status = "blocked"
    BY <1>2, <1>5 DEF TerminalItem, Items, Statuses
  <2>7. Kinds /\ Respecified
    <3>1. q \in QueueStates /\ err \in Errors /\ retry \in BOOLEAN
      BY <1>5 DEF QueueStates, Errors
    <3> QED
      BY <1>1, <1>3, <2>6, <3>1 DEF Kinds, Respecified, Places, Worktrees
  <2>8. Marked
    BY <1>1, <2>4, <2>6 DEF Marked
  <2> QED
    BY <1>1, <2>4, <2>5, <2>7, <2>8 DEF FactoryInv, Placed
<1> QED
  BY <1>4, <1>5 DEF AutopilotInit

(* The whole. *)
LEMMA FactoryKeeps ==
  ASSUME FactoryInv, [AutopilotNext]_vars PROVE FactoryInv'
<1>1. CASE AutopilotNext
  BY <1>1, HeadKeeps, BranchKeeps, RecoverKeeps, LoadKeeps, SessionBegins, SessionStopsKeeps,
     OwnerKeeps, AdversaryKeeps, ReleaseKeeps, DiesKeeps
  DEF AutopilotNext, Branch, PipelineNext
<1>2. CASE UNCHANGED vars
  <2>1. UNCHANGED <<pc, q, err, ck, wt, raises, dirty, budget, item, retry, stuck>>
    BY <1>2 DEF vars, pipeVars
  <2>2. Kinds' /\ Respecified' /\ Placed' /\ (Marked => Marked')
    BY <2>1 DEF FactoryInv, Kinds, Respecified, Placed, Marked
  <2>3. (ck \in Checkpoints)' /\ Judged(ck)' /\ (Gated(ck) => Gated(ck)') /\ (Rested(ck) => Rested(ck)')
    BY <2>1 DEF FactoryInv, Judged, Gated, Rested
  <2> QED
    BY <2>1, <2>2, <2>3 DEF FactoryInv, Uninterrupted
<1> QED
  BY <1>1, <1>2

(* run_pipeline releases only what the adversary passed as it is, and what *)
(* its machine gates have seen unless the run was interrupted.             *)
THEOREM ReviewedReleased == AutopilotSpec => []ReviewedIsReleased
<1>1. AutopilotInit => FactoryInv
  BY FactoryStarts
<1>2. FactoryInv /\ [AutopilotNext]_vars => FactoryInv'
  BY FactoryKeeps
<1>3. FactoryInv => ReviewedIsReleased
  BY FactoryIsSafe
<1> QED
  BY <1>1, <1>2, <1>3, PTL DEF AutopilotSpec

=============================================================================
