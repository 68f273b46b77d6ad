-------------------------------- MODULE Bundle --------------------------------
(*****************************************************************************)
(* The inert deployment bundle: assemble_bundle validates the artifacts an   *)
(* operator supplies, pins their digests and copies them, and the installer  *)
(* reads the copies.  An artifact is identified by the build it was made in; *)
(* it may be replaced between any two of these reads.                        *)
(*****************************************************************************)
EXTENDS Naturals

CONSTANT MaxEdits            \* artifacts replaced while the bundle is assembled

ASSUME BundleAssumption == MaxEdits \in Nat

\* Groups of artifact roles: the repository snapshot; the Python runtime with its wheels,
\* package manifest, configuration and lock; the controller's runtime manifest, unit and
\* environment; the anchor policies and keys; the read-only observers' policies and keys;
\* the machine-policy profiles and oracles; the canary policies and mechanisms; the
\* policy of the runtime refresh.
Roles == {"snapshot", "runtime", "controller", "anchor", "observer", "machine", "canary",
          "refresh"}
Builds == 1 .. 2

VARIABLES
    art,      \* the supplied artifacts
    pin,      \* the digests in the installer manifest
    payload,  \* the copies beside it
    bstep,    \* how far assemble_bundle is
    edits

bundleVars == <<art, pin, payload, bstep, edits>>

Unmade == [r \in Roles |-> 0]

BundleInit ==
    /\ art \in {[r \in Roles |-> IF r \in late THEN 2 ELSE 1] : late \in {{}, {"runtime"}}}
    /\ pin = Unmade /\ payload = Unmade /\ bstep = "validate" /\ edits = 0

\* What the validators compare: digests and identities one group holds of another.
PythonRuntimeBinds(b) == b["runtime"] = b["snapshot"]
ControllerRuntimeBinds(b) == b["controller"] = b["snapshot"] /\ b["controller"] = b["runtime"]
AnchorProducerBinds(b) == b["anchor"] = b["snapshot"]
ObserverPoliciesBind(b) == b["observer"] = b["anchor"]
MachinePolicyBinds(b) == b["machine"] = b["snapshot"]
CanaryPolicyBinds(b) == b["canary"] = b["snapshot"]
DeploymentRefreshBinds(b) == b["refresh"] = b["runtime"]

EditArtifact ==
    /\ bstep # "staged" /\ edits < MaxEdits
    /\ \E r \in Roles : art' = [art EXCEPT ![r] = 3 - @]
    /\ edits' = edits + 1
    /\ UNCHANGED <<pin, payload, bstep>>

\* All the validators of assemble_bundle.
ValidateSources ==
    /\ bstep = "validate"
    /\ PythonRuntimeBinds(art) /\ ControllerRuntimeBinds(art) /\ AnchorProducerBinds(art)
    /\ ObserverPoliciesBind(art) /\ MachinePolicyBinds(art) /\ CanaryPolicyBinds(art)
    /\ DeploymentRefreshBinds(art)
    /\ bstep' = "pin"
    /\ UNCHANGED <<art, pin, payload, edits>>

\* The digests are taken, and then the files are copied and the directory renamed.
PinSources ==
    /\ bstep = "pin"
    /\ pin' = art /\ bstep' = "copy"
    /\ UNCHANGED <<art, payload, edits>>

StageBundle ==
    /\ bstep = "copy"
    /\ payload' = art /\ bstep' = "staged"
    /\ UNCHANGED <<art, pin, edits>>

BundleNext == EditArtifact \/ ValidateSources \/ PinSources \/ StageBundle

\* _preflight_sources: the copies have the pinned digests, and the bindings of the
\* snapshot and of the anchor policies are compared again.
PreflightSources ==
    /\ bstep = "staged" /\ payload = pin
    /\ PythonRuntimeBinds(payload) /\ AnchorProducerBinds(payload)

\* The groups the installer compares again before or after it installs them; the others
\* are only compared when the bundle is assembled, and not with the bytes that are pinned.
Revalidated == {"snapshot", "runtime", "anchor", "controller"}
-----------------------------------------------------------------------------
\* Type invariant of the bundle.
BundleTypeOK ==
    /\ art \in [Roles -> Builds]
    /\ pin \in [Roles -> {0} \cup Builds] /\ payload \in [Roles -> {0} \cup Builds]
    /\ bstep \in {"validate", "pin", "copy", "staged"} /\ edits \in 0 .. MaxEdits
=============================================================================
