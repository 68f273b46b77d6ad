------------------------------ MODULE Deployment ------------------------------
(*****************************************************************************)
(* The bundle, the installer and the refresh of what it installed.  They     *)
(* share the machine: a handoff comes from the controller, which is left     *)
(* stopped until a receipt for an attested installation releases it, and an  *)
(* attested installation is never rolled back.                               *)
(*****************************************************************************)
EXTENDS Installer, RuntimeRefresh

deploymentVars == <<bundleVars, installVars, refreshVars>>

Init == BundleInit /\ InstallInit /\ RefreshInit

Next ==
    \/ BundleNext /\ UNCHANGED <<installVars, refreshVars>>
    \/ InstallNext /\ UNCHANGED <<bundleVars, refreshVars>>
    \/ attested /\ RefreshNext /\ UNCHANGED <<bundleVars, installVars>>

Spec == Init /\ [][Next]_deploymentVars

=============================================================================
