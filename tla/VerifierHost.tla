---------------------------- MODULE VerifierHost ----------------------------
(***************************************************************************)
(* The services of the verifier's host: the receipts and activations of    *)
(* VerifierServices, the ruleset observation of Ruleset and the path of a  *)
(* published main to the anchor, Anchor.  A selection of main and a        *)
(* request to the updater read current.json of the ruleset, and both       *)
(* modules let them find it recent or not, so no variable of one module is *)
(* read by another: a behaviour follows one of them and the others rest.   *)
(***************************************************************************)
EXTENDS VerifierServices, Ruleset, Anchor

VARIABLE focus   \* the services followed: "receipts", "ruleset" or "anchor"

hostVars == <<focus, serviceVars, rulesetVars, vars>>

HostInit ==
  /\ focus \in {"receipts", "ruleset", "anchor"}
  /\ ServicesInit /\ RulesetInit /\ Init

Receipting(step) == focus = "receipts" /\ step /\ UNCHANGED <<focus, rulesetVars, vars>>

Observing(step) == focus = "ruleset" /\ step /\ UNCHANGED <<focus, serviceVars, vars>>

Anchoring(step) == focus = "anchor" /\ step /\ UNCHANGED <<focus, serviceVars, rulesetVars>>

HostNext == Receipting(ServicesNext) \/ Observing(RulesetNext) \/ Anchoring(Next)

(* systemd starts a service whose directory changed, the observer by a     *)
(* timer, and a started service ends; nothing restarts one that failed.    *)
HostFairness ==
  /\ WF_hostVars(Receipting(IssueReceipts /\ UNCHANGED activationVars))
  /\ WF_hostVars(Observing(ObserveRuleset))
  /\ WF_hostVars(Observing(BrokerPromotes(FALSE)))
  /\ WF_hostVars(Anchoring(stage_jobs)) /\ WF_hostVars(Anchoring(produce))
  /\ WF_hostVars(Anchoring(promote)) /\ WF_hostVars(Anchoring(Update))

HostSpec == HostInit /\ [][HostNext]_hostVars /\ HostFairness

-----------------------------------------------------------------------------
(* Time and again the newest observation is current or has expired: a      *)
(* broker that dies is made good at the next observation.  The exception   *)
(* is an observation that expired before the broker saw it; the broker     *)
(* ends every later pass at that file (promote_ruleset_outbox_item).       *)
RulesetIsRefreshed ==
  []<>(\/ focus # "ruleset"
       \/ ruleset = observed \/ outdated = observed
       \/ \E o \in 1 .. outdated : o \notin history /\ o > ruleset)
=============================================================================
