-------------------------- MODULE VerifierServices --------------------------
(***************************************************************************)
(* The verifier's receipts together: the machine-policy receipts of module *)
(* Receipts, and here the activation receipts that rest on them:           *)
(* activation_request_broker.py, observed_main_selector.py,                *)
(* activation_selector_broker.py, activation_issuer_service.py and         *)
(* receipt_broker.py.  One main is modelled; whether GitHub still shows it *)
(* under a recent ruleset observation is a choice of each selection.       *)
(*                                                                         *)
(* An activation request is identified by the policy receipt it rests on.  *)
(***************************************************************************)
EXTENDS Receipts

CONSTANT MaxActivations     \* bound: activation receipts the issuer writes

ASSUME ServicesAssumption == MaxActivations \in Nat

VARIABLES
  staged,     \* policy receipts with an activation request in the outbox
  selected,   \* those whose observation of main the selector has signed
  acts,       \* the policy receipt of each activation, in order of issue
  actDead,    \* activations that are expired or revoked
  actPublic,  \* activations in the public directory
  activation  \* the activation current.json names, 0 for none

activationVars == <<staged, selected, acts, actDead, actPublic, activation>>
serviceVars == <<receiptVars, activationVars>>

Acts == 1 .. Len(acts)

(* verify_activation_authority: neither the activation nor the policy      *)
(* receipt it rests on is expired or revoked, and the latter is public.    *)
Usable(a) == a \in Acts /\ a \notin actDead /\ Live(acts[a]) /\ acts[a] \in public

ServicesInit ==
  /\ ReceiptsInit
  /\ staged = {} /\ selected = {}
  /\ acts = << >> /\ actDead = {} /\ actPublic = {} /\ activation = 0

-----------------------------------------------------------------------------
(* stage_activation_request for the current policy receipt.  A death       *)
(* before the request is linked is made good by the next attempt.          *)
StageActivation ==
  /\ Live(current) /\ current \notin staged
  /\ staged' = staged \cup {current}
  /\ wake' = wake \cup {"selector"}
  /\ UNCHANGED <<submission, issuing, dead, public, current, checking,
                 faults, selected, acts, actDead, actPublic,
                 activation>>

(* What the request broker has copied for the selector; it tolerates what  *)
(* it rejects and a death leaves the rest for the next change.             *)
Relayed == SUBSET (staged \ selected)

(* _select: GitHub shows the requested main with the required checks, and  *)
(* the ruleset observation has not expired.                                *)
SelectMain ==
  /\ "selector" \in wake
  /\ \E observedMain \in Relayed :
       selected' = selected \cup observedMain
  /\ wake' = (wake \ {"selector"})
               \cup (IF selected' # selected THEN {"activator"} ELSE {})
  /\ UNCHANGED <<submission, issuing, dead, public, current, checking,
                 faults, staged, acts, actDead, actPublic,
                 activation>>

(* What the selector broker has forwarded and the issuer finds within the  *)
(* fifteen minutes of its observation.                                     *)
Forwarded == SUBSET selected

ActivationNonce(k) == [activation |-> k]

(* issue_activation: the policy receipt still has authority.               *)
MayActivate(k) ==
  Live(k) /\ ActivationNonce(k) \notin nonces /\ "torn" \notin ledger

(* The nonce is consumed in the ledger the policy issuer uses too, before  *)
(* the receipt is signed and written.                                      *)
IssueActivations ==
  /\ "activator" \in wake
  /\ \E fresh \in Forwarded :
     \E all \in SetToSeqs({k \in fresh : MayActivate(k)}) :
       LET ks == SubSeq(all, 1, Min({Len(all), MaxActivations - Len(acts)}))
           used(n) == {ActivationNonce(ks[i]) : i \in 1 .. n}
       IN \/ /\ acts' = acts \o ks
             /\ Consume(used(Len(ks)), 0, "done")
             /\ NoFault
          \/ \E n \in 1 .. Len(ks), how \in {"wiped", "torn", "burnt"} :
               /\ acts' = acts \o SubSeq(ks, 1, n - 1)
               /\ Consume(used(n - 1), ActivationNonce(ks[n]), how)
               /\ Fault
  /\ wake' = (wake \ {"activator"})
               \cup (IF acts' # acts THEN {"promoter", "activations"} ELSE {})
  /\ UNCHANGED <<submission, issued, dead, public, current, checking,
                 staged, selected, actDead, actPublic, activation>>

-----------------------------------------------------------------------------
(* promote: an activation not yet public must have authority now. *)
PromotableActs == {a \in Acts : a \notin actPublic => Usable(a)}

(* _select_current_activation: the newest wins; what is already public is  *)
(* not verified again.                                                     *)
PromoteActivations ==
  /\ "activations" \in wake
  /\ \E as \in SetToSeqs(PromotableActs) : \E n \in 0 .. Len(as) :
       LET seen == SubSeq(as, 1, n) IN
       /\ activation' = Max({activation} \cup ToSet(seen))
       /\ \/ n = Len(as) /\ NoFault /\ actPublic' = actPublic \cup ToSet(seen)
          \/ /\ n < Len(as) /\ Fault
             /\ actPublic' = actPublic \cup ToSet(seen) \cup {as[n + 1]}
  /\ wake' = wake \ {"activations"}
  /\ UNCHANGED <<submission, issuing, dead, public, current, checking,
                 staged, selected, acts, actDead>>

ExpireActivation(a) ==
  /\ a \in Acts \ actDead
  /\ actDead' = actDead \cup {a}
  /\ UNCHANGED <<receiptVars, staged, selected, acts, actPublic,
                 activation>>

-----------------------------------------------------------------------------
Policy == ReceiptsNext /\ UNCHANGED activationVars

Activating ==
  \/ StageActivation \/ SelectMain \/ IssueActivations \/ PromoteActivations
  \/ \E a \in 1 .. MaxActivations : ExpireActivation(a)

ServicesNext == Policy \/ Activating

-----------------------------------------------------------------------------
(* The published selection of activations moves to newer ones only, and a  *)
(* newly published one has authority, its policy receipt included; only an *)
(* activation a dead broker left public is selected without a second look. *)
ActivationMovesForward ==
  [][activation' # activation =>
       /\ activation' > activation
       /\ activation' \in actPublic \/ Usable(activation')]_serviceVars

(* Neither published selection moves back, and neither to a receipt        *)
(* without authority (_select_current_machine, _select_current_activation).*)
SelectionsMoveForward == CurrentMovesForward /\ ActivationMovesForward

(* One nonce, one receipt, although the two issuers share the ledger and   *)
(* see every request again at each pass; only a death inside the rewrite   *)
(* of the ledger, which empties it, lets a request be answered twice.      *)
NonceIsUsedOnce ==
  "wiped" \notin ledger =>
    /\ \A k, l \in Issued : issued[k] = issued[l] => k = l
    /\ \A a, b \in Acts : acts[a] = acts[b] => a = b

=============================================================================
