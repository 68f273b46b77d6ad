------------------------------ MODULE Receipts ------------------------------
(***************************************************************************)
(* Machine-policy receipts, from the controller's request to the check on  *)
(* GitHub: verifier_submission.py, request_broker.py, issuer_service.py,   *)
(* evaluator.py, receipt_broker.py and check_publisher.py.  Each service   *)
(* is started by a change of the directory it watches, runs over all the   *)
(* files there and tolerates the ones it rejects.                          *)
(*                                                                         *)
(* A request is identified by the canary suite it presents and by the      *)
(* receipt it renews (0 for the first).  Receipts are numbered in the      *)
(* order of their issued_at.  Signatures and digests are taken to hold.    *)
(***************************************************************************)
EXTENDS Integers, Sequences, FiniteSets, FiniteSetsExt, SequencesExt

CONSTANTS
  MaxIssues,    \* bound: receipts the issuer writes
  MaxSuites,    \* bound: canary suites the supervisor presents
  MaxChecked,   \* bound: receipts the check worker takes up
  MaxFaults,    \* bound: deaths, lost answers and unavailable networks
  SuiteGrades   \* what is wrong with the evidence of each suite; see Grade

Grade == {"sound", "generation", "binding", "gate", "artifact", "oracle",
              "claim"}

ASSUME ReceiptsAssumption ==
  /\ MaxIssues \in Nat /\ MaxSuites \in Nat
  /\ MaxChecked \in Nat /\ MaxFaults \in Nat
  /\ SuiteGrades \in [1 .. MaxSuites -> Grade]

Receipt == 1 .. MaxIssues
Request == [parent : 0 .. MaxIssues, suite : 1 .. MaxSuites]

VARIABLES
  suite,     \* the suite the supervisor has completed last
  aged,      \* suites 1 .. aged are older than the policy accepts
  outbox,    \* what the controller staged of each request
  nonces,    \* requests in the ledger of consumed nonces
  ledger,    \* what happened to it: "torn" (unreadable), "wiped" (emptied)
  issued,    \* the request of each receipt, in the order of issue
  dead,      \* receipts that are expired or revoked
  public,    \* receipts in the public directory
  current,   \* the receipt the selector names, 0 for none
  claims,    \* receipts whose check action is claimed
  delivered, \* receipts with a delivery record
  checks,    \* number of checks on GitHub for each receipt
  wake,      \* services whose directory changed since they started
  faults

submission == <<suite, aged, outbox>>
issuing    == <<nonces, ledger, issued>>
selection  == <<public, current>>
checking   == <<claims, delivered, checks>>
receiptVars == <<submission, issuing, dead, selection, checking, wake,
                 faults>>

Fault   == faults < MaxFaults /\ faults' = faults + 1
NoFault == UNCHANGED faults

Issued == 1 .. Len(issued)
Live(k) == k \in Issued /\ k \notin dead

ReceiptsInit ==
  /\ suite = 1 /\ aged = 0
  /\ outbox = [r \in Request |-> "none"]
  /\ nonces = {} /\ ledger = {} /\ issued = << >>
  /\ dead = {} /\ public = {} /\ current = 0
  /\ claims = {} /\ delivered = {}
  /\ checks = [k \in Receipt |-> 0]
  /\ wake = {}
  /\ faults = 0

-----------------------------------------------------------------------------
(* Time and the policy's owner. *)

Expire(k) ==
  /\ Live(k)
  /\ dead' = dead \cup {k}
  /\ UNCHANGED <<submission, issuing, selection, checking, wake, faults>>

Age ==
  /\ aged < suite
  /\ aged' = aged + 1
  /\ UNCHANGED <<suite, outbox, issuing, dead, selection,
                 checking, wake, faults>>

-----------------------------------------------------------------------------
(* The controller. *)

(* The supervisor runs fresh canaries when the evidence is too old. *)
RunCanaries ==
  /\ suite < MaxSuites /\ aged = suite
  /\ suite' = suite + 1
  /\ UNCHANGED <<aged, outbox, issuing, dead, selection,
                 checking, wake, faults>>

(* create_and_submit_verification_request derives identity and nonce from  *)
(* what the request binds: the suite and the receipt it renews.            *)
ThisRequest == [parent |-> current, suite |-> suite]

(* submit_activation_policy_request: a receipt is renewed only with recent *)
(* evidence, and a usable one is left until it is about to expire.         *)
MaySubmit == current = 0 \/ aged < suite

(* Evidence without its request is refused at every later attempt. *)
HalfSubmitted(r) == outbox[r] = "evidence"

Submitted == {r \in Request : outbox[r] = "request"}

(* submit_verification_request puts the evidence in place, then the        *)
(* request.  What is already there must be complete and the same.          *)
Submit ==
  /\ MaySubmit
  /\ ~HalfSubmitted(ThisRequest) /\ ThisRequest \notin Submitted
  /\ \/ /\ outbox' = [outbox EXCEPT ![ThisRequest] = "request"]
        /\ NoFault
     \/ /\ outbox' = [outbox EXCEPT ![ThisRequest] = "evidence"]
        /\ Fault
  /\ wake' = wake \cup {"issuer"}
  /\ UNCHANGED <<suite, aged, issuing, dead, selection, checking>>

-----------------------------------------------------------------------------
(* The root request broker. *)

(* _process_names copies the evidence of each request, then the request,   *)
(* and compares what is already copied.  A request it rejects does not end *)
(* the pass; a death leaves the rest until the outbox changes again.       *)
Copied == IF faults < MaxFaults THEN SUBSET Submitted ELSE {Submitted}

-----------------------------------------------------------------------------
(* The issuer. *)

(* The parts of _evaluate. *)
RightGeneration(r) == SuiteGrades[r.suite] # "generation"
ExactEvidence(r)   == SuiteGrades[r.suite] # "binding"
RecentEvidence(r)  == aged < r.suite
GatesPass(r)       == SuiteGrades[r.suite] # "gate"
ArtifactsMatch(r)  == SuiteGrades[r.suite] # "artifact"
OraclesAgree(r)    == SuiteGrades[r.suite] # "oracle"
ClaimsInPolicy(r)  == SuiteGrades[r.suite] # "claim"

Evaluate(r) ==
  /\ RightGeneration(r) /\ ExactEvidence(r) /\ RecentEvidence(r)
  /\ GatesPass(r) /\ ArtifactsMatch(r) /\ OraclesAgree(r)
  /\ ClaimsInPolicy(r)

(* _issue_one: a usable receipt of the same request ends the work on it. *)
Answered(r) == \E k \in Issued : issued[k] = r /\ Live(k)

(* Fault variant of Issuable: the first rejected request ends the pass. *)
IssuableUpToRejected(copied) ==
  {r \in copied : /\ ~Answered(r) /\ r \notin nonces /\ "torn" \notin ledger
                  /\ \A q \in copied : q.suite <= r.suite => Evaluate(q)}

(* The requests of a pass that are issued; main tolerates the others. *)
Issuable(copied) ==
  {r \in copied : /\ ~Answered(r) /\ Evaluate(r)
                  /\ r \notin nonces /\ "torn" \notin ledger}

(* Fault variant of Issue: the nonce is recorded after the receipt. *)
IssueReceiptFirst(rs, last, how) ==
  /\ issued' = IF how = "burnt" THEN Append(issued \o rs, last)
               ELSE issued \o rs
  /\ nonces' = nonces \cup ToSet(rs)
  /\ UNCHANGED ledger

(* NonceStore.consume for each of "used", then for "last", where a death   *)
(* leaves the ledger emptied or torn by the rewrite in place, or complete. *)
Consume(used, last, how) ==
  /\ nonces' = IF how = "wiped" THEN {}
               ELSE nonces \cup used \cup (IF how = "burnt" THEN {last} ELSE {})
  /\ ledger' = ledger \cup ({how} \cap {"wiped", "torn"})

(* issue_receipt for each request of rs: consume the nonce, sign and write *)
(* the receipt.  A death in the request "last" leaves it without receipt.  *)
Issue(rs, last, how) ==
  /\ issued' = issued \o rs
  /\ Consume(ToSet(rs), last, how)

IssueReceipts ==
  /\ "issuer" \in wake
  /\ \E copied \in Copied : \E all \in SetToSeqs(Issuable(copied)) :
       LET rs == SubSeq(all, 1, Min({Len(all), MaxIssues - Len(issued)})) IN
          \/ /\ Issue(rs, ThisRequest, "done")
             /\ IF copied = Submitted THEN NoFault ELSE Fault
          \/ \E n \in 1 .. Len(rs), how \in {"wiped", "torn", "burnt"} :
               Issue(SubSeq(rs, 1, n - 1), rs[n], how) /\ Fault
  /\ wake' = (wake \ {"issuer"})
               \cup (IF issued' # issued THEN {"promoter", "activations"} ELSE {})
  /\ UNCHANGED <<submission, dead, selection, checking>>

-----------------------------------------------------------------------------
(* The root receipt broker. *)

(* promote: a receipt not yet public must have authority now. *)
Promotable == {k \in Issued : k \notin public => Live(k)}

(* Fault variant of Displaces: selection without regard to issued_at. *)
DisplacesAny(k, now) == k # now /\ Live(k)

(* _select_current_machine: only a newer receipt that still has authority  *)
(* replaces the current one.                                               *)
Displaces(k, now) == k > now /\ Live(k)

(* What the selector names after each of the first receipts of a pass. *)
Selections(ks) ==
  LET named[n \in 0 .. Len(ks)] ==
        IF n = 0 THEN current
        ELSE IF Displaces(ks[n], named[n - 1]) THEN ks[n] ELSE named[n - 1]
  IN  named

(* The names are digests, so the pass takes the receipts in any order; a   *)
(* death leaves the last one public and not selected.                      *)
PromoteReceipts ==
  /\ "promoter" \in wake
  /\ \E ks \in SetToSeqs(Promotable) : \E n \in 0 .. Len(ks) :
       LET seen == ToSet(SubSeq(ks, 1, n))
       IN /\ current' = Selections(ks)[n]
          /\ \/ n = Len(ks) /\ NoFault /\ public' = public \cup seen
             \/ n < Len(ks) /\ Fault /\ public' = public \cup seen \cup {ks[n + 1]}
  /\ wake' = (wake \ {"promoter"})
               \cup (IF public' # public \/ current' # current
                     THEN {"checker"} ELSE {})
  /\ UNCHANGED <<submission, issuing, dead, checking>>

-----------------------------------------------------------------------------
(* The check worker. *)

(* eligible_events: public receipts with authority. *)
Eligible == {k \in public : Live(k) /\ k \notin delivered /\ k <= MaxChecked}

(* Fault variant of MayPublish: a claim left by an earlier run is retried. *)
MayPublishAgain(k, seen) == ~seen

(* process: the check is created only by the run that claimed the action   *)
(* and only when GitHub does not show it already.                          *)
MayPublish(k, seen) == ~seen /\ k \notin claims

(* GitHub may not yet show a check that exists. *)
Lookup(k, seen) == seen => checks[k] > 0

Create(k) == checks' = [checks EXCEPT ![k] = @ + 1]

Deliver(k) == delivered' = delivered \cup {k}

(* One event.  The network may fail, and the answer to the creation may be *)
(* lost.                                                                   *)
Process(k) ==
  \E seen \in BOOLEAN :
    /\ Lookup(k, seen)
    /\ claims' = claims \cup {k}
    /\ \/ seen /\ Deliver(k) /\ UNCHANGED checks /\ NoFault
       \/ MayPublish(k, seen) /\ Create(k) /\ Deliver(k) /\ NoFault
       \/ MayPublish(k, seen) /\ Create(k) /\ UNCHANGED delivered /\ Fault
       \/ /\ ~seen /\ ~MayPublish(k, seen)
          /\ UNCHANGED <<delivered, checks>> /\ NoFault
       \/ UNCHANGED <<delivered, checks>> /\ Fault

(* run_once goes on with the next event when one is unavailable. *)
PublishCheck(k) ==
  /\ "checker" \in wake /\ k \in Eligible
  /\ Process(k)
  /\ UNCHANGED <<submission, issuing, dead, selection, wake>>

EndChecks ==
  /\ "checker" \in wake
  /\ \A k \in Eligible : k \in claims
  /\ wake' = wake \ {"checker"}
  /\ UNCHANGED <<submission, issuing, dead, selection, checking, faults>>

-----------------------------------------------------------------------------
ReceiptsNext ==
  \/ \E k \in Receipt : Expire(k) \/ PublishCheck(k)
  \/ Age \/ RunCanaries \/ Submit
  \/ IssueReceipts \/ PromoteReceipts \/ EndChecks

-----------------------------------------------------------------------------
(* The selector moves to newer receipts only, and only to one that has     *)
(* authority at that moment: a replayed, expired or revoked receipt never  *)
(* displaces a usable selection.                                           *)
CurrentMovesForward ==
  [][current' # current => current' > current /\ Live(current')]_receiptVars

(* However often the worker runs, dies or loses an answer, GitHub has at   *)
(* most one check for a receipt.                                           *)
CheckedOnce == \A k \in Receipt : checks[k] <= 1

(* Time and again every request with sound evidence that is still recent   *)
(* is answered, whatever other requests are rejected beside it: what was   *)
(* answered stays so, so no such request waits for ever (issue_receipt).   *)
SoundIsAnswered ==
  []<>(\A r \in {q \in Request : q.parent < MaxIssues} :
         outbox[r] = "request" /\ Evaluate(r) =>
           \/ \E k \in Issued : issued[k] = r
           \/ faults > 0 \/ Len(issued) = MaxIssues)

=============================================================================
