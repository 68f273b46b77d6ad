------------------------------ MODULE Activation ------------------------------
(*****************************************************************************)
(* How the stopped V3.1 controller is activated, started, watched and        *)
(* stopped again: the activation supervisor (a timer, under one lock), the   *)
(* activation transaction that lifts STOP, the root start broker, the        *)
(* launcher with its restart budget, and the post-activation observer.       *)
(* They share files only: STOP, HARD_STUCK, the transaction directory, the   *)
(* STOP archive, the start journal, the refresh state and the receipts.      *)
(*                                                                           *)
(* Digests are compared, never computed: main is a number, a canary suite is *)
(* a number, and an activation receipt has the number of the machine-policy  *)
(* receipt its request was derived from.  Any process may die between two of *)
(* its writes; the timers run it again.                                      *)
(*****************************************************************************)
EXTENDS Naturals, FiniteSets

CONSTANTS MaxMain,      \* installed checkouts 1..MaxMain
          MaxSuite,     \* canary suites that are run
          MaxReceipt,   \* machine-policy receipts that are issued
          MaxRestarts,  \* recovery.maxControllerRestarts
          MaxFaults     \* process deaths and PAUSE changes considered

ASSUME ActivationAssumption ==
    /\ MaxMain \in Nat \ {0} /\ MaxSuite \in Nat
    /\ MaxReceipt \in Nat /\ MaxRestarts \in Nat \ {0} /\ MaxFaults \in Nat

VARIABLES
    main,         \* the installed checkout
    completions,  \* mains whose refresh completion waits in the inbox
    stop,         \* the content of STOP, or NoStop
    controls,     \* which of PAUSE and HARD_STUCK exist
    suites,       \* passing canary suites: id, main
    policy,       \* the machine-policy receipt: n, suite, main
    asked,        \* suite of the submitted activation-policy request, or 0
    requests,     \* activation requests in the outbox
    live,         \* the LIVE receipt current.json: id, main, suite, age
    txs,          \* the activation-transactions directory
    oldTxs,       \* archived transactions
    archive,      \* archived STOP files: id, main, stop
    sup,          \* where the supervisor tick stands, and its transaction
    refresh,      \* RefreshActivationState of each main
    starts,       \* controller start requests: id, main
    journal,      \* the start broker's journal of each receipt
    running,      \* the controller process exists
    attempts,     \* SupervisorState.restart_attempts
    emitted,      \* receipts whose seven events were printed
    observed,     \* receipts with an observation.json
    retired,      \* retirement journal of each main's completion
    faults        \* process deaths and PAUSE changes so far

checkoutVars == <<main, completions>>
authorityVars == <<suites, policy, asked, requests, live>>
txVars == <<txs, oldTxs, archive, refresh>>
serviceVars == <<starts, journal, running, attempts, emitted>>
observerVars == <<observed, retired>>
vars == <<main, completions, stop, controls, suites, policy, asked, requests, live, txs, oldTxs,
          archive, sup, refresh, starts, journal, running, attempts, emitted,
          observed, retired, faults>>

Mains == 1 .. MaxMain
Receipts == 1 .. MaxReceipt

NoStop == <<"none", 0>>
OperatorStop == <<"operator", 0>>
RollbackStop == <<"rollback", 0>>
StuckStop == <<"stuck", 0>>
RefreshStop(m) == <<"refresh", m>>

NoPolicy == [n |-> 0, suite |-> 0, main |-> 0]
NoReceipt == [id |-> 0, main |-> 0, suite |-> 0, age |-> "expired"]
NoTx == [id |-> 0, main |-> 0, suite |-> 0, stop |-> NoStop, phase |-> "PREPARED"]
NoRefresh == [phase |-> "NONE", suite |-> 0, req |-> 0, tx |-> 0]
Received == [phase |-> "RECEIVED", suite |-> 0, req |-> 0, tx |-> 0]

Init ==
    /\ main = 1 /\ completions = {}
    /\ stop = OperatorStop /\ controls = {}
    /\ suites = {} /\ policy = NoPolicy /\ asked = 0 /\ requests = {} /\ live = NoReceipt
    /\ txs = {} /\ oldTxs = {} /\ archive = {}
    /\ sup = [at |-> "idle", tx |-> NoTx]
    /\ refresh = [m \in Mains |-> NoRefresh]
    /\ starts = {} /\ journal = [r \in Receipts |-> "none"]
    /\ running = FALSE /\ attempts = 0 /\ emitted = {}
    /\ observed = {}
    /\ retired = [m \in Mains |-> [phase |-> "none", id |-> 0]]
    /\ faults = 0

-----------------------------------------------------------------------------
(* Evidence and authority, issued by machines outside this component.        *)

Suite(id) == CHOOSE s \in suites : s.id = id
Bound(s) == s.main = main               \* verify_mandatory_canary_suite, require_pass

\* run_mandatory_canaries with status PASS; a failing suite is never used.
NewSuite == [id |-> Cardinality(suites) + 1, main |-> main]
Affordable == Cardinality(suites) < MaxSuite

PolicyBinds(s) == policy.suite = s.id /\ policy.main = main /\ Bound(s)

\* coordinate_activation_policy_request returns a path (not None).  These ages are not
\* tracked: due says whether the policy receipt is within its renewal margin, old
\* whether the suite is past the age that may be submitted as a renewal.
WantsPolicy(s, due, old) ==
    /\ stop # NoStop /\ controls = {} /\ Bound(s)
    /\ ~PolicyBinds(s) \/ due
    /\ policy.n # 0 => ~old

IssuePolicy ==
    /\ asked # 0 /\ policy.n < MaxReceipt
    /\ policy' = [n |-> policy.n + 1, suite |-> asked, main |-> Suite(asked).main]
    /\ asked' = 0
    /\ UNCHANGED <<suites, requests, live, checkoutVars, stop, controls, txVars, sup,
                   serviceVars, observerVars>>

\* Request broker, observed-main selector, selector broker and issuer: a request
\* for the main now observed becomes the LIVE receipt, once.
IssueActivation ==
    /\ \E r \in requests :
          /\ r.main = main /\ r.n > live.id
          /\ policy.n = r.n
          /\ live' = [id |-> r.n, main |-> r.main, suite |-> r.suite, age |-> "fresh"]
    /\ UNCHANGED <<suites, policy, asked, requests, checkoutVars, stop, controls, txVars, sup,
                   serviceVars, observerVars>>

\* The receipt, its policy receipt or the revocation list expires.
ExpireActivation ==
    /\ live.age = "fresh"
    /\ live' = [live EXCEPT !.age = "expired"]
    /\ UNCHANGED <<suites, policy, asked, requests, checkoutVars, stop, controls, txVars, sup,
                   serviceVars, observerVars>>

\* A runtime refresh commits, which it does only while the controller is inactive: a
\* new checkout and its completion claim.
RefreshCommits ==
    /\ ~running /\ main < MaxMain
    /\ main' = main + 1 /\ completions' = completions \cup {main + 1}
    /\ UNCHANGED <<stop, controls, authorityVars, txVars, sup, serviceVars, observerVars>>

\* A process dies, or the operator sets or clears PAUSE.
Fault == faults < MaxFaults /\ faults' = faults + 1

TogglePause ==
    /\ Fault
    /\ controls' = IF "PAUSE" \in controls THEN controls \ {"PAUSE"} ELSE controls \cup {"PAUSE"}
    /\ UNCHANGED <<checkoutVars, stop, authorityVars, txVars, sup, serviceVars, observerVars>>

-----------------------------------------------------------------------------
(* The activation transaction: _activate_v31_locked.                         *)

ArchiveOf(t) == {a \in archive : a.id = t.id /\ a.main = t.main}
ArchiveIsValid(t) == [id |-> t.id, main |-> t.main, stop |-> t.stop] \in archive
Existing == {t \in txs : t.id = live.id}

\* The checks before the first write, for the given suite.
Activatable(s) ==
    /\ controls = {} /\ Bound(s)
    /\ live.suite = s.id /\ live.main = main /\ live.age # "expired"
    /\ IF Existing = {} THEN stop # NoStop
       ELSE \E t \in Existing :
              /\ t.main = main /\ t.suite = s.id
              /\ stop = NoStop \/ t.stop = stop
              /\ t.phase = "ACTIVATED" => stop = NoStop /\ ArchiveIsValid(t)

\* stage_controller_start_request, and the refresh state that records it.
StageStart(t) ==
    /\ starts' = starts \cup {[id |-> t.id, main |-> t.main]}
    /\ refresh' = IF refresh[main].phase = "REQUEST_SUBMITTED"
                  THEN [refresh EXCEPT ![main] = [@ EXCEPT !.phase = "START_REQUESTED",
                                                           !.tx = t.id]]
                  ELSE refresh
    /\ sup' = [at |-> "idle", tx |-> NoTx]

\* activate_v31 raises: the refresh path ends its tick, the other goes on.
Rejected == [at |-> IF main \in completions THEN "idle" ELSE "rejected", tx |-> NoTx]

\* Fault variant: no PREPARED journal before STOP is archived.
BeginUnjournalled(s) ==
    /\ sup.at = "idle" /\ Activatable(s)
    /\ sup' = [at |-> "prepared",
               tx |-> [id |-> live.id, main |-> main, suite |-> s.id, stop |-> stop,
                       phase |-> "PREPARED"]]
    /\ UNCHANGED <<checkoutVars, stop, controls, authorityVars, txs, oldTxs, archive, refresh,
                   serviceVars, observerVars>>

\* An ACTIVATED transaction is returned as it is; otherwise PREPARED is written.
BeginActivation(s) ==
    /\ sup.at = "idle" /\ Activatable(s)
    /\ LET t == IF Existing # {} THEN CHOOSE x \in Existing : TRUE
                ELSE [id |-> live.id, main |-> main, suite |-> s.id, stop |-> stop,
                      phase |-> "PREPARED"]
       IN  \/ t.phase = "ACTIVATED" /\ StageStart(t) /\ UNCHANGED txs
          \/ /\ t.phase = "PREPARED"
             /\ txs' = txs \cup {t}
             /\ sup' = [at |-> "prepared", tx |-> t]
             /\ UNCHANGED <<starts, refresh>>
    /\ UNCHANGED <<checkoutVars, stop, controls, authorityVars, oldTxs, archive, journal,
                   running, attempts, emitted, observerVars>>

\* Fault variant: an earlier archive of the same receipt does not stop the move.
ArchiveStopAgain ==
    /\ sup.at = "prepared" /\ stop # NoStop
    /\ archive' = archive \cup {[id |-> sup.tx.id, main |-> sup.tx.main, stop |-> stop]}
    /\ stop' = NoStop
    /\ sup' = [sup EXCEPT !.at = "archived"]
    /\ UNCHANGED <<checkoutVars, controls, authorityVars, txs, oldTxs, refresh, serviceVars,
                   observerVars>>

\* _archive_stop moves whatever STOP is there, and raises when its target exists.
ArchiveStop ==
    /\ sup.at = "prepared"
    /\ \/ /\ stop # NoStop /\ ArchiveOf(sup.tx) = {}
          /\ archive' = archive \cup {[id |-> sup.tx.id, main |-> sup.tx.main, stop |-> stop]}
          /\ stop' = NoStop
          /\ sup' = [sup EXCEPT !.at = "archived"]
       \/ /\ stop = NoStop /\ ArchiveIsValid(sup.tx)
          /\ sup' = [sup EXCEPT !.at = "archived"]
          /\ UNCHANGED <<stop, archive>>
       \/ /\ IF stop # NoStop THEN ArchiveOf(sup.tx) # {} ELSE ~ArchiveIsValid(sup.tx)
          /\ sup' = Rejected
          /\ UNCHANGED <<stop, archive>>
    /\ UNCHANGED <<checkoutVars, controls, authorityVars, txs, oldTxs, refresh, serviceVars,
                   observerVars>>

\* The transaction becomes ACTIVATED, its archive is validated, and the start is
\* requested; the tick may die before the request.
WriteActivated ==
    /\ sup.at = "archived"
    /\ LET t == [sup.tx EXCEPT !.phase = "ACTIVATED"] IN
       /\ txs' = (txs \ {sup.tx}) \cup {t}
       /\ \/ ArchiveIsValid(t) /\ StageStart(t) /\ UNCHANGED faults
          \/ /\ ArchiveIsValid(t) /\ Fault
             /\ sup' = [at |-> "idle", tx |-> NoTx] /\ UNCHANGED <<starts, refresh>>
          \/ /\ ~ArchiveIsValid(t) /\ UNCHANGED <<starts, refresh, faults>>
             /\ sup' = Rejected
    /\ UNCHANGED <<checkoutVars, stop, controls, authorityVars, oldTxs, archive, journal,
                   running, attempts, emitted, observerVars>>

-----------------------------------------------------------------------------
(* Requests for fresh authority: stage_activation_request.                   *)

Predecessors(t) ==
    {p \in oldTxs : /\ p.phase = "ACTIVATED"
                    /\ p.id = t.id /\ p.main = t.main /\ p.suite = t.suite}
SameStop(t) == {p \in Predecessors(t) : p.stop = t.stop}
ChangedStop(t) == Predecessors(t) \ SameStop(t)

\* _archive_consumed_activation_transaction does not raise on this one entry.
Consumed(t) ==
    \/ t.phase = "ACTIVATED"
    \/ /\ stop = t.stop
       /\ \/ Cardinality(SameStop(t)) = 1 /\ ArchiveIsValid(t)
          \/ /\ SameStop(t) = {} /\ Cardinality(ChangedStop(t)) = 1 /\ t.main # main
             /\ \A p \in ChangedStop(t) : ArchiveIsValid(p)

Stageable(s) ==
    /\ stop # NoStop /\ controls = {}
    /\ PolicyBinds(s)
    /\ Cardinality(txs) <= 1 /\ \A t \in txs : Consumed(t)

StageRequest(s) ==
    /\ Stageable(s)
    /\ oldTxs' = oldTxs \cup txs /\ txs' = {}
    /\ requests' = requests \cup {[n |-> policy.n, suite |-> s.id, main |-> main]}

-----------------------------------------------------------------------------
(* One tick of the supervisor.  PAUSE or HARD_STUCK: no step.                *)

Idle == sup.at = "idle" /\ controls = {}
OnRefreshPath == main \in completions
RS == refresh[main]

\* _process_refresh_activation.
RefreshReceived ==
    /\ Idle /\ OnRefreshPath /\ RS.phase = "NONE"
    /\ stop' = IF stop = NoStop THEN RefreshStop(main) ELSE stop
    /\ refresh' = [refresh EXCEPT ![main] = Received]
    /\ UNCHANGED <<checkoutVars, controls, authorityVars, txs, oldTxs, archive, sup, serviceVars,
                   observerVars>>

\* A rolled-back start, or a rolled-back request whose policy receipt is due, goes
\* back to RECEIVED with fresh canaries; the tick may die before they pass.
RefreshRestart ==
    /\ Idle /\ OnRefreshPath /\ stop = RollbackStop
    /\ \/ RS.phase = "START_REQUESTED" /\ \E t \in txs : t.id = RS.tx /\ t.phase = "ACTIVATED"
       \/ RS.phase = "REQUEST_SUBMITTED"
    /\ \/ /\ refresh' = [refresh EXCEPT ![main] = Received]
          /\ UNCHANGED suites
       \/ /\ Affordable
          /\ suites' = suites \cup {NewSuite}
          /\ refresh' = [refresh EXCEPT ![main] = [Received EXCEPT !.phase = "CANARIES_PASSED",
                                                                   !.suite = NewSuite.id]]
    /\ UNCHANGED <<checkoutVars, stop, controls, policy, asked, requests, live, txs, oldTxs,
                   archive, sup, serviceVars, observerVars>>

RefreshCanaries ==
    /\ Idle /\ OnRefreshPath /\ RS.phase = "RECEIVED"
    /\ \E s \in suites \cup {NewSuite} :
          /\ Bound(s)
          /\ s \notin suites => Affordable /\ \A x \in suites : ~Bound(x)
          /\ suites' = suites \cup {s}
          /\ refresh' = [refresh EXCEPT ![main] = [@ EXCEPT !.phase = "CANARIES_PASSED",
                                                            !.suite = s.id]]
    /\ UNCHANGED <<checkoutVars, stop, controls, policy, asked, requests, live, txs, oldTxs,
                   archive, sup, serviceVars, observerVars>>

RefreshRequest ==
    /\ Idle /\ OnRefreshPath /\ RS.phase = "CANARIES_PASSED"
    /\ \E due, old \in BOOLEAN : LET s == Suite(RS.suite) IN
       \/ /\ WantsPolicy(s, due, old) /\ asked' = s.id
          /\ UNCHANGED <<requests, txs, oldTxs, refresh>>
       \/ /\ ~WantsPolicy(s, due, old) /\ StageRequest(s)
          /\ refresh' = [refresh EXCEPT ![main] = [@ EXCEPT !.phase = "REQUEST_SUBMITTED",
                                                            !.req = policy.n]]
          /\ UNCHANGED asked
    /\ UNCHANGED <<checkoutVars, stop, controls, suites, policy, live, archive, sup, serviceVars,
                   observerVars>>

RefreshActivate ==
    /\ Idle /\ OnRefreshPath /\ RS.phase = "REQUEST_SUBMITTED"
    /\ BeginActivation(Suite(RS.suite))

\* The rest of _run_activation_supervisor_locked.
DirectActivate ==
    /\ Idle /\ ~OnRefreshPath
    /\ IF stop = NoStop
       THEN Cardinality(txs) = 1 /\ \E t \in txs, s \in suites : s.id = t.suite /\ BeginActivation(s)
       ELSE \E s \in suites : BeginActivation(s)

\* What the tick does once no suite could be activated.
Unactivated ==
    /\ controls = {} /\ ~OnRefreshPath /\ stop # NoStop
    /\ \/ sup.at = "rejected"
       \/ sup.at = "idle" /\ \A s \in suites : ~Activatable(s)

Newest(S) == CHOOSE s \in S : \A x \in S : x.id <= s.id

DirectRequest ==
    /\ Unactivated
    /\ \E due \in BOOLEAN, old \in SUBSET suites :
       LET wanting == {s \in suites : WantsPolicy(s, due, s \in old)}
           staged == {s \in suites : Stageable(s)}
       IN  \/ /\ wanting # {} /\ asked' = Newest(wanting).id
              /\ UNCHANGED <<suites, requests, txs, oldTxs>>
           \/ /\ wanting = {} /\ staged # {} /\ StageRequest(Newest(staged))
              /\ UNCHANGED <<suites, asked>>
           \/ /\ wanting = {} /\ staged = {} /\ Affordable
              /\ suites' = suites \cup {NewSuite} /\ asked' = NewSuite.id
              /\ UNCHANGED <<requests, txs, oldTxs>>
    /\ sup' = [at |-> "idle", tx |-> NoTx]
    /\ UNCHANGED <<checkoutVars, stop, controls, policy, live, archive, refresh, serviceVars,
                   observerVars>>

\* The tick ends or dies: what it had not written is lost.
EndTick ==
    /\ sup.at # "idle"
    /\ IF sup.at = "rejected" THEN UNCHANGED faults ELSE Fault
    /\ sup' = [at |-> "idle", tx |-> NoTx]
    /\ UNCHANGED <<checkoutVars, stop, controls, authorityVars, txVars, serviceVars,
                   observerVars>>

-----------------------------------------------------------------------------
(* The controller: launcher, restart budget and events.                      *)

\* validate_activation_control_state.
ActivatedHere ==
    LET mine == {t \in txs : t.main = main /\ t.id = live.id}
    IN  Cardinality(mine) = 1 /\ \A t \in mine : t.phase = "ACTIVATED" /\ ArchiveIsValid(t)

\* run_startup_preflight.
StartAllowed ==
    /\ stop = NoStop /\ controls = {}
    /\ live.main = main /\ live.age # "expired"
    /\ ActivatedHere

\* The launcher's loop ends.
LauncherStops == stop # NoStop \/ "PAUSE" \in controls

\* record_controller_exit; a run that was healthy for long enough counts from 0.
Counted == {0, attempts}
Exhausted(used) == used + 1 > MaxRestarts

\* The controller exits; the launcher stops on STOP or PAUSE, else spends one
\* restart, and gives up with HARD_STUCK and then STOP (it may die in between).
ControllerExit ==
    /\ running
    /\ \/ /\ LauncherStops
          /\ running' = FALSE
          /\ UNCHANGED <<attempts, controls, stop>>
       \/ /\ ~LauncherStops
          /\ \E used \in Counted :
                \/ /\ ~Exhausted(used)
                   /\ attempts' = used + 1
                   /\ running' = StartAllowed
                   /\ UNCHANGED <<controls, stop>>
                \/ /\ Exhausted(used)
                   /\ controls' = controls \cup {"HARD_STUCK"}
                   /\ stop' \in {StuckStop, stop}
                   /\ running' = FALSE
                   /\ attempts' \in {used, attempts}
    /\ UNCHANGED <<checkoutVars, authorityVars, txVars, sup, starts, journal, emitted,
                   observerVars>>

\* emit_post_activation_events.
EmitEvents ==
    /\ running /\ stop = NoStop
    /\ live.id # 0 /\ live.main = main /\ live.id \notin emitted
    /\ emitted' = emitted \cup {live.id}
    /\ UNCHANGED <<checkoutVars, stop, controls, authorityVars, txVars, sup, starts, journal,
                   running, attempts, observerVars>>

-----------------------------------------------------------------------------
(* The root start broker: process.                                           *)

Startable(r) ==
    /\ stop = NoStop /\ "HARD_STUCK" \notin controls
    /\ r.id = live.id /\ r.main = main /\ live.main = main /\ live.age # "expired"
    /\ journal[r.id] # "ROLLED_BACK"

\* restore_runtime_stop keeps a STOP that is there.
RestoredStop == IF stop = NoStop THEN RollbackStop ELSE stop

\* A controller that this start did not journal.
Unexpected(r) == running /\ journal[r.id] = "none"

\* _attest_started_controller finds the process that runs, or that the launcher starts.
Attested == running \/ StartAllowed

\* systemctl start runs the launcher, which makes its own checks; the process is
\* attested.  The broker may die after PREPARED, before or after the start.
BrokerStart ==
    /\ \E r \in starts :
          /\ Startable(r) /\ ~Unexpected(r)
          /\ \/ /\ Attested
                /\ running' = TRUE
                /\ journal' = [journal EXCEPT ![r.id] = "STARTED"]
                /\ UNCHANGED faults
             \/ /\ Fault
                /\ journal' = [journal EXCEPT ![r.id] = IF @ = "none" THEN "PREPARED" ELSE @]
                /\ running' \in {running, Attested}
    /\ UNCHANGED <<checkoutVars, stop, controls, authorityVars, txVars, sup, starts, attempts,
                   emitted, observerVars>>

\* The start or the attestation fails, or an unjournalled controller is found: stop
\* the service, restore STOP and, for a start of its own, journal ROLLED_BACK.  A
\* broker that dies has made only some of these writes.
BrokerRollback ==
    /\ \E r \in starts, restored, journalled \in BOOLEAN :
          LET unexpected == Unexpected(r) IN
          /\ Startable(r)
          /\ journalled => restored /\ ~unexpected
          /\ running' = FALSE
          /\ stop' = IF restored THEN RestoredStop ELSE stop
          /\ journal' = [journal EXCEPT ![r.id] = IF unexpected THEN @
                                                  ELSE IF journalled THEN "ROLLED_BACK"
                                                  ELSE IF @ = "none" THEN "PREPARED" ELSE @]
          /\ IF journalled \/ (restored /\ unexpected) THEN UNCHANGED faults ELSE Fault
    /\ UNCHANGED <<checkoutVars, controls, authorityVars, txVars, sup, starts, attempts, emitted,
                   observerVars>>

-----------------------------------------------------------------------------
(* The post-activation observer: observe.                                    *)

Authorised == live.age = "fresh" /\ live.main = main

\* _retire_refresh_completion raises: the completion was retired under another receipt.
RetirementConflicts == retired[main].phase # "none" /\ retired[main].id # live.id
HasCompletion == main \in completions \/ retired[main].phase = "RETIRED"

AlreadyObserved == live.id \in observed     \* _verified_existing_observation

RosterSeen == live.id \in emitted           \* _event_evidence: the seven events

ObservationHolds ==
    /\ Authorised
    /\ \/ AlreadyObserved
       \/ running /\ journal[live.id] = "STARTED" /\ RosterSeen

\* PREPARED, the copy with RETIRED, then the claim is removed; it may die in between.
ObserveHolds ==
    /\ live.id # 0 /\ ObservationHolds
    /\ HasCompletion => ~RetirementConflicts
    /\ observed' = observed \cup {live.id}
    /\ \/ ~HasCompletion /\ UNCHANGED <<completions, retired, faults>>
       \/ /\ HasCompletion /\ UNCHANGED faults
          /\ retired' = [retired EXCEPT ![main] = [phase |-> "RETIRED", id |-> live.id]]
          /\ completions' = completions \ {main}
       \/ /\ HasCompletion /\ Fault /\ UNCHANGED completions
          /\ \E phase \in {"PREPARED", "RETIRED"} :
                /\ retired[main].phase = "RETIRED" => phase = "RETIRED"
                /\ retired' = [retired EXCEPT ![main] = [phase |-> phase, id |-> live.id]]
    /\ UNCHANGED <<main, stop, controls, authorityVars, txVars, sup, serviceVars>>

\* Fault variant: the service is stopped and STOP is not restored.
ObserveStopsOnly(margin, dies) ==
    /\ live.id # 0 /\ ~(margin /\ ObservationHolds)
    /\ running' = FALSE
    /\ UNCHANGED <<checkoutVars, stop, controls, authorityVars, txVars, sup, starts, journal,
                   attempts, emitted, observerVars>>

\* Everything else fails closed, an incomplete roster after the window and a
\* completion retired under another receipt included: stop the service, then restore
\* STOP; it may die in between.  margin: no authority is within its renewal margin
\* (these ages are not tracked).
ObserveFailsClosed(margin, dies) ==
    /\ live.id # 0
    /\ \/ ~(margin /\ ObservationHolds) /\ UNCHANGED observed
       \/ /\ margin /\ ObservationHolds /\ HasCompletion /\ RetirementConflicts
          /\ observed' = observed \cup {live.id}
    /\ running' = FALSE
    /\ stop' = IF dies THEN stop ELSE RestoredStop
    /\ UNCHANGED <<checkoutVars, controls, authorityVars, txVars, sup, starts, journal,
                   attempts, emitted, retired>>

ObserveFails == ObserveFailsClosed(TRUE, FALSE)
ObserveDue == ObserveFailsClosed(FALSE, FALSE)
ObserverDies == Fault /\ \E margin \in BOOLEAN : ObserveFailsClosed(margin, TRUE)

-----------------------------------------------------------------------------
Machines == IssuePolicy \/ IssueActivation \/ ExpireActivation \/ RefreshCommits

Supervise ==
    \/ RefreshReceived \/ RefreshRestart \/ RefreshCanaries \/ RefreshRequest \/ RefreshActivate
    \/ DirectActivate \/ DirectRequest \/ ArchiveStop

Next ==
    \/ /\ \/ Machines \/ Supervise \/ ControllerExit \/ EmitEvents
          \/ ObserveFails \/ ObserveDue
       /\ UNCHANGED faults
    \/ WriteActivated \/ BrokerStart \/ BrokerRollback \/ ObserveHolds
    \/ TogglePause \/ EndTick \/ ObserverDies

Spec == Init /\ [][Next]_vars

\* The observer is a two-minute timer with Persistent=true, and receipts expire.
Fairness == WF_vars(ObserveFails /\ UNCHANGED faults) /\ WF_vars(ExpireActivation /\ UNCHANGED faults)

FairSpec == Spec /\ Fairness
-----------------------------------------------------------------------------
TypeOK ==
    /\ main \in Mains /\ completions \subseteq Mains
    /\ stop \in {NoStop, OperatorStop, RollbackStop, StuckStop} \cup {RefreshStop(m) : m \in Mains}
    /\ controls \subseteq {"PAUSE", "HARD_STUCK"}
    /\ suites \subseteq [id : 1 .. MaxSuite, main : Mains]
    /\ policy \in [n : 0 .. MaxReceipt, suite : 0 .. MaxSuite, main : 0 .. MaxMain]
    /\ asked \in 0 .. MaxSuite
    /\ requests \subseteq [n : Receipts, suite : 1 .. MaxSuite, main : Mains]
    /\ live \in [id : 0 .. MaxReceipt, main : 0 .. MaxMain, suite : 0 .. MaxSuite,
                 age : {"fresh", "expired"}]
    /\ \A t \in txs \cup oldTxs : t.id \in Receipts /\ t.main \in Mains
                                  /\ t.phase \in {"PREPARED", "ACTIVATED"}
    /\ \A a \in archive : a.id \in Receipts /\ a.stop # NoStop
    /\ sup.at \in {"idle", "prepared", "archived", "rejected"}
    /\ starts \subseteq [id : Receipts, main : Mains]
    /\ journal \in [Receipts -> {"none", "PREPARED", "STARTED", "ROLLED_BACK"}]
    /\ running \in BOOLEAN /\ attempts \in 0 .. MaxRestarts
    /\ observed \subseteq emitted
    /\ faults \in 0 .. MaxFaults

\* STOP is never just gone: while it is absent, a live transaction holds the archived
\* file it was moved to (PREPARED is written before the move, and the transaction is
\* retired only when STOP is back), whoever died in between.
StopIsAccountedFor == TypeOK /\ (stop = NoStop => \E t \in txs : ArchiveIsValid(t))

\* "Prevent an old activation transaction from being replayed": when the broker or the
\* observer restores STOP after a receipt's start was requested, that receipt never
\* lifts STOP again, although it may still be the LIVE one.
ReceiptLiftsStopOnce ==
    [][stop # NoStop /\ stop' = NoStop => \A r \in starts : r.id # sup.tx.id]_vars

\* A spent restart budget is final: HARD_STUCK is never cleared, and from then on no
\* supervisor tick, broker or launcher brings the controller back, also when the
\* process died before it wrote STOP.
HardStuckIsFinal ==
    [][ "HARD_STUCK" \in controls =>
            /\ "HARD_STUCK" \in controls'
            /\ running' => running ]_vars

\* Neither a replayed receipt nor a restart undoes a stop that is meant to last
\* (_archive_stop, guard_restart).
StopIsRespected == ReceiptLiftsStopOnce /\ HardStuckIsFinal

\* The absence of STOP without a controller is not a resting state: a death between
\* the archive and ACTIVATED, a failed start or a spent launcher ends with STOP
\* restored or the controller running.
LimboEnds == (stop = NoStop /\ ~running) ~> (stop # NoStop \/ running)

=============================================================================
