------------------------- MODULE ActivationProofs -------------------------
(***************************************************************************)
(* While STOP is absent a live transaction holds the file it was moved to, *)
(* a receipt lifts STOP once and a spent restart budget is final, for any  *)
(* number of checkouts, of receipts, of restarts and of deaths.            *)
(*                                                                         *)
(* That STOP is accounted for is not inductive: a transaction is retired   *)
(* on evidence about its own STOP, and a start is requested of whatever    *)
(* transaction is found.  The invariant adds that receipts are issued in   *)
(* order, each for one main (Identified); that the supervisor works on the *)
(* newest transaction, whose STOP is the one there until it is archived    *)
(* (Working); and that an absent STOP was moved by the newest transaction  *)
(* and a start requested only of a receipt that has lifted STOP (Lifted).  *)
(***************************************************************************)
EXTENDS Activation, FiniteSetTheorems, WellFoundedInduction, TLAPS

Stops == {NoStop, OperatorStop, RollbackStop, StuckStop} \cup {RefreshStop(m) : m \in Mains}
Transactions ==
  [id : Receipts, main : Mains, suite : 0 .. MaxSuite, stop : Stops,
   phase : {"PREPARED", "ACTIVATED"}]
ArchivedStops == [id : Receipts, main : Mains, stop : Stops \ {NoStop}]
RefreshStates ==
  [phase : {"NONE", "RECEIVED", "CANARIES_PASSED", "REQUEST_SUBMITTED", "START_REQUESTED"},
   suite : 0 .. MaxSuite, req : 0 .. MaxReceipt, tx : 0 .. MaxReceipt]
Retirements == [phase : {"none", "PREPARED", "RETIRED"}, id : 0 .. MaxReceipt]
Policies == [n : 0 .. MaxReceipt, suite : 0 .. MaxSuite, main : 0 .. MaxMain]
LiveReceipts ==
  [id : 0 .. MaxReceipt, main : 0 .. MaxMain, suite : 0 .. MaxSuite, age : {"fresh", "expired"}]

(* The types, one part per group of variables.  What is asked for, issued  *)
(* and recorded names suites that were run.                                *)
StopTyped ==
  /\ main \in Mains /\ completions \subseteq Mains
  /\ stop \in Stops /\ controls \subseteq {"PAUSE", "HARD_STUCK"}

SuitesTyped ==
  /\ suites \subseteq [id : 1 .. MaxSuite, main : Mains] /\ IsFiniteSet(suites)
  /\ asked \in 0 .. MaxSuite
  /\ asked # 0 => \E s \in suites : s.id = asked

ReceiptsTyped ==
  /\ policy \in Policies /\ (policy.n = 0 => policy.suite = 0)
  /\ requests \subseteq [n : Receipts, suite : 1 .. MaxSuite, main : Mains]
  /\ live \in LiveReceipts /\ (live.id = 0 => live.main = 0)

TxTyped ==
  /\ txs \cup oldTxs \subseteq Transactions /\ archive \subseteq ArchivedStops
  /\ sup \in [at : {"idle", "prepared", "archived", "rejected"}, tx : Transactions \cup {NoTx}]

RefreshTyped ==
  /\ refresh \in [Mains -> RefreshStates]
  /\ \A m \in Mains :
        refresh[m].phase = "CANARIES_PASSED" => \E s \in suites : s.id = refresh[m].suite

ServiceTyped ==
  /\ starts \subseteq [id : Receipts, main : Mains]
  /\ journal \in [Receipts -> {"none", "PREPARED", "STARTED", "ROLLED_BACK"}]
  /\ running \in BOOLEAN /\ attempts \in 0 .. MaxRestarts

ObserverTyped == observed \subseteq emitted /\ retired \in [Mains -> Retirements]

Typed ==
  /\ StopTyped /\ SuitesTyped /\ ReceiptsTyped /\ TxTyped /\ RefreshTyped
  /\ ServiceTyped /\ ObserverTyped /\ faults \in 0 .. MaxFaults

(* Receipts are issued in order, each for one main. *)
Identified ==
  /\ \A x \in txs \cup starts \cup archive :
        x.id <= live.id /\ (x.id = live.id => x.main = live.main)
  /\ \A x, y \in txs \cup starts \cup archive : x.id = y.id => x.main = y.main
  /\ \A t, u \in txs : t.id = u.id => t = u

NewestTx(t) == t \in txs /\ \A u \in txs : u.id <= t.id

(* The supervisor works on the newest transaction, whose STOP is the one   *)
(* that is there until it is archived.                                     *)
Working ==
  /\ sup.at \in {"prepared", "archived"} => NewestTx(sup.tx)
  /\ sup.at = "prepared" /\ stop # NoStop /\ ArchiveOf(sup.tx) = {} => sup.tx.stop = stop

(* STOP was moved by the newest transaction, a start requested only of a   *)
(* receipt that has lifted STOP.                                           *)
Lifted ==
  /\ stop = NoStop => \E t \in txs : NewestTx(t) /\ ArchiveIsValid(t)
  /\ \A r \in starts : \E a \in archive : a.id = r.id

ActivationInv == Typed /\ Identified /\ Working /\ Lifted

-----------------------------------------------------------------------------
(* The contents of STOP are told apart. *)
LEMMA StopNames ==
  /\ {OperatorStop, RollbackStop, StuckStop} \subseteq Stops \ {NoStop}
  /\ NoStop \in Stops
  /\ \A m \in Mains : RefreshStop(m) \in Stops \ {NoStop}
  BY DEF Stops, NoStop, OperatorStop, RollbackStop, StuckStop, RefreshStop

(* The parts are what TypeOK asks for. *)
LEMMA TypedIsTypeOK ==
  ASSUME Typed PROVE TypeOK
<1>1. /\ StopTyped /\ SuitesTyped /\ ReceiptsTyped /\ TxTyped /\ ServiceTyped /\ ObserverTyped
      /\ faults \in 0 .. MaxFaults
  BY DEF Typed
<1>2. \A t \in txs \cup oldTxs : /\ t.id \in Receipts /\ t.main \in Mains
                                 /\ t.phase \in {"PREPARED", "ACTIVATED"}
  BY <1>1 DEF TxTyped, Transactions
<1>3. \A a \in archive : a.id \in Receipts /\ a.stop # NoStop
  BY <1>1 DEF TxTyped, ArchivedStops
<1>4. sup.at \in {"idle", "prepared", "archived", "rejected"}
  BY <1>1 DEF TxTyped
<1> QED
  BY <1>1, <1>2, <1>3, <1>4
  DEF StopTyped, SuitesTyped, ReceiptsTyped, ServiceTyped, ObserverTyped, TypeOK, Stops, Policies,
      LiveReceipts

(* Nothing is issued at the start and STOP is there. *)
LEMMA ActivationStarts ==
  ASSUME Init PROVE ActivationInv
<1>1. StopTyped
  BY StopNames, ActivationAssumption DEF Init, StopTyped, Mains
<1>2. SuitesTyped
  BY FS_EmptySet, ActivationAssumption DEF Init, SuitesTyped
<1>3. ReceiptsTyped
  BY ActivationAssumption DEF Init, ReceiptsTyped, Policies, LiveReceipts, NoPolicy, NoReceipt
<1>4. TxTyped
  BY DEF Init, TxTyped, NoTx
<1>5. RefreshTyped
  <2>1. NoRefresh \in RefreshStates /\ NoRefresh.phase = "NONE"
    BY ActivationAssumption DEF NoRefresh, RefreshStates
  <2> QED
    BY <2>1 DEF Init, RefreshTyped
<1>6. ServiceTyped
  <2>1. running \in BOOLEAN
    BY DEF Init
  <2>2. attempts \in 0 .. MaxRestarts
    BY ActivationAssumption DEF Init
  <2>3. journal \in [Receipts -> {"none", "PREPARED", "STARTED", "ROLLED_BACK"}]
    BY DEF Init
  <2> QED
    BY <2>1, <2>2, <2>3 DEF Init, ServiceTyped
<1>7. ObserverTyped
  <2>1. [phase |-> "none", id |-> 0] \in Retirements
    BY ActivationAssumption DEF Retirements
  <2> QED
    BY <2>1 DEF Init, ObserverTyped
<1>8. faults \in 0 .. MaxFaults
  BY ActivationAssumption DEF Init
<1>9. stop # NoStop
  BY StopNames DEF Init
<1> QED
  BY <1>1, <1>2, <1>3, <1>4, <1>5, <1>6, <1>7, <1>8, <1>9
  DEF Init, ActivationInv, Typed, Identified, Working, Lifted

(* A suite that was run is found by its number, and has one.               *)
LEMMA SuiteFound ==
  ASSUME SuitesTyped, NEW n, \E s \in suites : s.id = n
  PROVE  /\ Suite(n) \in suites /\ Suite(n).id = n /\ n \in 1 .. MaxSuite
         /\ Suite(n).main \in Mains
<1>1. Suite(n) \in suites /\ Suite(n).id = n
  BY DEF Suite
<1> QED
  BY <1>1 DEF SuitesTyped

(* A new suite has the next number. *)
LEMMA SuiteAdded ==
  ASSUME SuitesTyped, StopTyped, Affordable, suites' = suites \cup {NewSuite}
  PROVE  /\ NewSuite.id \in 1 .. MaxSuite /\ NewSuite.main = main
         /\ suites' \subseteq [id : 1 .. MaxSuite, main : Mains] /\ IsFiniteSet(suites')
<1>1. Cardinality(suites) \in Nat /\ IsFiniteSet(suites')
  BY FS_CardinalityType, FS_AddElement DEF SuitesTyped
<1>2. NewSuite.id \in 1 .. MaxSuite /\ NewSuite.main = main /\ NewSuite \in [id : 1 .. MaxSuite, main : Mains]
  BY <1>1, ActivationAssumption DEF NewSuite, Affordable, StopTyped
<1> QED
  BY <1>1, <1>2 DEF SuitesTyped

(* Of any suites there is a newest. *)
LEMMA NewestFound ==
  ASSUME SuitesTyped, NEW S \in SUBSET suites, S # {}
  PROVE  Newest(S) \in S
<1> DEFINE D == {MaxSuite - s.id : s \in S}
<1>1. \A s \in S : s.id \in 1 .. MaxSuite
  BY DEF SuitesTyped
<1>2. D \subseteq Nat /\ D # {}
  BY <1>1, ActivationAssumption
<1>3. PICK d \in D : \A e \in D : ~(<<e, d>> \in OpToRel(<, Nat))
  <2> HIDE DEF D
  <2> QED
    BY <1>2, WFMin, NatLessThanWellFounded, Zenon
<1>4. \A e \in D : ~(e < d)
  <2>1. \A x \in Nat, y \in Nat : x < y => <<x, y>> \in OpToRel(<, Nat)
    BY DEF OpToRel
  <2> HIDE DEF D
  <2> QED
    BY <1>2, <1>3, <2>1
<1>5. PICK s \in S : d = MaxSuite - s.id
  OBVIOUS
<1>6. \A x \in S : x.id <= s.id
  <2>1. \A x \in S : ~(MaxSuite - x.id < MaxSuite - s.id)
    BY <1>4, <1>5
  <2> QED
    BY <1>1, <2>1, ActivationAssumption
<1> QED
  BY <1>6 DEF Newest

-----------------------------------------------------------------------------
(* Steps that leave transactions, start requests and the archive alone.    *)
LEMMA Elsewhere ==
  ASSUME ActivationInv, UNCHANGED <<txs, starts, archive>>,
         live'.id \in Nat,
         live'.id > live.id \/ (live'.id = live.id /\ live'.main = live.main),
         stop' = stop \/ (stop = NoStop /\ stop' # NoStop),
         sup' = sup \/ sup'.at \in {"idle", "rejected"}
  PROVE  Identified' /\ Working' /\ Lifted'
<1>1. Typed /\ Identified /\ Working /\ Lifted
  BY DEF ActivationInv
<1>2. \A x \in txs \cup starts \cup archive : x.id \in Nat /\ live.id \in Nat
  BY <1>1
  DEF Typed, TxTyped, ServiceTyped, ReceiptsTyped, Transactions, ArchivedStops, Receipts, LiveReceipts
<1>3. Identified'
  BY <1>1, <1>2 DEF Identified
<1>4. Lifted'
  BY <1>1 DEF Lifted, NewestTx, ArchiveIsValid
<1>5. Working'
  <2>1. CASE sup' = sup
    <3>1. ASSUME stop = NoStop, sup.at = "prepared" PROVE ArchiveOf(sup.tx) # {}
      <4>1. PICK t \in txs : NewestTx(t) /\ ArchiveIsValid(t)
        BY <1>1, <3>1 DEF Lifted
      <4>2. sup.tx \in txs /\ sup.tx.id <= t.id /\ t.id <= sup.tx.id
        BY <1>1, <3>1, <4>1 DEF Working, NewestTx
      <4>3. t = sup.tx
        BY <1>1, <1>2, <4>2 DEF Identified
      <4> QED
        BY <4>1, <4>3 DEF ArchiveIsValid, ArchiveOf
    <3>2. ArchiveOf(sup.tx)' = ArchiveOf(sup.tx)
      BY <2>1 DEF ArchiveOf
    <3> QED
      BY <1>1, <2>1, <3>1, <3>2 DEF Working, NewestTx
  <2>2. CASE sup'.at \in {"idle", "rejected"}
    BY <2>2 DEF Working
  <2> QED
    BY <2>1, <2>2
<1> QED
  BY <1>3, <1>4, <1>5

(* Machines under other accounts issue and expire receipts, and install a  *)
(* new main; the operator sets and clears PAUSE.                           *)
LEMMA MachinesKeep ==
  ASSUME ActivationInv, (Machines /\ UNCHANGED faults) \/ TogglePause
  PROVE  ActivationInv'
<1>0. /\ Typed /\ StopTyped /\ SuitesTyped /\ ReceiptsTyped /\ TxTyped /\ RefreshTyped
      /\ ServiceTyped /\ ObserverTyped /\ faults \in 0 .. MaxFaults
  BY DEF ActivationInv, Typed
<1>1. /\ UNCHANGED <<stop, suites, txs, oldTxs, archive, refresh, sup, starts, journal, running,
                     attempts, emitted, observed, retired, requests>>
  BY DEF Machines, IssuePolicy, IssueActivation, ExpireActivation, RefreshCommits, TogglePause,
     authorityVars, checkoutVars, txVars, serviceVars, observerVars
<1>2. TxTyped' /\ RefreshTyped' /\ ServiceTyped' /\ ObserverTyped'
  BY <1>0, <1>1 DEF TxTyped, RefreshTyped, ServiceTyped, ObserverTyped
<1>3. faults' \in 0 .. MaxFaults
  BY <1>0, ActivationAssumption DEF TogglePause, Fault
<1>4. SuitesTyped' /\ ReceiptsTyped'
      /\ (live'.id > live.id \/ (live'.id = live.id /\ live'.main = live.main))
  <2>0. live.id \in Nat /\ live' = live => live'.id = live.id /\ live'.main = live.main
    BY <1>0 DEF ReceiptsTyped, LiveReceipts
  <2>1. CASE IssuePolicy
    <3>1. /\ asked # 0 /\ policy.n < MaxReceipt /\ asked' = 0 /\ live' = live
          /\ policy' = [n |-> policy.n + 1, suite |-> asked, main |-> Suite(asked).main]
      BY <2>1 DEF IssuePolicy
    <3>2. Suite(asked).main \in Mains
      BY <1>0, <3>1, SuiteFound DEF SuitesTyped
    <3>3. policy' \in Policies /\ policy'.n # 0
      BY <1>0, <3>1, <3>2, ActivationAssumption DEF ReceiptsTyped, SuitesTyped, Policies, Mains
    <3> QED
      BY <1>0, <1>1, <2>0, <3>1, <3>3, ActivationAssumption DEF ReceiptsTyped, SuitesTyped
  <2>2. CASE IssueActivation
    <3>1. PICK r \in requests :
            /\ r.main = main /\ r.n > live.id
            /\ live' = [id |-> r.n, main |-> r.main, suite |-> r.suite, age |-> "fresh"]
      BY <2>2 DEF IssueActivation
    <3>2. r.n \in Receipts /\ r.suite \in 1 .. MaxSuite /\ r.main \in Mains
      BY <1>0 DEF ReceiptsTyped
    <3>3. live' \in LiveReceipts /\ live'.id # 0 /\ live'.id > live.id
      BY <3>1, <3>2, ActivationAssumption DEF LiveReceipts, Receipts, Mains
    <3> QED
      BY <1>0, <1>1, <2>2, <3>3 DEF IssueActivation, ReceiptsTyped, SuitesTyped
  <2>3. CASE ExpireActivation
    <3>1. live' = [live EXCEPT !.age = "expired"] /\ UNCHANGED <<policy, asked>>
      BY <2>3 DEF ExpireActivation
    <3>2. live' \in LiveReceipts /\ live'.id = live.id /\ live'.main = live.main
      BY <1>0, <3>1 DEF ReceiptsTyped, LiveReceipts
    <3> QED
      BY <1>0, <1>1, <3>1, <3>2 DEF ReceiptsTyped, SuitesTyped
  <2>4. CASE RefreshCommits \/ TogglePause
    BY <1>0, <1>1, <2>0, <2>4
    DEF RefreshCommits, TogglePause, authorityVars, ReceiptsTyped, SuitesTyped
  <2> QED
    BY <2>1, <2>2, <2>3, <2>4 DEF Machines
<1>5. StopTyped'
  <2>1. CASE RefreshCommits
    <3>1. main' \in Mains
      BY <1>0, <2>1, ActivationAssumption DEF RefreshCommits, StopTyped, Mains
    <3> QED
      BY <1>0, <1>1, <2>1, <3>1 DEF RefreshCommits, StopTyped
  <2>2. CASE IssuePolicy \/ IssueActivation \/ ExpireActivation \/ TogglePause
    BY <1>0, <1>1, <2>2
    DEF IssuePolicy, IssueActivation, ExpireActivation, TogglePause, checkoutVars, StopTyped
  <2> QED
    BY <2>1, <2>2 DEF Machines
<1>6. live'.id \in Nat
  BY <1>4 DEF ReceiptsTyped, LiveReceipts
<1>7. Identified' /\ Working' /\ Lifted'
  BY <1>1, <1>4, <1>6, Elsewhere
<1> QED
  BY <1>2, <1>3, <1>4, <1>5, <1>7 DEF ActivationInv, Typed

(* The controller exits or prints its events (record_controller_exit,      *)
(* emit_post_activation_events).                                           *)
LEMMA ControllerKeeps ==
  ASSUME ActivationInv, ControllerExit \/ EmitEvents, UNCHANGED faults
  PROVE  ActivationInv'
<1>0. /\ Typed /\ StopTyped /\ SuitesTyped /\ ReceiptsTyped /\ TxTyped /\ RefreshTyped
      /\ ServiceTyped /\ ObserverTyped /\ faults \in 0 .. MaxFaults
  BY DEF ActivationInv, Typed
<1>1. /\ UNCHANGED <<main, completions, suites, policy, asked, requests, live, txs, oldTxs, archive,
                     refresh, sup, starts, journal, observed, retired>>
      /\ emitted \subseteq emitted'
  BY DEF ControllerExit, EmitEvents, authorityVars, checkoutVars, txVars, serviceVars, observerVars
<1>2. /\ SuitesTyped' /\ ReceiptsTyped' /\ TxTyped' /\ RefreshTyped' /\ ObserverTyped'
      /\ faults' \in 0 .. MaxFaults
  BY <1>0, <1>1 DEF SuitesTyped, ReceiptsTyped, TxTyped, RefreshTyped, ObserverTyped
<1>3. controls' \subseteq {"PAUSE", "HARD_STUCK"} /\ (stop' = stop \/ (stop = NoStop /\ stop' = StuckStop))
  BY <1>0 DEF ControllerExit, EmitEvents, LauncherStops, StopTyped
<1>4. stop' \in Stops /\ (stop' = stop \/ (stop = NoStop /\ stop' # NoStop))
  BY <1>0, <1>3, StopNames DEF StopTyped
<1>5. running' \in BOOLEAN
  <2>1. StartAllowed \in BOOLEAN
    BY DEF StartAllowed
  <2> QED
    BY <1>0, <2>1 DEF ControllerExit, EmitEvents, ServiceTyped
<1>6. attempts' \in 0 .. MaxRestarts
  <2>1. attempts \in 0 .. MaxRestarts
    BY <1>0 DEF ServiceTyped
  <2>2. \/ attempts' \in {0, attempts}
        \/ \E used \in {0, attempts} : ~(used + 1 > MaxRestarts) /\ attempts' = used + 1
    BY DEF ControllerExit, EmitEvents, Counted, Exhausted
  <2> QED
    BY <2>1, <2>2, ActivationAssumption
<1>7. StopTyped' /\ ServiceTyped'
  BY <1>0, <1>1, <1>3, <1>4, <1>5, <1>6 DEF StopTyped, ServiceTyped
<1>8. Identified' /\ Working' /\ Lifted'
  BY <1>0, <1>1, <1>4, Elsewhere DEF ReceiptsTyped, LiveReceipts
<1> QED
  BY <1>2, <1>7, <1>8 DEF ActivationInv, Typed

(* The start broker starts what was requested, or rolls it back (process). *)
LEMMA BrokerKeeps ==
  ASSUME ActivationInv, BrokerStart \/ BrokerRollback
  PROVE  ActivationInv'
<1>0. /\ Typed /\ StopTyped /\ SuitesTyped /\ ReceiptsTyped /\ TxTyped /\ RefreshTyped
      /\ ServiceTyped /\ ObserverTyped /\ faults \in 0 .. MaxFaults
  BY DEF ActivationInv, Typed
<1>1. UNCHANGED <<main, completions, controls, suites, policy, asked, requests, live, txs, oldTxs,
                  archive, refresh, sup, starts, attempts, emitted, observed, retired>>
  BY DEF BrokerStart, BrokerRollback, authorityVars, checkoutVars, txVars, observerVars
<1>2. SuitesTyped' /\ ReceiptsTyped' /\ TxTyped' /\ RefreshTyped' /\ ObserverTyped'
  BY <1>0, <1>1 DEF SuitesTyped, ReceiptsTyped, TxTyped, RefreshTyped, ObserverTyped
<1>3. faults' \in 0 .. MaxFaults
  <2>1. faults' = faults \/ (faults < MaxFaults /\ faults' = faults + 1)
    BY DEF BrokerStart, BrokerRollback, Fault
  <2> QED
    BY <1>0, <2>1, ActivationAssumption
<1>4. stop' = stop \/ (stop = NoStop /\ stop' = RollbackStop)
  BY DEF BrokerStart, BrokerRollback, RestoredStop
<1>5. stop' \in Stops /\ (stop' = stop \/ (stop = NoStop /\ stop' # NoStop))
  BY <1>0, <1>4, StopNames DEF StopTyped
<1>6. running' \in BOOLEAN
  <2>1. Attested \in BOOLEAN /\ running \in BOOLEAN
    BY <1>0 DEF Attested, ServiceTyped
  <2> QED
    BY <2>1 DEF BrokerStart, BrokerRollback
<1>7. journal' \in [Receipts -> {"none", "PREPARED", "STARTED", "ROLLED_BACK"}]
  <2>1. PICK r \in starts :
          \E p \in {"PREPARED", "STARTED", "ROLLED_BACK", journal[r.id]} :
             journal' = [journal EXCEPT ![r.id] = p]
    BY DEF BrokerStart, BrokerRollback
  <2>2. r.id \in Receipts
    BY <1>0 DEF ServiceTyped
  <2> QED
    BY <1>0, <2>1, <2>2 DEF ServiceTyped
<1>8. StopTyped' /\ ServiceTyped'
  BY <1>0, <1>1, <1>5, <1>6, <1>7 DEF StopTyped, ServiceTyped
<1>9. Identified' /\ Working' /\ Lifted'
  BY <1>0, <1>1, <1>5, Elsewhere DEF ReceiptsTyped, LiveReceipts
<1> QED
  BY <1>2, <1>3, <1>8, <1>9 DEF ActivationInv, Typed

(* The observer confirms, or fails closed (observe).                       *)
LEMMA ObserverKeeps ==
  ASSUME ActivationInv,
         ObserveHolds \/ ((ObserveFails \/ ObserveDue) /\ UNCHANGED faults) \/ ObserverDies
  PROVE  ActivationInv'
<1>0. /\ Typed /\ StopTyped /\ SuitesTyped /\ ReceiptsTyped /\ TxTyped /\ RefreshTyped
      /\ ServiceTyped /\ ObserverTyped /\ faults \in 0 .. MaxFaults
  BY DEF ActivationInv, Typed
<1>1. UNCHANGED <<main, controls, suites, policy, asked, requests, live, txs, oldTxs,
                  archive, refresh, sup, starts, journal, attempts, emitted>>
  BY DEF ObserveHolds, ObserveFails, ObserveDue, ObserverDies, ObserveFailsClosed,
     authorityVars, checkoutVars, txVars, serviceVars
<1>2. SuitesTyped' /\ ReceiptsTyped' /\ TxTyped' /\ RefreshTyped'
  BY <1>0, <1>1 DEF SuitesTyped, ReceiptsTyped, TxTyped, RefreshTyped
<1>3. faults' \in 0 .. MaxFaults
  <2>1. faults' = faults \/ (faults < MaxFaults /\ faults' = faults + 1)
    BY DEF ObserveHolds, ObserverDies, Fault
  <2> QED
    BY <1>0, <2>1, ActivationAssumption
<1>4. stop' = stop \/ (stop = NoStop /\ stop' = RollbackStop)
  BY DEF ObserveHolds, ObserveFails, ObserveDue, ObserverDies, ObserveFailsClosed, RestoredStop
<1>5. stop' \in Stops /\ (stop' = stop \/ (stop = NoStop /\ stop' # NoStop))
  BY <1>0, <1>4, StopNames DEF StopTyped
<1>6. running' \in BOOLEAN
  BY <1>0 DEF ObserveHolds, ObserveFails, ObserveDue, ObserverDies, ObserveFailsClosed,
     ServiceTyped, serviceVars
<1>7. completions' \subseteq completions
  BY DEF ObserveHolds, ObserveFails, ObserveDue, ObserverDies, ObserveFailsClosed, checkoutVars
<1>8. observed' \subseteq emitted
  <2>1. observed' \subseteq observed \cup {live.id}
        /\ (observed' # observed => live.id \in observed \/ live.id \in emitted)
    BY DEF ObserveHolds, ObserveFails, ObserveDue, ObserverDies, ObserveFailsClosed,
       ObservationHolds, AlreadyObserved, RosterSeen
  <2> QED
    BY <1>0, <2>1 DEF ObserverTyped
<1>9. retired' \in [Mains -> Retirements]
  <2>1. retired \in [Mains -> Retirements] /\ main \in Mains /\ live.id \in 0 .. MaxReceipt
    BY <1>0 DEF ObserverTyped, StopTyped, ReceiptsTyped, LiveReceipts
  <2>2. \/ retired' = retired
        \/ \E phase \in {"PREPARED", "RETIRED"} :
              retired' = [retired EXCEPT ![main] = [phase |-> phase, id |-> live.id]]
    BY DEF ObserveHolds, ObserveFails, ObserveDue, ObserverDies, ObserveFailsClosed
  <2>3. \A phase \in {"PREPARED", "RETIRED"} : [phase |-> phase, id |-> live.id] \in Retirements
    BY <2>1 DEF Retirements
  <2> QED
    BY <2>1, <2>2, <2>3
<1>10. StopTyped' /\ ServiceTyped' /\ ObserverTyped'
  BY <1>0, <1>1, <1>5, <1>6, <1>7, <1>8, <1>9 DEF StopTyped, ServiceTyped, ObserverTyped
<1>11. Identified' /\ Working' /\ Lifted'
  BY <1>0, <1>1, <1>5, Elsewhere DEF ReceiptsTyped, LiveReceipts
<1> QED
  BY <1>2, <1>3, <1>10, <1>11 DEF ActivationInv, Typed

(* A tick that ends or dies forgets where it was (EndTick).                *)
LEMMA EndTickKeeps ==
  ASSUME ActivationInv, EndTick PROVE ActivationInv'
<1>0. /\ Typed /\ StopTyped /\ SuitesTyped /\ ReceiptsTyped /\ TxTyped /\ RefreshTyped
      /\ ServiceTyped /\ ObserverTyped /\ faults \in 0 .. MaxFaults
  BY DEF ActivationInv, Typed
<1>1. /\ UNCHANGED <<main, completions, stop, controls, suites, policy, asked, requests, live, txs,
                     oldTxs, archive, refresh, starts, journal, running, attempts, emitted, observed, retired>>
      /\ sup' = [at |-> "idle", tx |-> NoTx]
  BY DEF EndTick, authorityVars, checkoutVars, txVars, serviceVars, observerVars
<1>2. /\ StopTyped' /\ SuitesTyped' /\ ReceiptsTyped' /\ TxTyped' /\ RefreshTyped'
      /\ ServiceTyped' /\ ObserverTyped'
  BY <1>0, <1>1
  DEF StopTyped, SuitesTyped, ReceiptsTyped, TxTyped, RefreshTyped, ServiceTyped, ObserverTyped
<1>3. faults' \in 0 .. MaxFaults
  <2>1. faults' = faults \/ (faults < MaxFaults /\ faults' = faults + 1)
    BY DEF EndTick, Fault
  <2> QED
    BY <1>0, <2>1, ActivationAssumption
<1>4. Identified' /\ Working' /\ Lifted'
  BY <1>0, <1>1, Elsewhere DEF ReceiptsTyped, LiveReceipts
<1> QED
  BY <1>2, <1>3, <1>4 DEF ActivationInv, Typed

(* A completion is received, and canaries are run for it                   *)
(* (_process_refresh_activation).                                          *)
LEMMA RefreshKeeps ==
  ASSUME ActivationInv, RefreshReceived \/ RefreshRestart \/ RefreshCanaries, UNCHANGED faults
  PROVE  ActivationInv'
<1>0. /\ Typed /\ StopTyped /\ SuitesTyped /\ ReceiptsTyped /\ TxTyped /\ RefreshTyped
      /\ ServiceTyped /\ ObserverTyped /\ faults \in 0 .. MaxFaults
  BY DEF ActivationInv, Typed
<1>1. UNCHANGED <<main, completions, controls, policy, asked, requests, live, txs,
                  oldTxs, archive, starts, sup, journal, running, attempts, emitted, observed, retired>>
  BY DEF RefreshReceived, RefreshRestart, RefreshCanaries, authorityVars, checkoutVars,
     serviceVars, observerVars
<1>2. ReceiptsTyped' /\ TxTyped' /\ ServiceTyped' /\ ObserverTyped'
  BY <1>0, <1>1 DEF ReceiptsTyped, TxTyped, ServiceTyped, ObserverTyped
<1>3. stop' = stop \/ (stop = NoStop /\ stop' = RefreshStop(main))
  BY DEF RefreshReceived, RefreshRestart, RefreshCanaries
<1>4. stop' \in Stops /\ (stop' = stop \/ (stop = NoStop /\ stop' # NoStop))
  BY <1>0, <1>3, StopNames DEF StopTyped
<1>5. \/ suites' = suites
      \/ Affordable /\ suites' = suites \cup {NewSuite}
  BY DEF RefreshReceived, RefreshRestart, RefreshCanaries, authorityVars
<1>6. SuitesTyped' /\ suites \subseteq suites'
  BY <1>0, <1>1, <1>5, SuiteAdded DEF SuitesTyped
<1>7. PICK e : /\ refresh' = [refresh EXCEPT ![main] = e] /\ e \in RefreshStates
               /\ e.phase = "CANARIES_PASSED" => \E s \in suites' : s.id = e.suite
  <2>1. Received \in RefreshStates /\ Received.phase = "RECEIVED"
    BY ActivationAssumption DEF Received, RefreshStates
  <2>2. CASE refresh' = [refresh EXCEPT ![main] = Received]
    BY <2>1, <2>2
  <2>3. CASE RefreshRestart /\ refresh' # [refresh EXCEPT ![main] = Received]
    <3> DEFINE e == [Received EXCEPT !.phase = "CANARIES_PASSED", !.suite = NewSuite.id]
    <3>1. refresh' = [refresh EXCEPT ![main] = e] /\ Affordable /\ suites' = suites \cup {NewSuite}
      BY <2>3 DEF RefreshRestart
    <3>2. NewSuite.id \in 1 .. MaxSuite
      BY <1>0, <3>1, SuiteAdded
    <3>3. e \in RefreshStates /\ e.suite = NewSuite.id
      <4> DEFINE n == NewSuite.id
      <4>1. n \in 0 .. MaxSuite
        BY <3>2, ActivationAssumption
      <4> HIDE DEF n
      <4>2. [Received EXCEPT !.phase = "CANARIES_PASSED", !.suite = n] \in RefreshStates
            /\ [Received EXCEPT !.phase = "CANARIES_PASSED", !.suite = n].suite = n
        BY <2>1, <4>1 DEF RefreshStates
      <4> QED
        BY <4>2 DEF n
    <3> HIDE DEF e
    <3> QED
      BY <3>1, <3>3
  <2>4. CASE RefreshCanaries
    <3>1. PICK s \in suites' :
            refresh' = [refresh EXCEPT ![main] = [@ EXCEPT !.phase = "CANARIES_PASSED",
                                                           !.suite = s.id]]
      BY <2>4 DEF RefreshCanaries
    <3> DEFINE e == [refresh[main] EXCEPT !.phase = "CANARIES_PASSED", !.suite = s.id]
    <3>2. refresh' = [refresh EXCEPT ![main] = e]
      BY <3>1
    <3>3. s.id \in 1 .. MaxSuite
      BY <1>6 DEF SuitesTyped
    <3>4. refresh[main] \in RefreshStates
      BY <1>0 DEF RefreshTyped, StopTyped
    <3>5. e \in RefreshStates /\ e.suite = s.id
      <4> DEFINE n == s.id
                 x == refresh[main]
      <4>1. n \in 0 .. MaxSuite /\ x \in RefreshStates
        BY <3>3, <3>4, ActivationAssumption
      <4> HIDE DEF n, x
      <4>2. [x EXCEPT !.phase = "CANARIES_PASSED", !.suite = n] \in RefreshStates
            /\ [x EXCEPT !.phase = "CANARIES_PASSED", !.suite = n].suite = n
        BY <4>1 DEF RefreshStates
      <4> QED
        BY <4>2 DEF n, x
    <3> HIDE DEF e
    <3> QED
      BY <3>2, <3>5
  <2> QED
    BY <2>2, <2>3, <2>4 DEF RefreshReceived
<1>8. RefreshTyped'
  <2>1. refresh \in [Mains -> RefreshStates] /\ main \in Mains
    BY <1>0 DEF RefreshTyped, StopTyped
  <2>2. /\ refresh' \in [Mains -> RefreshStates] /\ refresh'[main] = e
        /\ \A m \in Mains : m # main => refresh'[m] = refresh[m]
    BY <1>7, <2>1
  <2> QED
    BY <1>0, <1>6, <1>7, <2>2 DEF RefreshTyped
<1>9. StopTyped'
  BY <1>0, <1>1, <1>4 DEF StopTyped
<1>10. Identified' /\ Working' /\ Lifted'
  BY <1>0, <1>1, <1>4, Elsewhere DEF ReceiptsTyped, LiveReceipts
<1> QED
  BY <1>0, <1>2, <1>6, <1>8, <1>9, <1>10 DEF ActivationInv, Typed

(* A policy receipt is asked for, or the activation request is staged and  *)
(* the consumed transaction retired (coordinate_activation_policy_request, *)
(* stage_activation_request).                                              *)
LEMMA RequestKeeps ==
  ASSUME ActivationInv, RefreshRequest \/ DirectRequest, UNCHANGED faults
  PROVE  ActivationInv'
<1>0. /\ Typed /\ StopTyped /\ SuitesTyped /\ ReceiptsTyped /\ TxTyped /\ RefreshTyped
      /\ ServiceTyped /\ ObserverTyped /\ faults \in 0 .. MaxFaults
      /\ Identified /\ Working /\ Lifted
  BY DEF ActivationInv, Typed
<1>1. /\ UNCHANGED <<main, completions, stop, controls, policy, live, archive, starts, journal,
                     running, attempts, emitted, observed, retired>>
      /\ sup.at \in {"idle", "rejected"} /\ sup' \in {sup, [at |-> "idle", tx |-> NoTx]}
  BY DEF RefreshRequest, DirectRequest, Idle, Unactivated, checkoutVars, serviceVars, observerVars
<1>2. ASSUME NEW s \in suites, StageRequest(s)
      PROVE  /\ stop # NoStop /\ txs' = {} /\ oldTxs' = oldTxs \cup txs
             /\ requests' \subseteq [n : Receipts, suite : 1 .. MaxSuite, main : Mains]
  <2>1. /\ stop # NoStop /\ policy.suite = s.id /\ txs' = {} /\ oldTxs' = oldTxs \cup txs
        /\ requests' = requests \cup {[n |-> policy.n, suite |-> s.id, main |-> main]}
    BY <1>2 DEF StageRequest, Stageable, PolicyBinds
  <2>2. s.id \in 1 .. MaxSuite /\ main \in Mains
    BY <1>0 DEF SuitesTyped, StopTyped
  <2>3. policy.n \in 1 .. MaxReceipt
    BY <1>0, <2>1, <2>2, ActivationAssumption DEF ReceiptsTyped, Policies
  <2> QED
    BY <1>0, <2>1, <2>2, <2>3 DEF ReceiptsTyped, Receipts
<1>3. /\ suites \subseteq suites' /\ suites' \subseteq [id : 1 .. MaxSuite, main : Mains]
      /\ IsFiniteSet(suites') /\ asked' \in 0 .. MaxSuite
      /\ asked' # 0 => \E s \in suites' : s.id = asked'
      /\ \/ UNCHANGED <<requests, txs, oldTxs>>
         \/ /\ stop # NoStop /\ txs' = {} /\ oldTxs' = oldTxs \cup txs
            /\ requests' \subseteq [n : Receipts, suite : 1 .. MaxSuite, main : Mains]
  <2>1. CASE RefreshRequest
    <3>1. PICK s \in suites :
            /\ \/ asked' = s.id /\ UNCHANGED <<requests, txs, oldTxs>>
               \/ StageRequest(s) /\ UNCHANGED asked
            /\ suites' = suites
      <4>1. refresh[main].phase = "CANARIES_PASSED"
        BY <2>1 DEF RefreshRequest, RS
      <4>2. Suite(RS.suite) \in suites
        BY <1>0, <4>1, SuiteFound DEF RefreshTyped, StopTyped, RS
      <4> QED
        BY <2>1, <4>2 DEF RefreshRequest
    <3>2. s.id \in 0 .. MaxSuite
      BY <1>0 DEF SuitesTyped
    <3> QED
      BY <1>0, <1>2, <3>1, <3>2 DEF SuitesTyped
  <2>2. CASE DirectRequest
    <3>1. PICK old \in SUBSET suites, due \in BOOLEAN :
            LET wanting == {s \in suites : WantsPolicy(s, due, s \in old)}
                staged == {s \in suites : Stageable(s)}
            IN  \/ /\ wanting # {} /\ asked' = Newest(wanting).id
                   /\ UNCHANGED <<suites, requests, txs, oldTxs>>
                \/ /\ wanting = {} /\ staged # {} /\ StageRequest(Newest(staged))
                   /\ UNCHANGED <<suites, asked>>
                \/ /\ wanting = {} /\ staged = {} /\ Affordable
                   /\ suites' = suites \cup {NewSuite} /\ asked' = NewSuite.id
                   /\ UNCHANGED <<requests, txs, oldTxs>>
      BY <2>2 DEF DirectRequest
    <3> DEFINE wanting == {s \in suites : WantsPolicy(s, due, s \in old)}
               staged == {s \in suites : Stageable(s)}
    <3>2. wanting \subseteq suites /\ staged \subseteq suites
      OBVIOUS
    <3>3. \/ /\ wanting # {} /\ asked' = Newest(wanting).id
             /\ UNCHANGED <<suites, requests, txs, oldTxs>>
          \/ /\ staged # {} /\ StageRequest(Newest(staged)) /\ UNCHANGED <<suites, asked>>
          \/ /\ Affordable /\ suites' = suites \cup {NewSuite} /\ asked' = NewSuite.id
             /\ UNCHANGED <<requests, txs, oldTxs>>
      BY <3>1
    <3> HIDE DEF wanting, staged
    <3>4. CASE wanting # {} /\ asked' = Newest(wanting).id /\ UNCHANGED <<suites, requests, txs, oldTxs>>
      <4>1. Newest(wanting) \in suites
        BY <1>0, <3>2, <3>4, NewestFound
      <4>2. Newest(wanting).id \in 0 .. MaxSuite
        BY <1>0, <4>1 DEF SuitesTyped
      <4> QED
        BY <1>0, <3>4, <4>1, <4>2 DEF SuitesTyped
    <3>5. CASE staged # {} /\ StageRequest(Newest(staged)) /\ UNCHANGED <<suites, asked>>
      <4>1. Newest(staged) \in suites
        BY <1>0, <3>2, <3>5, NewestFound
      <4> QED
        BY <1>0, <1>2, <3>5, <4>1 DEF SuitesTyped
    <3>6. CASE /\ Affordable /\ suites' = suites \cup {NewSuite} /\ asked' = NewSuite.id
               /\ UNCHANGED <<requests, txs, oldTxs>>
      BY <1>0, <3>6, SuiteAdded
    <3> QED
      BY <3>3, <3>4, <3>5, <3>6
  <2> QED
    BY <2>1, <2>2
<1>4. StopTyped' /\ SuitesTyped' /\ ReceiptsTyped' /\ ServiceTyped' /\ ObserverTyped'
  BY <1>0, <1>1, <1>3
  DEF StopTyped, SuitesTyped, ReceiptsTyped, ServiceTyped, ObserverTyped
<1>5. TxTyped'
  <2>1. txs' \cup oldTxs' \subseteq Transactions
    BY <1>0, <1>3 DEF TxTyped
  <2>2. sup' \in [at : {"idle", "prepared", "archived", "rejected"}, tx : Transactions \cup {NoTx}]
    BY <1>0, <1>1 DEF TxTyped
  <2> QED
    BY <1>0, <1>1, <2>1, <2>2 DEF TxTyped
<1>6. RefreshTyped'
  <2>1. CASE UNCHANGED refresh
    BY <1>0, <1>3, <2>1 DEF RefreshTyped
  <2>2. CASE refresh' = [refresh EXCEPT ![main] = [@ EXCEPT !.phase = "REQUEST_SUBMITTED",
                                                            !.req = policy.n]]
    <3> DEFINE e == [refresh[main] EXCEPT !.phase = "REQUEST_SUBMITTED", !.req = policy.n]
    <3>1. refresh' = [refresh EXCEPT ![main] = e]
      BY <2>2
    <3>2. refresh \in [Mains -> RefreshStates] /\ main \in Mains /\ refresh[main] \in RefreshStates
          /\ policy.n \in 0 .. MaxReceipt
      BY <1>0 DEF RefreshTyped, StopTyped, ReceiptsTyped, Policies
    <3>3. e \in RefreshStates /\ e.phase = "REQUEST_SUBMITTED"
      BY <3>2 DEF RefreshStates
    <3> HIDE DEF e
    <3>4. /\ refresh' \in [Mains -> RefreshStates] /\ refresh'[main] = e
          /\ \A m \in Mains : m # main => refresh'[m] = refresh[m]
      BY <3>1, <3>2, <3>3
    <3> QED
      BY <1>0, <1>3, <3>3, <3>4 DEF RefreshTyped
  <2> QED
    BY <2>1, <2>2 DEF RefreshRequest, DirectRequest
<1>7. Identified'
  BY <1>0, <1>1, <1>3 DEF Identified
<1>8. Working' /\ Lifted'
  BY <1>0, <1>1, <1>3 DEF Working, Lifted, NewestTx, ArchiveIsValid
<1> QED
  BY <1>0, <1>4, <1>5, <1>6, <1>7, <1>8 DEF ActivationInv, Typed

(* The start request of an activated transaction                           *)
(* (stage_controller_start_request).                                       *)
LEMMA StageStartKeeps ==
  ASSUME StopTyped, RefreshTyped, ServiceTyped, NEW t \in Transactions, StageStart(t),
         UNCHANGED <<suites, journal, running, attempts>>
  PROVE  /\ RefreshTyped' /\ ServiceTyped'
         /\ starts' = starts \cup {[id |-> t.id, main |-> t.main]}
         /\ sup' = [at |-> "idle", tx |-> NoTx]
<1>1. /\ starts' = starts \cup {[id |-> t.id, main |-> t.main]}
      /\ sup' = [at |-> "idle", tx |-> NoTx]
  BY DEF StageStart
<1>2. ServiceTyped'
  BY <1>1 DEF ServiceTyped, Transactions
<1>3. RefreshTyped'
  <2>1. CASE UNCHANGED refresh
    BY <2>1 DEF RefreshTyped
  <2>2. CASE refresh' = [refresh EXCEPT ![main] = [@ EXCEPT !.phase = "START_REQUESTED", !.tx = t.id]]
    <3> DEFINE n == t.id
               x == refresh[main]
               e == [x EXCEPT !.phase = "START_REQUESTED", !.tx = n]
    <3>1. n \in 0 .. MaxReceipt /\ x \in RefreshStates
      BY ActivationAssumption DEF Transactions, Receipts, RefreshTyped, StopTyped
    <3>2. refresh' = [refresh EXCEPT ![main] = e]
      BY <2>2
    <3> HIDE DEF n, x
    <3>3. e \in RefreshStates /\ e.phase = "START_REQUESTED"
      BY <3>1 DEF RefreshStates
    <3> HIDE DEF e
    <3>4. /\ refresh' \in [Mains -> RefreshStates] /\ refresh'[main] = e
          /\ \A m \in Mains : m # main => refresh'[m] = refresh[m]
      BY <3>2, <3>3 DEF RefreshTyped, StopTyped
    <3> QED
      BY <3>3, <3>4 DEF RefreshTyped
  <2> QED
    BY <2>1, <2>2 DEF StageStart
<1> QED
  BY <1>1, <1>2, <1>3

(* PREPARED is written for the live receipt, or its transaction found      *)
(* (_activate_v31_locked).                                                 *)
LEMMA BeginKeeps ==
  ASSUME ActivationInv, NEW s, BeginActivation(s), UNCHANGED faults
  PROVE  ActivationInv'
<1>0. /\ Typed /\ StopTyped /\ SuitesTyped /\ ReceiptsTyped /\ TxTyped /\ RefreshTyped
      /\ ServiceTyped /\ ObserverTyped /\ faults \in 0 .. MaxFaults
      /\ Identified /\ Working /\ Lifted
  BY DEF ActivationInv, Typed
<1>1. UNCHANGED <<main, completions, stop, controls, suites, policy, asked, requests, live,
                  oldTxs, archive, journal, running, attempts, emitted, observed, retired>>
  BY DEF BeginActivation, checkoutVars, authorityVars, observerVars
<1>2. StopTyped' /\ SuitesTyped' /\ ReceiptsTyped' /\ ObserverTyped'
  BY <1>0, <1>1 DEF StopTyped, SuitesTyped, ReceiptsTyped, ObserverTyped
<1>3. live.main = main /\ live.suite = s.id /\ live.id \in Receipts
  <2>1. live.main = main /\ live.suite = s.id
    BY DEF BeginActivation, Activatable
  <2>2. main # 0 /\ live.id \in 0 .. MaxReceipt
    BY <1>0 DEF StopTyped, Mains, ReceiptsTyped, LiveReceipts
  <2> QED
    BY <1>0, <2>1, <2>2, ActivationAssumption DEF ReceiptsTyped, Receipts
<1>4. \A x \in txs \cup starts \cup archive : x.id \in Nat /\ x.id <= live.id
  BY <1>0 DEF Identified, TxTyped, ServiceTyped, Transactions, ArchivedStops, Receipts
<1>5. CASE Existing # {}
  <2> DEFINE t == CHOOSE x \in Existing : TRUE
  <2>1. t \in txs /\ t.id = live.id
    BY <1>5 DEF Existing
  <2>2. /\ t.main = main
        /\ stop = NoStop \/ t.stop = stop
        /\ t.phase = "ACTIVATED" => stop = NoStop /\ ArchiveIsValid(t)
    <3>1. PICK u \in Existing :
            /\ u.main = main
            /\ stop = NoStop \/ u.stop = stop
            /\ u.phase = "ACTIVATED" => stop = NoStop /\ ArchiveIsValid(u)
      BY <1>5 DEF BeginActivation, Activatable
    <3>2. u = t
      BY <1>0, <2>1, <3>1 DEF Existing, Identified
    <3> QED
      BY <3>1, <3>2
  <2>3. \/ t.phase = "ACTIVATED" /\ StageStart(t) /\ UNCHANGED txs
        \/ /\ txs' = txs \cup {t} /\ sup' = [at |-> "prepared", tx |-> t]
           /\ UNCHANGED <<starts, refresh>>
    BY <1>5 DEF BeginActivation
  <2> HIDE DEF t
  <2>4. t \in Transactions /\ NewestTx(t)
    BY <1>0, <1>4, <2>1 DEF TxTyped, NewestTx
  <2>5. CASE t.phase = "ACTIVATED" /\ StageStart(t) /\ UNCHANGED txs
    <3>1. /\ RefreshTyped' /\ ServiceTyped'
          /\ starts' = starts \cup {[id |-> t.id, main |-> t.main]}
          /\ sup' = [at |-> "idle", tx |-> NoTx]
      BY <1>0, <1>1, <2>4, <2>5, StageStartKeeps
    <3>2. TxTyped'
      BY <1>0, <1>1, <2>5, <3>1 DEF TxTyped
    <3>3. Identified'
      <4>1. \A x \in starts' : x \in starts \/ (x.id = t.id /\ x.main = t.main)
        BY <3>1
      <4> QED
        BY <1>0, <1>1, <2>1, <2>5, <4>1 DEF Identified
    <3>4. Lifted'
      <4>1. \E a \in archive : a.id = t.id
        BY <2>2, <2>5 DEF ArchiveIsValid
      <4>2. \A x \in starts' : x \in starts \/ x.id = t.id
        BY <3>1
      <4> QED
        BY <1>0, <1>1, <2>5, <4>1, <4>2 DEF Lifted, NewestTx, ArchiveIsValid
    <3>5. Working'
      BY <3>1 DEF Working
    <3> QED
      BY <1>0, <1>2, <3>1, <3>2, <3>3, <3>4, <3>5 DEF ActivationInv, Typed
  <2>6. CASE /\ txs' = txs \cup {t} /\ sup' = [at |-> "prepared", tx |-> t]
             /\ UNCHANGED <<starts, refresh>>
    <3>1. txs' = txs
      BY <2>1, <2>6
    <3>2. TxTyped' /\ RefreshTyped' /\ ServiceTyped'
      BY <1>0, <1>1, <2>4, <2>6, <3>1 DEF TxTyped, RefreshTyped, ServiceTyped
    <3>3. Identified' /\ Lifted'
      BY <1>0, <1>1, <2>6, <3>1 DEF Identified, Lifted, NewestTx, ArchiveIsValid
    <3>4. Working'
      BY <1>1, <2>2, <2>4, <2>6, <3>1 DEF Working, NewestTx
    <3> QED
      BY <1>0, <1>2, <3>2, <3>3, <3>4 DEF ActivationInv, Typed
  <2> QED
    BY <2>3, <2>5, <2>6
<1>6. CASE Existing = {}
  <2> DEFINE t == [id |-> live.id, main |-> main, suite |-> s.id, stop |-> stop, phase |-> "PREPARED"]
  <2>1. stop # NoStop /\ txs' = txs \cup {t} /\ sup' = [at |-> "prepared", tx |-> t]
        /\ UNCHANGED <<starts, refresh>>
    BY <1>6 DEF BeginActivation, Activatable
  <2>2. t \in Transactions
    BY <1>0, <1>3 DEF Transactions, StopTyped, ReceiptsTyped, LiveReceipts
  <2>3. t.id = live.id /\ t.main = live.main /\ t.stop = stop
    BY <1>3
  <2> HIDE DEF t
  <2>4. \A u \in txs : u.id # t.id
    BY <1>6, <2>3 DEF Existing
  <2>5. TxTyped' /\ RefreshTyped' /\ ServiceTyped'
    <3>1. txs' \cup oldTxs' \subseteq Transactions
      BY <1>0, <1>1, <2>1, <2>2 DEF TxTyped
    <3> QED
      BY <1>0, <1>1, <2>1, <2>2, <3>1 DEF TxTyped, RefreshTyped, ServiceTyped
  <2>6. Identified'
    <3>1. t.id \in Nat
      BY <1>3, <2>3 DEF Receipts
    <3> QED
      BY <1>0, <1>1, <2>1, <2>3, <2>4, <3>1 DEF Identified
  <2>7. t \in txs' /\ \A u \in txs' : u.id <= t.id
    BY <1>3, <1>4, <2>1, <2>3 DEF Receipts
  <2>8. sup'.tx = t
    BY <2>1
  <2>9. Working' /\ Lifted'
    BY <1>0, <1>1, <2>1, <2>3, <2>7, <2>8 DEF Working, Lifted, NewestTx
  <2> QED
    BY <1>0, <1>2, <2>5, <2>6, <2>9 DEF ActivationInv, Typed
<1> QED
  BY <1>5, <1>6

(* STOP is moved to the archive, once for a receipt (_archive_stop).       *)
LEMMA ArchiveKeeps ==
  ASSUME ActivationInv, ArchiveStop, UNCHANGED faults
  PROVE  ActivationInv'
<1>0. /\ Typed /\ StopTyped /\ SuitesTyped /\ ReceiptsTyped /\ TxTyped /\ RefreshTyped
      /\ ServiceTyped /\ ObserverTyped /\ faults \in 0 .. MaxFaults
      /\ Identified /\ Working /\ Lifted
  BY DEF ActivationInv, Typed
<1>1. /\ UNCHANGED <<main, completions, controls, suites, policy, asked, requests, live, txs,
                     oldTxs, refresh, starts, journal, running, attempts, emitted, observed, retired>>
      /\ sup.at = "prepared"
  BY DEF ArchiveStop, checkoutVars, authorityVars, serviceVars, observerVars
<1>2. SuitesTyped' /\ ReceiptsTyped' /\ RefreshTyped' /\ ServiceTyped' /\ ObserverTyped'
  BY <1>0, <1>1 DEF SuitesTyped, ReceiptsTyped, RefreshTyped, ServiceTyped, ObserverTyped
<1>3. NewestTx(sup.tx) /\ sup.tx \in txs /\ sup.tx \in Transactions
  BY <1>0, <1>1 DEF Working, NewestTx, TxTyped
<1>4. CASE /\ stop # NoStop /\ ArchiveOf(sup.tx) = {}
           /\ archive' = archive \cup {[id |-> sup.tx.id, main |-> sup.tx.main, stop |-> stop]}
           /\ stop' = NoStop
           /\ sup' = [sup EXCEPT !.at = "archived"]
  <2> DEFINE a == [id |-> sup.tx.id, main |-> sup.tx.main, stop |-> stop]
  <2>1. sup'.tx = sup.tx /\ sup'.at = "archived"
        /\ sup' \in [at : {"idle", "prepared", "archived", "rejected"}, tx : Transactions \cup {NoTx}]
    BY <1>0, <1>4 DEF TxTyped
  <2>2. a \in ArchivedStops /\ a.id = sup.tx.id /\ a.main = sup.tx.main
    BY <1>0, <1>3, <1>4 DEF ArchivedStops, Transactions, StopTyped
  <2>3. sup.tx.stop = stop
    BY <1>0, <1>1, <1>4 DEF Working
  <2>4. [id |-> sup.tx.id, main |-> sup.tx.main, stop |-> sup.tx.stop] \in archive'
    BY <1>4, <2>3
  <2>5. archive' = archive \cup {a}
    BY <1>4
  <2> HIDE DEF a
  <2>6. TxTyped'
    BY <1>0, <1>1, <2>1, <2>2, <2>5 DEF TxTyped
  <2>7. StopTyped'
    BY <1>0, <1>1, <1>4, StopNames DEF StopTyped
  <2>8. Identified'
    BY <1>0, <1>1, <1>3, <2>2, <2>5 DEF Identified
  <2>9. Working'
    BY <1>1, <1>3, <2>1 DEF Working, NewestTx
  <2>10. Lifted'
    <3>1. \E u \in txs' : NewestTx(u)' /\ ArchiveIsValid(u)'
      BY <1>1, <1>3, <2>4 DEF NewestTx, ArchiveIsValid
    <3> QED
      BY <1>0, <1>1, <2>5, <3>1 DEF Lifted
  <2> QED
    BY <1>0, <1>2, <2>6, <2>7, <2>8, <2>9, <2>10 DEF ActivationInv, Typed
<1>5. CASE sup' = [sup EXCEPT !.at = "archived"] /\ UNCHANGED <<stop, archive>>
  <2>1. sup'.tx = sup.tx /\ sup'.at = "archived"
        /\ sup' \in [at : {"idle", "prepared", "archived", "rejected"}, tx : Transactions \cup {NoTx}]
    BY <1>0, <1>5 DEF TxTyped
  <2>2. StopTyped' /\ TxTyped' /\ Identified' /\ Lifted'
    BY <1>0, <1>1, <1>5, <2>1 DEF StopTyped, TxTyped, Identified, Lifted, NewestTx, ArchiveIsValid
  <2>3. Working'
    BY <1>1, <1>3, <2>1 DEF Working, NewestTx
  <2> QED
    BY <1>0, <1>2, <2>2, <2>3 DEF ActivationInv, Typed
<1>6. CASE sup' = Rejected /\ UNCHANGED <<stop, archive>>
  <2>1. sup'.at \in {"idle", "rejected"} /\ sup'.tx = NoTx
        /\ sup' \in [at : {"idle", "prepared", "archived", "rejected"}, tx : Transactions \cup {NoTx}]
    BY <1>6 DEF Rejected
  <2>2. StopTyped' /\ TxTyped'
    BY <1>0, <1>1, <1>6, <2>1 DEF StopTyped, TxTyped
  <2>3. Identified' /\ Working' /\ Lifted'
    BY <1>0, <1>1, <1>6, <2>1, Elsewhere DEF ReceiptsTyped, LiveReceipts
  <2> QED
    BY <1>0, <1>2, <2>2, <2>3 DEF ActivationInv, Typed
<1> QED
  BY <1>4, <1>5, <1>6 DEF ArchiveStop

(* ACTIVATED is written and the start requested (_activate_v31_locked).    *)
LEMMA WriteKeeps ==
  ASSUME ActivationInv, WriteActivated PROVE ActivationInv'
<1>0. /\ Typed /\ StopTyped /\ SuitesTyped /\ ReceiptsTyped /\ TxTyped /\ RefreshTyped
      /\ ServiceTyped /\ ObserverTyped /\ faults \in 0 .. MaxFaults
      /\ Identified /\ Working /\ Lifted
  BY DEF ActivationInv, Typed
<1> DEFINE t == [sup.tx EXCEPT !.phase = "ACTIVATED"]
<1>1. /\ UNCHANGED <<main, completions, stop, controls, suites, policy, asked, requests, live,
                     oldTxs, archive, journal, running, attempts, emitted, observed, retired>>
      /\ sup.at = "archived" /\ txs' = (txs \ {sup.tx}) \cup {t}
  BY DEF WriteActivated, checkoutVars, authorityVars, observerVars
<1>2. StopTyped' /\ SuitesTyped' /\ ReceiptsTyped' /\ ObserverTyped'
  BY <1>0, <1>1 DEF StopTyped, SuitesTyped, ReceiptsTyped, ObserverTyped
<1>3. NewestTx(sup.tx) /\ sup.tx \in txs /\ sup.tx \in Transactions
  BY <1>0, <1>1 DEF Working, NewestTx, TxTyped
<1>4. t \in Transactions /\ t.id = sup.tx.id /\ t.main = sup.tx.main /\ t.stop = sup.tx.stop
  BY <1>3 DEF Transactions
<1>5. \/ ArchiveIsValid(t) /\ StageStart(t) /\ UNCHANGED faults
      \/ sup'.at \in {"idle", "rejected"} /\ sup'.tx = NoTx /\ UNCHANGED <<starts, refresh>>
         /\ sup' \in [at : {"idle", "rejected"}, tx : {NoTx}]
  BY DEF WriteActivated, Rejected
<1>6. faults' \in 0 .. MaxFaults
  <2>1. faults' = faults \/ (faults < MaxFaults /\ faults' = faults + 1)
    BY DEF WriteActivated, Fault
  <2> QED
    BY <1>0, <2>1, ActivationAssumption
<1> HIDE DEF t
<1>7. /\ RefreshTyped' /\ ServiceTyped'
      /\ \A x \in starts' : \/ x \in starts
                            \/ x.id = t.id /\ x.main = t.main /\ ArchiveIsValid(t)
      /\ sup' \in [at : {"idle", "rejected"}, tx : {NoTx}]
  <2>1. CASE ArchiveIsValid(t) /\ StageStart(t)
    <3>1. /\ RefreshTyped' /\ ServiceTyped'
          /\ starts' = starts \cup {[id |-> t.id, main |-> t.main]}
          /\ sup' = [at |-> "idle", tx |-> NoTx]
      BY <1>0, <1>1, <1>4, <2>1, StageStartKeeps
    <3> QED
      BY <2>1, <3>1
  <2>2. CASE UNCHANGED <<starts, refresh>> /\ sup' \in [at : {"idle", "rejected"}, tx : {NoTx}]
    BY <1>0, <1>1, <2>2 DEF RefreshTyped, ServiceTyped
  <2> QED
    BY <1>5, <2>1, <2>2
<1>8. sup'.at \in {"idle", "rejected"}
      /\ sup' \in [at : {"idle", "prepared", "archived", "rejected"}, tx : Transactions \cup {NoTx}]
  BY <1>7
<1>9. TxTyped'
  <2>1. txs' \cup oldTxs' \subseteq Transactions
    BY <1>0, <1>1, <1>4 DEF TxTyped
  <2> QED
    BY <1>0, <1>1, <1>8, <2>1 DEF TxTyped
<1>10. \A u \in txs : u.id = t.id => u = sup.tx
  BY <1>0, <1>3, <1>4 DEF Identified
<1>11. Identified'
  <2>1. \A x \in txs' \cup starts' \cup archive' :
           \E y \in txs \cup starts \cup archive : x.id = y.id /\ x.main = y.main
    BY <1>1, <1>3, <1>4, <1>7
  <2>2. /\ \A x \in txs' \cup starts' \cup archive' :
              x.id <= live'.id /\ (x.id = live'.id => x.main = live'.main)
        /\ \A x, y \in txs' \cup starts' \cup archive' : x.id = y.id => x.main = y.main
    BY <1>0, <1>1, <2>1 DEF Identified
  <2>3. \A u, v \in txs' : u.id = v.id => u = v
    BY <1>0, <1>1, <1>10 DEF Identified
  <2> QED
    BY <2>2, <2>3 DEF Identified
<1>12. Lifted'
  <2>1. ASSUME stop = NoStop PROVE \E u \in txs' : NewestTx(u)' /\ ArchiveIsValid(u)'
    <3>1. PICK u \in txs : NewestTx(u) /\ ArchiveIsValid(u)
      BY <1>0, <2>1 DEF Lifted
    <3>2. u = sup.tx
      <4>1. u.id \in Nat /\ sup.tx.id \in Nat
        BY <1>0, <1>3 DEF TxTyped, Transactions, Receipts
      <4> QED
        BY <1>0, <1>3, <3>1, <4>1 DEF NewestTx, Identified
    <3>3. [id |-> t.id, main |-> t.main, stop |-> t.stop] \in archive' /\ t \in txs'
      BY <1>1, <1>4, <3>1, <3>2 DEF ArchiveIsValid
    <3>4. \A v \in txs' : v.id <= t.id
      <4>1. t.id \in Nat
        BY <1>4 DEF Transactions, Receipts
      <4> QED
        BY <1>1, <1>3, <1>4, <4>1 DEF NewestTx
    <3> QED
      BY <3>3, <3>4 DEF NewestTx, ArchiveIsValid
  <2>2. \A x \in starts' : \E a \in archive : a.id = x.id
    BY <1>0, <1>7 DEF Lifted, ArchiveIsValid
  <2> QED
    BY <1>1, <2>1, <2>2 DEF Lifted
<1>13. Working'
  BY <1>8 DEF Working
<1> QED
  BY <1>2, <1>6, <1>7, <1>9, <1>11, <1>12, <1>13 DEF ActivationInv, Typed

(* The whole. *)
LEMMA ActivationKeeps ==
  ASSUME ActivationInv, [Next]_vars PROVE ActivationInv'
<1>1. CASE RefreshActivate /\ UNCHANGED faults
  BY <1>1, BeginKeeps DEF RefreshActivate
<1>2. CASE DirectActivate /\ UNCHANGED faults
  <2>1. PICK s : BeginActivation(s)
    BY <1>2 DEF DirectActivate
  <2> QED
    BY <1>2, <2>1, BeginKeeps
<1>3. CASE UNCHANGED vars
  <2>1. UNCHANGED <<main, completions, stop, controls, suites, policy, asked, requests, live, txs,
                    oldTxs, archive, sup, refresh, starts, journal, running, attempts, emitted,
                    observed, retired, faults>>
    BY <1>3 DEF vars
  <2>2. Typed'
    BY <2>1
    DEF ActivationInv, Typed, StopTyped, SuitesTyped, ReceiptsTyped, TxTyped, RefreshTyped,
        ServiceTyped, ObserverTyped
  <2>3. Identified' /\ Working' /\ Lifted'
    BY <2>1 DEF ActivationInv, Identified, Working, Lifted, NewestTx, ArchiveIsValid, ArchiveOf
  <2> QED
    BY <2>2, <2>3 DEF ActivationInv
<1>4. CASE Next /\ ~(RefreshActivate /\ UNCHANGED faults) /\ ~(DirectActivate /\ UNCHANGED faults)
  BY <1>4, MachinesKeep, ControllerKeeps, BrokerKeeps, ObserverKeeps, EndTickKeeps, RefreshKeeps,
     RequestKeeps, ArchiveKeeps, WriteKeeps
  DEF Next, Supervise
<1> QED
  BY <1>1, <1>2, <1>3, <1>4

(* Only the supervisor lifts STOP, by moving it to an archive that the     *)
(* receipt does not have yet.                                              *)
LEMMA LiftsOnce ==
  ASSUME ActivationInv, Next, stop # NoStop, stop' = NoStop
  PROVE  \A r \in starts : r.id # sup.tx.id
<1>1. ArchiveStop /\ ArchiveOf(sup.tx) = {}
  <2>1. ArchiveStop
    BY StopNames
    DEF Next, Machines, Supervise, IssuePolicy, IssueActivation, ExpireActivation, RefreshCommits,
        TogglePause, RefreshReceived, RefreshRestart, RefreshCanaries, RefreshRequest,
        RefreshActivate, DirectActivate, DirectRequest, BeginActivation, WriteActivated, EndTick,
        ControllerExit, EmitEvents, BrokerStart, BrokerRollback, RestoredStop, ObserveHolds,
        ObserveFails, ObserveDue, ObserverDies, ObserveFailsClosed, LauncherStops, checkoutVars
  <2> QED
    BY <2>1 DEF ArchiveStop
<1>2. sup.tx \in txs
  BY <1>1 DEF ActivationInv, Working, NewestTx, ArchiveStop
<1>3. ASSUME NEW r \in starts, r.id = sup.tx.id PROVE FALSE
  <2>1. PICK a \in archive : a.id = r.id
    BY DEF ActivationInv, Lifted
  <2>2. a.main = sup.tx.main
    BY <1>2, <1>3, <2>1 DEF ActivationInv, Identified
  <2> QED
    BY <1>1, <1>3, <2>1, <2>2 DEF ArchiveOf
<1> QED
  BY <1>3

(* Nobody starts a controller, or clears the record, once the restart      *)
(* budget is spent.                                                        *)
LEMMA StuckStays ==
  ASSUME Next, "HARD_STUCK" \in controls
  PROVE  "HARD_STUCK" \in controls' /\ (running' => running)
<1>1. CASE Machines \/ EmitEvents \/ WriteActivated \/ EndTick
  <2>1. controls' = controls /\ running' = running
    BY <1>1
    DEF Machines, IssuePolicy, IssueActivation, ExpireActivation, RefreshCommits, WriteActivated,
        EndTick, EmitEvents, serviceVars
  <2> QED
    BY <2>1
<1>2. CASE TogglePause
  <2>1. "HARD_STUCK" \in controls' /\ running' = running
    BY <1>2 DEF TogglePause, serviceVars
  <2> QED
    BY <2>1
<1>3. CASE Supervise
  <2>1. ASSUME NEW s, BeginActivation(s) PROVE controls' = controls /\ running' = running
    BY <2>1 DEF BeginActivation
  <2>2. CASE RefreshActivate \/ DirectActivate
    <3>1. PICK s : BeginActivation(s)
      BY <2>2 DEF RefreshActivate, DirectActivate
    <3> QED
      BY <2>1, <3>1
  <2>3. CASE RefreshReceived \/ RefreshRestart \/ RefreshCanaries \/ RefreshRequest
    <3>1. controls' = controls /\ running' = running
      BY <2>3 DEF RefreshReceived, RefreshRestart, RefreshCanaries, RefreshRequest, serviceVars
    <3> QED
      BY <3>1
  <2>4. CASE DirectRequest \/ ArchiveStop
    <3>1. controls' = controls /\ running' = running
      BY <2>4 DEF DirectRequest, ArchiveStop, serviceVars
    <3> QED
      BY <3>1
  <2> QED
    BY <1>3, <2>2, <2>3, <2>4 DEF Supervise
<1>4. CASE ControllerExit
  BY <1>4 DEF ControllerExit
<1>5. CASE BrokerStart \/ BrokerRollback
  BY <1>5 DEF BrokerStart, BrokerRollback, Startable
<1>6. CASE ObserveHolds \/ ObserveFails \/ ObserveDue \/ ObserverDies
  BY <1>6 DEF ObserveHolds, ObserveFails, ObserveDue, ObserverDies, ObserveFailsClosed, serviceVars
<1> QED
  BY <1>1, <1>4, <1>5, <1>6, <1>2, <1>3 DEF Next

(* While STOP is absent, a live transaction holds the archive it was moved *)
(* to, whoever died in between (_activate_v31_locked,                      *)
(* restore_runtime_stop).                                                  *)
THEOREM StopAccountedFor == Spec => []StopIsAccountedFor
<1>1. Init => ActivationInv
  BY ActivationStarts
<1>2. ActivationInv /\ [Next]_vars => ActivationInv'
  BY ActivationKeeps
<1>3. ActivationInv => StopIsAccountedFor
  BY TypedIsTypeOK DEF ActivationInv, Lifted, StopIsAccountedFor
<1> QED
  BY <1>1, <1>2, <1>3, PTL DEF Spec

(* A receipt whose start was requested never lifts STOP again, and a spent *)
(* restart budget is final (_archive_stop, guard_restart).                 *)
THEOREM StopRespected == Spec => StopIsRespected
<1>1. Init => ActivationInv
  BY ActivationStarts
<1>2. ActivationInv /\ [Next]_vars => ActivationInv'
  BY ActivationKeeps
<1>3. ActivationInv /\ [Next]_vars
        => [stop # NoStop /\ stop' = NoStop => \A r \in starts : r.id # sup.tx.id]_vars
  BY LiftsOnce
<1>4. [Next]_vars => [ "HARD_STUCK" \in controls => /\ "HARD_STUCK" \in controls'
                                                    /\ running' => running ]_vars
  BY StuckStays
<1> QED
  BY <1>1, <1>2, <1>3, <1>4, PTL DEF Spec, StopIsRespected, ReceiptLiftsStopOnce, HardStuckIsFinal

=============================================================================
