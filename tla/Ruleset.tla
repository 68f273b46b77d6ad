------------------------------ MODULE Ruleset ------------------------------
(***************************************************************************)
(* The observation of GitHub's ruleset (ruleset_observer.py,               *)
(* ruleset_broker.py).  A timer starts the observer, whose signed          *)
(* observation is valid for fifteen minutes; a change of the outbox starts *)
(* the root broker, which keeps every observation as immutable history and *)
(* points current.json at the newest.  The names of observations sort by   *)
(* time, so observation n is the n-th file of a pass.  The timer never     *)
(* ends; the bound on observations does, so a pass after the last of them  *)
(* does not die.                                                           *)
(***************************************************************************)
EXTENDS Integers, FiniteSets

CONSTANTS
  MaxObservations,  \* bound: observations
  MaxDeaths         \* bound: passes of the broker that die

ASSUME RulesetAssumption == MaxObservations \in Nat /\ MaxDeaths \in Nat

VARIABLES
  observed,    \* number of observations in the observer's outbox
  outdated,    \* the first "outdated" of them have expired
  history,     \* observations in the broker's target directory
  ruleset,     \* the observation current.json names, 0 for none
  due,        \* the outbox changed since the broker started
  deaths

rulesetVars == <<observed, outdated, history, ruleset, due, deaths>>

RulesetInit ==
  /\ observed = 0 /\ outdated = 0
  /\ history = {} /\ ruleset = 0
  /\ due = FALSE /\ deaths = 0

(* _observe: an observation that fails leaves nothing behind. *)
ObserveRuleset ==
  /\ observed < MaxObservations
  /\ observed' = observed + 1
  /\ due' = TRUE
  /\ UNCHANGED <<outdated, history, ruleset, deaths>>

ExpireObservation ==
  /\ outdated < observed
  /\ outdated' = outdated + 1
  /\ UNCHANGED <<observed, history, ruleset, due, deaths>>

(* Fault variant of Unseen: nothing in the outbox is skipped. *)
UnseenAll == 1 .. observed

(* promote_ruleset_outbox_item: what is in the history, or no newer than   *)
(* the current observation, is skipped.                                    *)
Unseen == {o \in 1 .. observed : o \notin history /\ o > ruleset}

(* promote_ruleset_observation raises for an expired one and main ends the *)
(* pass there.                                                             *)
Oversleeps == \E o \in Unseen : o <= outdated

(* The pass over the unseen observations up to "last"; the version is      *)
(* written before current.json, so a death may separate the two.           *)
PromotedUpTo(last, died) ==
  /\ history' = history \cup {o \in Unseen : o <= last}
  /\ ruleset' = IF last = 0 THEN ruleset
                ELSE IF ~died THEN last
                ELSE LET done == {o \in Unseen : o < last} IN
                     IF done = {} THEN ruleset
                     ELSE CHOOSE o \in done : \A p \in done : p <= o

BrokerPromotes(died) ==
  /\ due
  /\ due' = FALSE
  /\ IF Oversleeps \/ Unseen = {} THEN ~died /\ UNCHANGED <<history, ruleset>>
     ELSE \E last \in Unseen :
            /\ died \/ \A o \in Unseen : o <= last
            /\ PromotedUpTo(last, died)
  /\ deaths' = IF died THEN deaths + 1 ELSE deaths
  /\ died => deaths < MaxDeaths /\ observed < MaxObservations
  /\ UNCHANGED <<observed, outdated>>

RulesetNext ==
  \/ ObserveRuleset \/ ExpireObservation
  \/ BrokerPromotes(FALSE) \/ BrokerPromotes(TRUE)
=============================================================================
