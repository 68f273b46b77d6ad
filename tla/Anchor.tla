------------------------------- MODULE Anchor -------------------------------
(***************************************************************************)
(* How a published main reaches the controller's Git anchor                *)
(* (git_anchor_producer.py, git_anchor_updater.py, and the path units of   *)
(* bootstrap.py that start them).  Four one-shot services run in a chain:  *)
(*                                                                         *)
(*   stage    root copies each MERGED publication transaction into a job;  *)
(*   produce  the fetcher observes main on GitHub and signs a request;     *)
(*   promote  root copies the request into the updater's inbox;            *)
(*   update   root imports the commit and moves refs/heads/main.           *)
(*                                                                         *)
(* Each is started when the directory it watches changes and never because *)
(* it failed.  A pass takes the files in the order of their names and ends *)
(* at the first exception.  Main is a chain of commits 0, 1, 2, ...: the   *)
(* publisher pushes fast-forwards only, so commit c has the parent c - 1.  *)
(* Signatures, digests and file permissions are taken to hold.             *)
(***************************************************************************)
EXTENDS Integers, Sequences, FiniteSets

CONSTANTS
  Tx,           \* publication transactions
  MaxForeign,   \* bound: commits on main that no transaction published
  MaxFailures,  \* bound: deaths, network failures and stale rulesets
  LateChecks    \* whether a commit may become main before its checks end

ASSUME AnchorAssumption ==
  /\ IsFiniteSet(Tx)
  /\ MaxForeign \in Nat
  /\ MaxFailures \in Nat
  /\ LateChecks \in BOOLEAN

Services == {"stage", "produce", "promote", "update"}
JournalPhases == {"ABSENT", "PREPARED", "OBJECTS_IMPORTED", "COMMITTED"}

VARIABLES
  order,     \* the transactions in the order of their file names
  main,      \* the commit GitHub's main names
  merged,    \* the commit each transaction published, 0 before
  open,      \* transactions whose phase is MERGED
  checked,   \* commits whose required checks all succeeded
  foreign,   \* commits nobody published through a transaction
  jobs,      \* transactions with a job in the fetcher's inbox
  ready,     \* transactions with a .ready directory in the fetcher's outbox
  inbox,     \* transactions with a request in the updater's inbox
  late,      \* transactions whose job has expired
  stale,     \* transactions whose request or receipts have expired
  journal,   \* the updater's journal of each transaction
  anchor,    \* the commit the local anchor's main names
  changed,   \* services whose watched directory changed since they started
  at,        \* the updater's place in its pass, 0 when it is not running
  failures

github  == <<main, merged, open, checked, foreign>>
files   == <<jobs, ready, inbox>>
clock   == <<late, stale>>
updater == <<journal, anchor, at>>
vars    == <<order, github, files, clock, updater, changed, failures>>

N == Cardinality(Tx)
Commits == 0 .. (N + MaxForeign)

(* The files a pass reads before it stops at position k. *)
Prefix(k) == {order[i] : i \in 1 .. k}

(* A pass that dies or meets a failure of its surroundings at any place.   *)
Failure == failures < MaxFailures /\ failures' = failures + 1
NoFailure == UNCHANGED failures

TypeOK ==
  /\ order \in [1 .. N -> Tx]
  /\ main \in Nat
  /\ merged \in [Tx -> Nat]
  /\ open \subseteq Tx
  /\ checked \subseteq Nat
  /\ foreign \in Nat
  /\ jobs \subseteq Tx /\ ready \subseteq Tx /\ inbox \subseteq Tx
  /\ late \subseteq Tx /\ stale \subseteq Tx
  /\ journal \in [Tx -> JournalPhases]
  /\ anchor \in Nat
  /\ changed \subseteq Services
  /\ at \in 0 .. N
  /\ failures \in Nat

Init ==
  /\ order \in {s \in [1 .. N -> Tx] : \A t \in Tx : \E i \in 1 .. N : s[i] = t}
  /\ main = 0
  /\ merged = [t \in Tx |-> 0]
  /\ open = {}
  /\ checked = {0}
  /\ foreign = 0
  /\ jobs = {} /\ ready = {} /\ inbox = {}
  /\ late = {} /\ stale = {}
  /\ journal = [t \in Tx |-> "ABSENT"]
  /\ anchor = 0
  /\ changed = {}
  /\ at = 0
  /\ failures = 0

-----------------------------------------------------------------------------
(* The surroundings: GitHub, the publisher and the clock. *)

(* PushMain and the save of MERGED: the publisher fast-forwards main and   *)
(* its transaction file changes the directory the job broker watches.      *)
Publish(t) ==
  /\ merged[t] = 0
  /\ main' = main + 1
  /\ merged' = [merged EXCEPT ![t] = main + 1]
  /\ open' = open \cup {t}
  /\ checked' = IF LateChecks THEN checked ELSE checked \cup {main + 1}
  /\ changed' = changed \cup {"stage"}
  /\ UNCHANGED <<order, foreign, files, clock, updater, failures>>

ChecksPass(c) ==
  /\ c \in (1 .. main) \ checked
  /\ checked' = checked \cup {c}
  /\ UNCHANGED <<order, main, merged, open, foreign, files, clock, updater,
                 changed, failures>>

(* A commit from elsewhere, or the publisher's own revert commit. *)
ForeignCommit ==
  /\ foreign < MaxForeign
  /\ main' = main + 1
  /\ foreign' = foreign + 1
  /\ UNCHANGED <<order, merged, open, checked, files, clock, updater,
                 changed, failures>>

(* The MERGED branch of reconcile_transaction: it waits until the anchor   *)
(* is the published commit and is HARD_STUCK when main is no longer it.    *)
Leave(t) ==
  /\ t \in open
  /\ anchor = merged[t] \/ main # merged[t]
  /\ open' = open \ {t}
  /\ changed' = changed \cup {"stage"}
  /\ UNCHANGED <<order, main, merged, checked, foreign, files, clock, updater,
                 failures>>

(* Thirty minutes after the save of MERGED. *)
ExpireJob(t) ==
  /\ merged[t] # 0 /\ t \notin late
  /\ late' = late \cup {t}
  /\ stale' = IF t \in ready THEN stale \cup {t} ELSE stale
  /\ UNCHANGED <<order, github, files, updater, changed, failures>>

(* Fifteen minutes after produce observed main. *)
ExpireRequest(t) ==
  /\ t \in ready \ stale
  /\ stale' = stale \cup {t}
  /\ UNCHANGED <<order, github, files, late, updater, changed, failures>>

-----------------------------------------------------------------------------
(* Root: transactions to jobs. *)

(* Fault variant of Staged: an inbox that holds a job takes no other. *)
StagedIntoEmpty(k) ==
  {t \in Prefix(k) : t \in open /\ t \notin late /\ jobs = {}}

(* stage_jobs, up to position k: a MERGED transaction whose job is not yet *)
(* there and not yet expired gets one.  A transaction is not saved again   *)
(* while it is MERGED, so an existing job is the same bytes.               *)
Staged(k) == {t \in Prefix(k) : t \in open /\ t \notin late}

stage_jobs ==
  /\ "stage" \in changed
  /\ \E k \in 0 .. N :
       /\ IF k = N THEN NoFailure ELSE Failure
       /\ jobs' = jobs \cup Staged(k)
  /\ changed' = (changed \ {"stage"})
                  \cup (IF jobs' # jobs THEN {"produce"} ELSE {})
  /\ UNCHANGED <<order, github, ready, inbox, clock, updater>>

-----------------------------------------------------------------------------
(* The fetcher: jobs to signed requests. *)

(* _verified_checks: every required check of the commit succeeded. *)
VerifiedChecks(c) == c \in checked

(* The jobs produce goes on with: not done, not expired, and main is still *)
(* the commit the job names.                                               *)
Observable(t) ==
  t \in jobs /\ t \notin ready /\ t \notin late /\ main = merged[t]

(* Where the pass ends by itself: at the first commit without its checks.  *)
Stops(k) ==
  /\ \A i \in 1 .. k :
       Observable(order[i]) => VerifiedChecks(merged[order[i]])
  /\ k < N => /\ Observable(order[k + 1])
              /\ ~VerifiedChecks(merged[order[k + 1]])

Produced(k) ==
  {t \in Prefix(k) : Observable(t) /\ VerifiedChecks(merged[t])}

produce ==
  /\ "produce" \in changed
  /\ \E k \in 0 .. N :
       /\ \/ Stops(k) /\ NoFailure
          \/ ~Stops(k) /\ Failure
       /\ ready' = ready \cup Produced(k)
  /\ changed' = (changed \ {"produce"})
                  \cup (IF ready' # ready THEN {"promote"} ELSE {})
  /\ UNCHANGED <<order, github, jobs, inbox, clock, updater>>

-----------------------------------------------------------------------------
(* Root: requests to the updater's inbox.  The request file is copied      *)
(* after the four files it binds, so a request in the inbox is complete.   *)
promote ==
  /\ "promote" \in changed
  /\ \E k \in 0 .. N :
       /\ IF k = N THEN NoFailure ELSE Failure
       /\ inbox' = inbox \cup (ready \cap Prefix(k))
  /\ changed' = (changed \ {"promote"})
                  \cup (IF inbox' # inbox THEN {"update"} ELSE {})
  /\ UNCHANGED <<order, github, jobs, ready, clock, updater>>

-----------------------------------------------------------------------------
(* Root: the updater. *)

StartUpdate ==
  /\ "update" \in changed /\ at = 0
  /\ at' = IF N = 0 THEN 0 ELSE 1
  /\ changed' = changed \ {"update"}
  /\ UNCHANGED <<order, github, files, clock, journal, anchor, failures>>

(* main's loop takes the next request, or the pass is over. *)
Continue == at' = IF at = N THEN 0 ELSE at + 1

(* main's handler: an exception ends the pass. *)
Raise == at' = 0

SkipAbsent ==
  /\ at # 0 /\ order[at] \notin inbox
  /\ Continue
  /\ UNCHANGED <<order, github, files, clock, journal, anchor, changed, failures>>

(* _freeze_bundle: the bundle changed or could not be copied. *)
FreezeFails ==
  /\ at # 0 /\ order[at] \in inbox
  /\ Raise /\ Failure
  /\ UNCHANGED <<order, github, files, clock, journal, anchor, changed>>

(* advance_anchor's evidence check, made before the journal is read. *)
RefuseStale ==
  /\ at # 0 /\ order[at] \in inbox \cap stale
  /\ Raise
  /\ UNCHANGED <<order, github, files, clock, journal, anchor, changed, failures>>

(* The journal says COMMITTED: the anchor must still be that commit. *)
Replay ==
  /\ at # 0 /\ order[at] \in inbox \ stale
  /\ journal[order[at]] = "COMMITTED"
  /\ IF anchor = merged[order[at]] THEN Continue ELSE Raise
  /\ UNCHANGED <<order, github, files, clock, journal, anchor, changed, failures>>

(* Fault variant of MayAdvance: the ancestry is not checked. *)
MayAdvanceAnyway(t) == anchor # merged[t]

(* The anchor may move to the published commit when it is the commit's     *)
(* base or, after missed publications, an ancestor of the base.            *)
MayAdvance(t) == anchor <= merged[t] - 1

(* Under the lock: PREPARED, the import with OBJECTS_IMPORTED, the         *)
(* compare-and-swap of the ref, the attestation and COMMITTED.  "last" is  *)
(* what the updater did last before it ended.                              *)
AdvanceTo(t, last) ==
  /\ journal' = [journal EXCEPT ![t] =
       IF last \in {"OBJECTS_IMPORTED", "REF_ADVANCED"}
       THEN "OBJECTS_IMPORTED"
       ELSE IF last = "COMMITTED" THEN "COMMITTED" ELSE "PREPARED"]
  /\ anchor' = IF last \in {"REF_ADVANCED", "COMMITTED"}
               THEN merged[t] ELSE anchor

advance_anchor ==
  /\ at # 0 /\ order[at] \in inbox \ stale
  /\ journal[order[at]] # "COMMITTED"
  /\ LET t == order[at] IN
     \/ /\ anchor = merged[t] \/ MayAdvance(t)
        /\ AdvanceTo(t, "COMMITTED")
        /\ Continue /\ NoFailure
     \/ /\ anchor # merged[t] /\ ~MayAdvance(t)
        /\ AdvanceTo(t, "PREPARED")
        /\ Raise /\ NoFailure
     \/ /\ anchor # merged[t] /\ MayAdvance(t)
        /\ \E last \in {"PREPARED", "OBJECTS_IMPORTED", "REF_ADVANCED"} :
             AdvanceTo(t, last)
        /\ Raise /\ Failure
  /\ UNCHANGED <<order, github, files, clock, changed>>

-----------------------------------------------------------------------------
World ==
  \/ \E t \in Tx : Publish(t) \/ Leave(t)
  \/ \E c \in Commits : ChecksPass(c)
  \/ ForeignCommit
  \/ \E t \in Tx : ExpireJob(t) \/ ExpireRequest(t)

Update ==
  \/ StartUpdate \/ SkipAbsent \/ FreezeFails \/ RefuseStale \/ Replay
  \/ advance_anchor

Next == World \/ stage_jobs \/ produce \/ promote \/ Update

(* systemd starts a triggered service and a started service ends. *)
Fairness ==
  /\ WF_vars(stage_jobs) /\ WF_vars(produce) /\ WF_vars(promote)
  /\ WF_vars(Update)

Spec == Init /\ [][Next]_vars /\ Fairness

-----------------------------------------------------------------------------
(* The anchor is the first commit or one a transaction published and whose *)
(* required checks had all succeeded: foreign commits and unchecked ones   *)
(* never become the controller's main.                                     *)
AnchorIsVerified ==
  anchor # 0 => /\ anchor \in checked
                /\ \E t \in inbox : merged[t] = anchor

(* A journal that says COMMITTED is about a commit the anchor contains.    *)
CommittedIsAnchored ==
  \A t \in Tx : journal[t] = "COMMITTED" => anchor >= merged[t]

(* Whatever the order of the names, whatever is replayed and wherever the  *)
(* updater dies, every step leaves a verified anchor that contains what is *)
(* COMMITTED, and no step moves it back (produce, update).                 *)
AnchorIsSound ==
  [][ /\ AnchorIsVerified' /\ CommittedIsAnchored'
      /\ anchor' >= anchor ]_vars

(* A request that is expired, or committed and overtaken, ends every pass  *)
(* before the requests whose names come later.                             *)
Blocked(t) ==
  \E i, j \in 1 .. N :
    /\ i < j /\ order[j] = t /\ order[i] \in inbox
    /\ \/ order[i] \in stale
       \/ merged[order[i]] < anchor

(* A pass that failed is not repeated, main may be overtaken before it is  *)
(* observed, and evidence expires.                                         *)
Lost(t) == failures > 0 \/ t \in late \/ t \in stale \/ main # merged[t]

(* The fetcher was started before the checks ended; nothing starts it      *)
(* again for this job.                                                     *)
Unobserved(t) == t \in jobs \ ready /\ "produce" \notin changed

(* Every publication is anchored, or is lost or blocked for those reasons. *)
MergedIsAnchoredOrBlocked ==
  \A t \in Tx :
    (t \in open) ~>
      (anchor >= merged[t] \/ Lost(t) \/ Blocked(t) \/ Unobserved(t))

(* publication.py: a separate updater must import the verified commit and  *)
(* atomically advance main.                                                *)
MergedIsAnchored ==
  \A t \in Tx : (t \in open) ~> (anchor >= merged[t] \/ Lost(t))

=============================================================================
