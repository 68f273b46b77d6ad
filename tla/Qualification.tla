---------------------------- MODULE Qualification ----------------------------
(***************************************************************************)
(* The product: Flight Recorder import, preflight and the qualification of *)
(* a change (packages/).  One case: the operator runs the qualify command, *)
(* again if it failed, on one evidence store and one output path.  A run   *)
(* of the command reads its child's two streams until both end, keeps at   *)
(* most MaxOutput bytes, stores what it read and writes one decision.      *)
(*                                                                         *)
(* A case is the record of what its inputs show.  The child is the         *)
(* environment: it writes, closes its streams, starts descendants, in its  *)
(* process group or outside it, or exits, at any time.                     *)
(***************************************************************************)
EXTENDS Integers, Sequences, FiniteSets

CONSTANTS
  Cases,          \* the cases considered
  World,          \* ranks of the job: 0 .. World - 1
  MaxOutput,      \* maxOutputBytes of the specification
  MaxAttempts     \* bound: runs of the command

ASSUME QualificationAssumption ==
  World \in Nat \ {0} /\ MaxOutput \in Nat \ {0} /\ MaxAttempts \in Nat

(* What the contracts admit of a case: the values of its literals, and no  *)
(* trace of a rank outside the world, which import_trace rejects.          *)
ASSUME CasesAssumption ==
  \A c \in Cases :
    /\ DOMAIN c.trace \subseteq 0 .. World - 1
    /\ c.evidence \in {"intact", "tampered", "rebound"}
    /\ c.claim \in {"true", "import", "completeness", "decision"}
    /\ c.spec \in {"runnable", "mismatched", "not runnable"}
    /\ c.unsupported \subseteq {"pack", "privacy", "export", "source"}
    /\ c.cost \in {"less", "more", "unknown"}
    /\ c.recipes \in BOOLEAN /\ c.late \in BOOLEAN

VARIABLES
  case,        \* the inputs
  overdue,     \* the decision deadline has passed
  attempts,    \* runs of the command so far
  stage,       \* "idle", "running", "storing", "deciding", "writing"
  child,       \* the command being run
  runs,        \* what the phases of this run of the command gave
  stored,      \* for each artifact: whether its object and whose metadata are stored
  decision,    \* the decision of this run, before it is written
  report       \* the output path: NoReport, TornReport or a decision

qualificationVars == <<case, overdue, attempts, stage, child, runs, stored, decision, report>>

Streams == {"stdout", "stderr"}
Phases == <<"baseline", "candidate">>
Artifacts == {"baseline", "candidate"} \X {<<"stdout", "good">>, <<"stdout", "bad">>, <<"stderr", "any">>}
(* The child's descendants that hold its streams ("beside") are in its     *)
(* group or in a session of their own; "pending" are the streams that the  *)
(* runner still reads before it looks at anything else.                    *)
NoChild == [alive |-> FALSE, code |-> "none", open |-> {}, watched |-> {}, beside |-> {},
            pending |-> {}, taken |-> 0, expired |-> FALSE, timedOut |-> FALSE, limited |-> FALSE]
NoReport == [result |-> "none", by |-> 0, refs |-> {}]
TornReport == [result |-> "torn", by |-> 0, refs |-> {}]

QualificationInit ==
  /\ case \in Cases
  /\ overdue = FALSE /\ attempts = 0 /\ stage = "idle"
  /\ child = NoChild /\ runs = << >>
  /\ stored = [a \in Artifacts |-> [object |-> FALSE, by |-> 0]]
  /\ decision = NoReport /\ report = NoReport

----------------------------------------------------------------------------
(* The native record.  A trace gives, for each captured rank, its entries: *)
(* a collective and the state it reached, in order.                        *)

Ranks == 0 .. World - 1

(* import_trace: ranks whose file was not captured. *)
MissingRanks(trace) == Ranks \ DOMAIN trace

Entered(trace, r) == {trace[r][i][1] : i \in DOMAIN trace[r]}

Collectives(trace) == UNION {Entered(trace, r) : r \in DOMAIN trace}

(* The later entry of a rank overwrites the earlier one. *)
LastState(trace, r, c) ==
  LET entries == SelectSeq(trace[r], LAMBDA e : e[1] = c) IN entries[Len(entries)][2]

(* verified_lifecycle_entries: a trace without entries is malformed. *)
HasLifecycle(trace) == Collectives(trace) # {}

(* lifecycle_disagreement_from_raw: ranks ended a collective in different  *)
(* states, or a captured rank never entered it.                            *)
Disagrees(trace) ==
  \E c \in Collectives(trace) :
    \/ \E r \in DOMAIN trace : c \notin Entered(trace, r)
    \/ Cardinality({LastState(trace, r, c) : r \in DOMAIN trace}) > 1

(* _authoritative_completeness and assess_completeness: every requirement  *)
(* is mandatory, so one that is partial or unbound leaves UNKNOWN.         *)
Complete(c) ==
  /\ MissingRanks(c.trace) = {}
  /\ \A s \in DOMAIN c.ids : c.ids[s] = "FULLY_VERIFIED"

(* _identity_strength: the weakest of the three. *)
IdentityIs(c, strengths) ==
  LET order == <<"CONFLICTING", "UNVERIFIED", "CUSTOMER_ATTESTED", "PARTIALLY_VERIFIED",
                 "FULLY_VERIFIED">>
      found == {i \in DOMAIN order : \E s \in DOMAIN c.ids : c.ids[s] = order[i]}
      weakest == order[CHOOSE i \in found : \A j \in found : i <= j]
  IN weakest \in strengths

(* _policy_verifications. *)
Denied(c) ==
  {p \in {"pack", "privacy", "export", "source"} : p \in c.unsupported}

UnknownPolicies(c) ==
  (IF c.recipes THEN {} ELSE {"access"}) \cup (IF c.cost = "unknown" THEN {"economics"} ELSE {})

(* Fault variant of Preflight: a denied policy only matters when it is one *)
(* of the policies that block.                                             *)
PreflightLenient(c) ==
  << <<c.evidence = "tampered", "NEEDS_MORE_EVIDENCE">>,
     <<c.evidence = "rebound", "NEEDS_MORE_EVIDENCE">>,
     <<c.claim = "import", "NEEDS_MORE_EVIDENCE">>,
     <<c.claim = "completeness", "NEEDS_MORE_EVIDENCE">>,
     <<~HasLifecycle(c.trace), "NEEDS_MORE_EVIDENCE">>,
     <<c.claim = "decision", "NEEDS_MORE_EVIDENCE">>,
     <<Denied(c) \cap {"privacy", "export"} # {}, "POLICY_BLOCKED">>,
     <<c.late, "UNKNOWN">>,
     <<Disagrees(c.trace), "NATIVE_WORKFLOW_SUFFICIENT">>,
     <<UnknownPolicies(c) # {}, "UNKNOWN">>,
     <<~Complete(c), "NEEDS_MORE_EVIDENCE">>,
     <<IdentityIs(c, {"UNVERIFIED", "CONFLICTING"}), "NEEDS_MORE_EVIDENCE">>,
     <<c.cost = "more", "TECHNICALLY_POSSIBLE_BUT_UNECONOMIC">>,
     <<~IdentityIs(c, {"FULLY_VERIFIED"}), "UNKNOWN">>,
     <<TRUE, "ELIGIBLE_FOR_QUALIFICATION">> >>

(* evaluate_preflight: the conditions in order, each with its outcome.     *)
Preflight(c) ==
  << <<c.evidence = "tampered", "NEEDS_MORE_EVIDENCE">>,
     <<c.evidence = "rebound", "NEEDS_MORE_EVIDENCE">>,
     <<c.claim = "import", "NEEDS_MORE_EVIDENCE">>,
     <<c.claim = "completeness", "NEEDS_MORE_EVIDENCE">>,
     <<~HasLifecycle(c.trace), "NEEDS_MORE_EVIDENCE">>,
     <<c.claim = "decision", "NEEDS_MORE_EVIDENCE">>,
     <<Denied(c) \cap {"privacy", "export"} # {}, "POLICY_BLOCKED">>,
     <<Denied(c) # {}, "OUTSIDE_SUPPORTED_ENVELOPE">>,
     <<c.late, "UNKNOWN">>,
     <<Disagrees(c.trace), "NATIVE_WORKFLOW_SUFFICIENT">>,
     <<UnknownPolicies(c) # {}, "UNKNOWN">>,
     <<~Complete(c), "NEEDS_MORE_EVIDENCE">>,
     <<IdentityIs(c, {"UNVERIFIED", "CONFLICTING"}), "NEEDS_MORE_EVIDENCE">>,
     <<c.cost = "more", "TECHNICALLY_POSSIBLE_BUT_UNECONOMIC">>,
     <<~IdentityIs(c, {"FULLY_VERIFIED"}), "UNKNOWN">>,
     <<TRUE, "ELIGIBLE_FOR_QUALIFICATION">> >>

Outcome(c) ==
  LET chain == Preflight(c)
      met == {i \in DOMAIN chain : chain[i][1]}
  IN chain[CHOOSE i \in met : \A j \in met : i <= j][2]

----------------------------------------------------------------------------
(* The child process. *)

Started == [NoChild EXCEPT !.alive = TRUE, !.open = Streams, !.watched = Streams]

Holding(c, descendants) ==
  [c EXCEPT !.beside = descendants, !.open = IF c.alive \/ descendants # {} THEN @ ELSE {}]

(* _kill_process_group: the group dies; a stream that a descendant in      *)
(* another session holds stays open.                                       *)
Killed(c) ==
  Holding([c EXCEPT !.alive = FALSE, !.code = IF c.alive THEN "killed" ELSE @],
          c.beside \ {"group"})

ChildStep(c) ==
  /\ stage = "running" /\ child' = c
  /\ UNCHANGED <<case, overdue, attempts, stage, runs, stored, decision, report>>

ExitChild ==
  /\ child.alive
  /\ \E code \in {"expected", "other"} :
       ChildStep(Holding([child EXCEPT !.alive = FALSE, !.code = code], child.beside))

CloseStream ==
  \E s \in child.open : ChildStep([child EXCEPT !.open = @ \ {s}])

Fork ==
  \E where \in {"group", "session"} \ child.beside :
    child.alive /\ ChildStep([child EXCEPT !.beside = @ \cup {where}])

TimeRunsOut == ~child.expired /\ ChildStep([child EXCEPT !.expired = TRUE])

(* _read_bounded_process: select found nothing to read and the child had   *)
(* ended, so that the streams are read one after the other, each until     *)
(* there is something: os.read has no time limit.                          *)
ReadWithoutEvents ==
  /\ ~child.alive /\ child.watched # {} /\ child.pending = {}
  /\ ChildStep([child EXCEPT !.pending = child.watched])

(* The streams of which the runner can read the next one. *)
Ready ==
  IF child.pending = {} THEN child.watched
  ELSE IF "stdout" \in child.pending THEN {"stdout"} ELSE child.pending

(* _read_bounded_process: a read of "size" bytes. *)
ReadChunk ==
  \E s \in Ready \cap child.open, size \in 1 .. MaxOutput + 1 :
    LET available == MaxOutput - child.taken
        kept == IF size > available THEN MaxOutput ELSE child.taken + size
        full == [child EXCEPT !.taken = kept, !.limited = @ \/ size > available,
                              !.pending = @ \ {s}]
    IN ChildStep(IF size > available THEN Killed(full) ELSE full)

ReadEnd ==
  \E s \in Ready \ child.open :
    ChildStep([child EXCEPT !.watched = @ \ {s}, !.pending = @ \ {s}])

(* The time limit is looked at between two turns of the loop. *)
Expired == child.expired /\ child.watched # {} /\ child.pending = {}

(* Fault variant of Deadline: an expired child is only marked. *)
DeadlineMarks == Expired /\ ChildStep([child EXCEPT !.timedOut = TRUE])

Deadline == Expired /\ ChildStep(Killed([child EXCEPT !.timedOut = TRUE]))

Phase == Phases[Len(runs) + 1]

(* process.wait(): without a time limit.  What the child wrote to stdout   *)
(* holds the required tokens and no forbidden one, or not.                 *)
Reap ==
  /\ stage = "running" /\ child.watched = {} /\ ~child.alive
  /\ \E out \in {"good", "bad"} :
       runs' = Append(runs,
                 [exceeded |-> child.timedOut \/ child.limited,
                  met      |-> /\ ~child.timedOut /\ ~child.limited
                               /\ child.code = "expected" /\ out = "good",
                  todo     |-> <<<<Phase, <<"stdout", out>>>>, <<Phase, <<"stderr", "any">>>>>>,
                  refs     |-> {}])
  /\ stage' = "storing" /\ child' = NoChild
  /\ UNCHANGED <<case, overdue, attempts, stored, decision, report>>

----------------------------------------------------------------------------
(* LocalEvidenceStore. *)

(* put_bytes: metadata differs when the artifact was captured at another   *)
(* time, by another run of the command.                                    *)
Conflicts(a) == stored[a].by \notin {0, attempts}

Last == runs[Len(runs)]

PutStream ==
  /\ stage = "storing" /\ Last.todo # << >>
  /\ LET a == Head(Last.todo) IN
     /\ ~Conflicts(a)
     /\ stored' = [stored EXCEPT ![a] =
                     [object |-> TRUE, by |-> IF @.by = 0 THEN attempts ELSE @.by]]
     /\ runs' = [runs EXCEPT ![Len(runs)].todo = Tail(@), ![Len(runs)].refs = @ \cup {a}]
  /\ UNCHANGED <<case, overdue, attempts, stage, child, decision, report>>

Stop(result) ==
  /\ stage' = "writing"
  /\ decision' = [result |-> result, by |-> attempts,
                  refs |-> UNION {runs[i].refs : i \in DOMAIN runs}]

Failed == stage' = "idle" /\ child' = NoChild /\ runs' = << >> /\ decision' = NoReport

PutRefused ==
  /\ stage = "storing" /\ Last.todo # << >> /\ Conflicts(Head(Last.todo))
  /\ Failed
  /\ UNCHANGED <<case, overdue, attempts, stored, report>>

----------------------------------------------------------------------------
(* execute_qualification: bindings, deadline, eligibility, local paths.    *)
BeginQualification ==
  /\ stage = "idle" /\ attempts < MaxAttempts
  /\ attempts' = attempts + 1
  /\ UNCHANGED <<case, overdue, stored, report>>
  /\ CASE case.spec = "mismatched" -> Failed
       [] case.spec # "mismatched" /\ overdue ->
            /\ stage' = "writing" /\ decision' = [result |-> "EXPIRED", by |-> attempts', refs |-> {}]
            /\ UNCHANGED <<child, runs>>
       [] case.spec # "mismatched" /\ ~overdue
          /\ Outcome(case) # "ELIGIBLE_FOR_QUALIFICATION" ->
            /\ stage' = "writing"
            /\ decision' = [result |-> "INAPPLICABLE", by |-> attempts', refs |-> {}]
            /\ UNCHANGED <<child, runs>>
       [] OTHER ->
            IF case.spec = "not runnable" THEN Failed
            ELSE stage' = "running" /\ child' = Started /\ UNCHANGED <<runs, decision>>

(* The phases of a run in order: the candidate only runs after a baseline  *)
(* that reproduced the observation.                                        *)
EndPhase ==
  /\ stage = "storing" /\ Last.todo = << >>
  /\ UNCHANGED <<case, overdue, attempts, stored, report, runs>>
  /\ IF Len(runs) = 1 /\ Last.met
     THEN stage' = "running" /\ child' = Started /\ UNCHANGED decision
     ELSE /\ UNCHANGED child
          /\ Stop(CASE Len(runs) = 1 \/ Last.exceeded -> "UNKNOWN"
                    [] Len(runs) = 2 /\ Last.met /\ ~Last.exceeded -> "PASS"
                    [] OTHER -> "FAIL")

(* write_payloads_exclusive: a path that exists is refused, and the        *)
(* decision is lost.                                                       *)
WriteReport ==
  /\ stage = "writing"
  /\ report' = IF report = NoReport THEN decision ELSE report
  /\ Failed
  /\ UNCHANGED <<case, overdue, attempts, stored>>

DieInQualify ==
  /\ stage # "idle"
  /\ \/ report' = report /\ stored' = stored
     \/ /\ stage = "writing" /\ report = NoReport
        /\ report' = TornReport /\ stored' = stored
     \/ /\ stage = "storing" /\ Last.todo # << >>
        /\ ~Conflicts(Head(Last.todo))
        /\ stored' = [stored EXCEPT ![Head(Last.todo)].object = TRUE]
        /\ report' = report
  /\ Failed
  /\ UNCHANGED <<case, overdue, attempts>>

DeadlinePasses ==
  /\ stage = "idle" /\ ~overdue /\ overdue' = TRUE
  /\ UNCHANGED <<case, attempts, stage, child, runs, stored, decision, report>>

Runner ==
  \/ TimeRunsOut \/ ReadWithoutEvents \/ ReadEnd \/ Deadline \/ Reap \/ PutStream \/ PutRefused \/ EndPhase
  \/ WriteReport

QualificationNext ==
  \/ Runner \/ ExitChild \/ CloseStream \/ Fork \/ ReadChunk
  \/ BeginQualification \/ DieInQualify \/ DeadlinePasses

----------------------------------------------------------------------------
(* A PASS that was written was earned: the inputs are what the stored      *)
(* evidence shows, complete and fully identified, in a supported           *)
(* environment and within its cost, the native workflow did not settle the *)
(* case, and both phases ran within their limits and met their             *)
(* expectation (evaluate_preflight, execute_qualification).                *)
PassIsEarned ==
  report.result = "PASS" =>
    /\ case.evidence = "intact" /\ case.claim = "true" /\ case.spec = "runnable"
    /\ case.unsupported = {} /\ case.recipes /\ case.cost = "less" /\ ~case.late
    /\ DOMAIN case.trace = Ranks /\ HasLifecycle(case.trace)
    /\ \A r, q \in Ranks : Entered(case.trace, r) = Entered(case.trace, q)
    /\ \A s \in DOMAIN case.ids : case.ids[s] = "FULLY_VERIFIED"
    /\ {<<"baseline", <<"stdout", "good">>>>, <<"candidate", <<"stdout", "good">>>>}
         \subseteq report.refs

(* A written decision cites artifacts that its own run captured, although  *)
(* earlier runs that failed or died left theirs in the same store          *)
(* (put_bytes, write_payloads_exclusive).                                  *)
ReportIsBacked == \A a \in report.refs : stored[a].object /\ stored[a].by = report.by

(* A decision is earned and rests on its own run (qualify).                *)
DecisionIsEarned == PassIsEarned /\ ReportIsBacked

(* The command ends although nothing makes its child end, with three       *)
(* exceptions that the runner's time limit does not reach: a child that    *)
(* closed both streams and goes on; a stream held open by a process        *)
(* outside the group; and one held open by a process of the group that     *)
(* outlives the child, once the runner reads it without having been told   *)
(* that there is something to read (_read_bounded_process).                *)
CommandEnds ==
  stage = "running" ~>
    \/ stage # "running"
    \/ child.alive /\ child.watched = {}
    \/ "session" \in child.beside /\ child.open # {}
    \/ "group" \in child.beside /\ ~child.alive /\ child.pending \cap child.open # {}
=============================================================================
