---------------------------- MODULE Publication ----------------------------
(***************************************************************************)
(* DirectMainPublisher (src/tcfactory/v3/publication.py): the durable      *)
(* transaction that carries one candidate commit from its pre-promotion    *)
(* gates to a verified, or reverted, main branch.                          *)
(*                                                                         *)
(* A publisher process runs publish for a candidate, or the reconciliation *)
(* pass of the start-up preflight over every transaction file              *)
(* (reconcile_pending, which holds neither a lease nor the controller      *)
(* lock).  Both run reconcile_transaction on a private copy of the         *)
(* transaction and write it back with _save.  Every remote call and every  *)
(* write of a file is a step of its own, and the process may fail between  *)
(* any two.                                                                *)
(*                                                                         *)
(* The remote main branch is its first-parent history.  Besides publishers *)
(* it is moved by other pushes; the root-owned updater advances the Git    *)
(* anchor to it; the independent verifier answers for receipts and hosted  *)
(* checks conclude.  The validator of PublicationTransaction rejects every *)
(* pull-request phase, so those branches of reconcile_transaction are      *)
(* unreachable and have no counterpart here.                               *)
(***************************************************************************)
EXTENDS Integers, Sequences, FiniteSets

CONSTANTS Candidates,   \* candidate commits
          Others,       \* commits other parties push to main, each once
          Root,         \* the commit main starts at
          NoCommit,     \* no commit
          Controllers,  \* controller processes: they publish and reconcile
          Preflights,   \* start-up preflights beside them: they reconcile
          MaxDisturbances  \* bound: of the disturbances counted

Publishers == Controllers \cup Preflights

(* create_revert_commit: the commit p makes to revert c, with c as its     *)
(* parent and the tree of c's base.                                        *)
RevertCommit(c, p) == <<c, p>>
Reverts == Candidates \X Publishers
Commits == {Root} \cup Candidates \cup Others \cup Reverts

ASSUME PublicationConstants ==
  /\ MaxDisturbances \in Nat
  /\ Candidates \cap Others = {}
  /\ Root \notin Candidates \cup Others
  /\ NoCommit \notin Commits
  /\ (Candidates \cup Others \cup {Root}) \cap Reverts = {}

VARIABLES
  main,      \* the first-parent history of the remote main branch
  anchor,    \* main as the controller's Git anchor has it
  base,      \* base[c]: the commit c was built on, once it was prepared
  receipt,   \* receipt[c]: what the independent verifier answers for c
  checks,    \* checks[c]: the hosted post-push checks of c
  frozen,    \* frozen[c]: c's worktree still is the frozen candidate
  tx,        \* tx[c]: the transaction file of c, or NoTx
  rejected,  \* candidates with a quarantine record saying mainChanged: false
  pc,        \* pc[p]: the step p is about to take
  mem,       \* mem[p]: the candidate and the copy of its transaction in p
  todo,      \* todo[p]: the transactions left in p's reconciliation pass
  prepared,  \* prepared[p]: candidates whose gates passed in process p
  disturbances  \* failures, pushes of others, preflights and writes
             \* to a frozen worktree so far

world == <<main, anchor, base, receipt, checks, frozen, disturbances>>
files == <<tx, rejected>>
local == <<pc, mem, todo, prepared>>
vars  == <<world, files, local>>

-----------------------------------------------------------------------------
Phases == {"PREPARED", "MERGED", "MAIN_VERIFIED", "INVARIANTS_VERIFIED",
           "REVERT_REQUIRED", "REVERTED", "FAILED", "HARD_STUCK"}

Terminal(phase) ==
  phase \in {"INVARIANTS_VERIFIED", "REVERTED", "FAILED", "HARD_STUCK"}

Transaction == [phase : Phases, receipt : BOOLEAN,
                revert : Reverts \cup {NoCommit}]
NoTx  == [phase |-> "ABSENT", receipt |-> FALSE, revert |-> NoCommit]
Fresh == [phase |-> "PREPARED", receipt |-> FALSE, revert |-> NoCommit]

(* A process works on the transaction t of candidate c; before is the      *)
(* phase at the top of publish's loop, or "PASS" in reconcile_pending.     *)
Memory == [c : Candidates \cup {NoCommit}, t : Transaction \cup {NoTx},
           before : Phases \cup {"PASS", "IDLE"}]
Idle == [c |-> NoCommit, t |-> NoTx, before |-> "IDLE"]

Steps == {"off", "pass", "observe", "authorize", "save", "freeze", "check",
          "push", "confirm", "quarantine", "verify", "anchored", "checks",
          "revert", "return"}

Published == {main[k] : k \in DOMAIN main}
Tip == main[Len(main)]
OnMain(c) == c \in Published
RevertedOnMain(c) == \E p \in Publishers : RevertCommit(c, p) \in Published

(* What push_main is asked to push, and the main it expects to find.       *)
Pushed(p) == IF mem[p].t.phase = "PREPARED" THEN mem[p].c ELSE mem[p].t.revert
Expected(p) == IF mem[p].t.phase = "PREPARED" THEN base[mem[p].c] ELSE mem[p].c

Init ==
  /\ main = <<Root>>
  /\ anchor = Root
  /\ base = [c \in Candidates |-> NoCommit]
  /\ receipt = [c \in Candidates |-> "absent"]
  /\ checks = [c \in Candidates |-> "pending"]
  /\ frozen = [c \in Candidates |-> TRUE]
  /\ tx = [c \in Candidates |-> NoTx]
  /\ rejected = {}
  /\ pc = [p \in Publishers |-> "off"]
  /\ mem = [p \in Publishers |-> Idle]
  /\ todo = [p \in Publishers |-> {}]
  /\ prepared = [p \in Publishers |-> {}]
  /\ disturbances = 0

Goto(p, step) == pc' = [pc EXCEPT ![p] = step]

(* An exception leaves publish, or the whole reconciliation pass. *)
Raise(p) ==
  /\ Goto(p, "off")
  /\ mem' = [mem EXCEPT ![p] = Idle]
  /\ todo' = [todo EXCEPT ![p] = {}]

(* Work on with transaction t: next is the step that follows. *)
Advance(p, t, step) ==
  /\ mem' = [mem EXCEPT ![p] =
               [c |-> mem[p].c, t |-> t, before |-> mem[p].before]]
  /\ Goto(p, step)
  /\ UNCHANGED todo

InPhase(t, phase) == [phase |-> phase, receipt |-> t.receipt, revert |-> t.revert]

(* The step with which reconcile_transaction takes up a transaction. *)
Entry(t) ==
  IF t.phase = "PREPARED" THEN "observe"
  ELSE IF t.phase = "MERGED" THEN "verify"
  ELSE IF t.phase = "MAIN_VERIFIED" THEN "checks"
  ELSE IF t.phase = "REVERT_REQUIRED"
       THEN IF t.revert = NoCommit THEN "revert" ELSE "check"
  ELSE "return"

-----------------------------------------------------------------------------
(* The world around the publisher. *)

Disturb ==
  /\ disturbances < MaxDisturbances
  /\ disturbances' = disturbances + 1

OtherPush(o) ==
  /\ ~OnMain(o)
  /\ main' = Append(main, o)
  /\ Disturb
  /\ UNCHANGED <<anchor, base, receipt, checks, frozen, files, local>>

UpdateAnchor ==
  /\ anchor # Tip
  /\ anchor' = Tip
  /\ UNCHANGED <<main, base, receipt, checks, frozen, disturbances, files, local>>

(* The verifier grants the receipt, rejects it, or answers with a receipt  *)
(* other than the one the checkpoint pre-authorised.                       *)
Answer(c, answer) ==
  /\ base[c] # NoCommit
  /\ receipt[c] = "absent"
  /\ receipt' = [receipt EXCEPT ![c] = answer]
  /\ UNCHANGED <<main, anchor, base, checks, frozen, disturbances, files, local>>

Conclude(c, conclusion) ==
  /\ OnMain(c)
  /\ checks[c] = "pending"
  /\ checks' = [checks EXCEPT ![c] = conclusion]
  /\ UNCHANGED <<main, anchor, base, receipt, frozen, disturbances, files, local>>

(* Something writes to the candidate's worktree. *)
Mutate(c) ==
  /\ base[c] # NoCommit
  /\ frozen[c]
  /\ frozen' = [frozen EXCEPT ![c] = FALSE]
  /\ Disturb
  /\ UNCHANGED <<main, anchor, base, receipt, checks, files, local>>

(* The process dies, or a command it runs fails: what it had in memory is  *)
(* gone, what it had written or pushed stays.                              *)
Fail(p) ==
  /\ pc[p] # "off" \/ prepared[p] # {}
  /\ Disturb
  /\ Raise(p)
  /\ prepared' = [prepared EXCEPT ![p] = {}]
  /\ UNCHANGED <<main, anchor, base, receipt, checks, frozen, files>>

-----------------------------------------------------------------------------
(* Entering: prepare_candidate, publish and reconcile_pending. *)

(* The local and the private gate pass on the frozen candidate.  The       *)
(* candidate was built on main as the anchor has it.  A failing gate       *)
(* raises and changes nothing.                                             *)
PrepareCandidate(p, c) ==
  /\ pc[p] = "off"
  /\ frozen[c]
  /\ c \notin prepared[p]
  /\ base' = [base EXCEPT ![c] = IF base[c] = NoCommit THEN anchor ELSE base[c]]
  /\ prepared' = [prepared EXCEPT ![p] = @ \cup {c}]
  /\ UNCHANGED <<main, anchor, receipt, checks, frozen, disturbances, files, pc, mem, todo>>

(* publish on a candidate without a transaction; the gate evidence has to  *)
(* come from this very process.                                            *)
PublishNew(p, c) ==
  /\ pc[p] = "off"
  /\ tx[c] = NoTx
  /\ frozen[c]
  /\ c \in prepared[p]
  /\ prepared' = [prepared EXCEPT ![p] = @ \ {c}]
  /\ tx' = [tx EXCEPT ![c] = Fresh]
  /\ mem' = [mem EXCEPT ![p] = [c |-> c, t |-> Fresh, before |-> "PREPARED"]]
  /\ Goto(p, "observe")
  /\ UNCHANGED <<world, rejected, todo>>

(* publish on a candidate whose transaction is on disk: a retry. *)
PublishRetry(p, c) ==
  /\ pc[p] = "off"
  /\ tx[c] # NoTx
  /\ mem' = [mem EXCEPT ![p] =
               [c |-> c, t |-> tx[c], before |-> tx[c].phase]]
  /\ Goto(p, Entry(tx[c]))
  /\ UNCHANGED <<world, files, todo, prepared>>

(* A retry whose manifest, worktree, tree or expected receipt changed. *)
PublishChanged(p, c) ==
  /\ pc[p] = "off"
  /\ tx[c] # NoTx
  /\ mem' = [mem EXCEPT ![p] = [c |-> c, t |-> InPhase(tx[c], "HARD_STUCK"),
                                before |-> tx[c].phase]]
  /\ Goto(p, "save")
  /\ UNCHANGED <<world, files, todo, prepared>>

(* reconcile_pending lists the transaction files ... *)
StartPass(p) ==
  /\ pc[p] = "off"
  /\ \E c \in Candidates : tx[c] # NoTx
  /\ todo' = [todo EXCEPT ![p] = {c \in Candidates : tx[c] # NoTx}]
  /\ Goto(p, "pass")
  /\ IF p \in Preflights THEN Disturb ELSE UNCHANGED disturbances
  /\ UNCHANGED <<main, anchor, base, receipt, checks, frozen, files, mem, prepared>>

(* ... and reconciles one after the other.  A HARD_STUCK one raises. *)
PassNext(p, c) ==
  /\ pc[p] = "pass"
  /\ c \in todo[p]
  /\ \/ /\ tx[c].phase = "HARD_STUCK"
        /\ Raise(p)
     \/ /\ tx[c].phase # "HARD_STUCK"
        /\ todo' = [todo EXCEPT ![p] = @ \ {c}]
        /\ mem' = [mem EXCEPT ![p] = [c |-> c, t |-> tx[c], before |-> "PASS"]]
        /\ Goto(p, Entry(tx[c]))
  /\ UNCHANGED <<world, files, prepared>>

PassEnd(p) ==
  /\ pc[p] = "pass"
  /\ todo[p] = {}
  /\ Goto(p, "off")
  /\ UNCHANGED <<world, files, mem, todo, prepared>>

-----------------------------------------------------------------------------
(* reconcile_transaction, by phase. *)

(* PREPARED: main is the candidate already (a push whose answer was lost), *)
(* has moved, or still is the base.                                        *)
Observe(p) ==
  /\ pc[p] = "observe"
  /\ \/ /\ Tip = mem[p].c
        /\ Advance(p, InPhase(mem[p].t, "MERGED"), "save")
     \/ /\ Tip \notin {mem[p].c, base[mem[p].c]}
        /\ Advance(p, InPhase(mem[p].t, "FAILED"), "quarantine")
     \/ /\ Tip = base[mem[p].c]
        /\ Advance(p, mem[p].t, "authorize")
  /\ UNCHANGED <<world, files, prepared>>

(* PREPARED: no answer yet leaves the transaction pending; a rejection or  *)
(* an unexpected receipt fails it; a grant is recorded.                    *)
Authorize(p) ==
  /\ pc[p] = "authorize"
  /\ \/ /\ receipt[mem[p].c] = "absent"
        /\ Advance(p, mem[p].t, "return")
     \/ /\ receipt[mem[p].c] \in {"rejected", "unexpected"}
        /\ Advance(p, InPhase(mem[p].t, "FAILED"), "quarantine")
     \/ /\ receipt[mem[p].c] = "granted"
        /\ Advance(p, [phase |-> "PREPARED", receipt |-> TRUE,
                       revert |-> mem[p].t.revert], "save")
  /\ UNCHANGED <<world, files, prepared>>

(* PREPARED: the last freeze check before the push. *)
AssertFrozen(p) ==
  /\ pc[p] = "freeze"
  /\ \/ /\ frozen[mem[p].c]
        /\ Advance(p, mem[p].t, "check")
     \/ /\ ~frozen[mem[p].c]
        /\ Advance(p, InPhase(mem[p].t, "HARD_STUCK"), "save")
  /\ UNCHANGED <<world, files, prepared>>

(* push_main: the observation, the push, the confirming observation. *)
CheckMain(p) ==
  /\ pc[p] = "check"
  /\ \/ Tip = Expected(p) /\ Advance(p, mem[p].t, "push")
     \/ Tip # Expected(p) /\ Raise(p)
  /\ UNCHANGED <<world, files, prepared>>

(* Fault variant of PushMain: a forced push, the history is cut back. *)
PushMainForced(p) ==
  /\ pc[p] = "push"
  /\ main' = Append(SubSeq(main, 1, Len(main) - 1), Pushed(p))
  /\ Advance(p, mem[p].t, "confirm")
  /\ UNCHANGED <<anchor, base, receipt, checks, frozen, disturbances, files, prepared>>

(* Without --force the remote takes a fast-forward only; pushing the       *)
(* commit it already has changes nothing and succeeds.                     *)
PushMain(p) ==
  /\ pc[p] = "push"
  /\ \/ /\ Tip = Expected(p)
        /\ main' = Append(main, Pushed(p))
        /\ Advance(p, mem[p].t, "confirm")
     \/ /\ Tip = Pushed(p)
        /\ Advance(p, mem[p].t, "confirm")
        /\ UNCHANGED main
     \/ /\ Tip \notin {Expected(p), Pushed(p)}
        /\ Raise(p)
        /\ UNCHANGED main
  /\ UNCHANGED <<anchor, base, receipt, checks, frozen, disturbances, files, prepared>>

ConfirmPush(p) ==
  /\ pc[p] = "confirm"
  /\ \/ /\ Tip = Pushed(p)
        /\ Advance(p, InPhase(mem[p].t, IF mem[p].t.phase = "PREPARED"
                                        THEN "MERGED" ELSE "REVERTED"), "save")
     \/ Tip # Pushed(p) /\ Raise(p)
  /\ UNCHANGED <<world, files, prepared>>

(* Fault variant of VerifyMain: wait for main to come back. *)
VerifyMainWaits(p) ==
  /\ pc[p] = "verify"
  /\ Advance(p, mem[p].t, IF Tip = mem[p].c THEN "anchored" ELSE "return")
  /\ UNCHANGED <<world, files, prepared>>

(* MERGED: main must be the published commit ... *)
VerifyMain(p) ==
  /\ pc[p] = "verify"
  /\ \/ Tip = mem[p].c /\ Advance(p, mem[p].t, "anchored")
     \/ /\ Tip # mem[p].c
        /\ Advance(p, InPhase(mem[p].t, "HARD_STUCK"), "save")
  /\ UNCHANGED <<world, files, prepared>>

(* ... and the anchor must have imported it, else the transaction waits. *)
VerifyAnchor(p) ==
  /\ pc[p] = "anchored"
  /\ \/ /\ anchor = mem[p].c
        /\ Advance(p, InPhase(mem[p].t, "MAIN_VERIFIED"), "save")
     \/ anchor # mem[p].c /\ Advance(p, mem[p].t, "return")
  /\ UNCHANGED <<world, files, prepared>>

(* Fault variant of VerifyChecks: pending checks are taken for success. *)
VerifyChecksEarly(p) ==
  /\ pc[p] = "checks"
  /\ \/ /\ checks[mem[p].c] = "fail"
        /\ Advance(p, InPhase(mem[p].t, "REVERT_REQUIRED"), "save")
     \/ /\ checks[mem[p].c] # "fail"
        /\ Advance(p, InPhase(mem[p].t, "INVARIANTS_VERIFIED"), "save")
  /\ UNCHANGED <<world, files, prepared>>

(* MAIN_VERIFIED: the hosted post-push checks decide. *)
VerifyChecks(p) ==
  /\ pc[p] = "checks"
  /\ \/ /\ checks[mem[p].c] = "fail"
        /\ Advance(p, InPhase(mem[p].t, "REVERT_REQUIRED"), "save")
     \/ /\ checks[mem[p].c] = "pending"
        /\ Advance(p, mem[p].t, "return")
     \/ /\ checks[mem[p].c] = "pass"
        /\ Advance(p, InPhase(mem[p].t, "INVARIANTS_VERIFIED"), "save")
  /\ UNCHANGED <<world, files, prepared>>

(* REVERT_REQUIRED: make the revert commit and record it before the push.  *)
CreateRevert(p) ==
  /\ pc[p] = "revert"
  /\ Advance(p, [phase |-> "REVERT_REQUIRED", receipt |-> mem[p].t.receipt,
                 revert |-> RevertCommit(mem[p].c, p)], "save")
  /\ UNCHANGED <<world, files, prepared>>

(* _premerge_fail: the quarantine record, with mainChanged false, comes    *)
(* before the transaction is saved as FAILED.                              *)
Quarantine(p) ==
  /\ pc[p] = "quarantine"
  /\ rejected' = rejected \cup {mem[p].c}
  /\ Advance(p, mem[p].t, "save")
  /\ UNCHANGED <<world, tx, prepared>>

(* Where reconcile_transaction goes on after a _save. *)
AfterSave(t) ==
  IF t.phase = "PREPARED" THEN "freeze" ELSE Entry(t)

(* _save writes the process's copy over the file.  _hard raises after it.  *)
Save(p) ==
  /\ pc[p] = "save"
  /\ tx' = [tx EXCEPT ![mem[p].c] = mem[p].t]
  /\ IF mem[p].t.phase = "HARD_STUCK" THEN Raise(p)
     ELSE Advance(p, mem[p].t, AfterSave(mem[p].t))
  /\ UNCHANGED <<world, rejected, prepared>>

(* reconcile_transaction returns: the pass takes the next file; publish    *)
(* goes round again while the phase still changes.                         *)
Return(p) ==
  /\ pc[p] = "return"
  /\ LET t == mem[p].t IN
     IF mem[p].before = "PASS"
     THEN /\ Goto(p, "pass")
          /\ mem' = [mem EXCEPT ![p] = Idle]
     ELSE IF Terminal(t.phase) \/ t.phase = mem[p].before
     THEN /\ Goto(p, "off")
          /\ mem' = [mem EXCEPT ![p] = Idle]
     ELSE /\ Goto(p, Entry(t))
          /\ mem' = [mem EXCEPT ![p] =
                       [c |-> mem[p].c, t |-> t, before |-> t.phase]]
  /\ UNCHANGED <<world, files, todo, prepared>>

-----------------------------------------------------------------------------
Reconcile(p) ==
  \/ Observe(p) \/ Authorize(p) \/ AssertFrozen(p)
  \/ CheckMain(p) \/ PushMain(p) \/ ConfirmPush(p)
  \/ VerifyMain(p) \/ VerifyAnchor(p) \/ VerifyChecks(p)
  \/ CreateRevert(p) \/ Quarantine(p) \/ Save(p) \/ Return(p)

Pass(p) ==
  \/ StartPass(p)
  \/ \E c \in Candidates : PassNext(p, c)
  \/ PassEnd(p)

Publish(p) ==
  \E c \in Candidates : PrepareCandidate(p, c) \/ PublishNew(p, c)
                        \/ PublishRetry(p, c) \/ PublishChanged(p, c)

World ==
  \/ \E o \in Others : OtherPush(o)
  \/ UpdateAnchor
  \/ \E c \in Candidates :
       \/ \E a \in {"granted", "rejected", "unexpected"} : Answer(c, a)
       \/ \E v \in {"pass", "fail"} : Conclude(c, v)
       \/ Mutate(c)

Next ==
  \/ World
  \/ \E p \in Controllers : Publish(p)
  \/ \E p \in Publishers : Pass(p) \/ Reconcile(p) \/ Fail(p)

Spec == Init /\ [][Next]_vars

(* The controller retries a pending publication at every recheck, a        *)
(* process that runs goes on, the anchor updater runs on a timer, and the  *)
(* verifier and the hosted checks answer.  Disturbances are finitely many. *)
FairSpec ==
  /\ Spec
  /\ WF_vars(UpdateAnchor)
  /\ \A c \in Candidates :
       /\ WF_vars(\E a \in {"granted", "rejected", "unexpected"} : Answer(c, a))
       /\ WF_vars(\E v \in {"pass", "fail"} : Conclude(c, v))
  /\ \A p \in Controllers :
       WF_vars(StartPass(p) \/ \E c \in Candidates : PublishRetry(p, c))
  /\ \A p \in Publishers :
       /\ WF_vars(Reconcile(p))
       /\ WF_vars(\E c \in Candidates : PassNext(p, c))
       /\ WF_vars(PassEnd(p))

-----------------------------------------------------------------------------
(* reconcile_transaction, push_main: no candidate reaches main unless the  *)
(* independent verifier granted its receipt, it directly follows the base  *)
(* the receipt is bound to, and every revert directly follows the commit   *)
(* it reverts, so that restoring the base tree drops nobody else's commit; *)
(* and no commit is on main twice.                                         *)
PushesAreExact ==
  \A k \in 2 .. Len(main) :
     /\ main[k] \in Candidates =>
          main[k - 1] = base[main[k]] /\ receipt[main[k]] = "granted"
     /\ main[k] \in Reverts => main[k - 1] = main[k][1]
     /\ \A j \in 1 .. (k - 1) : main[j] # main[k]

(* publish's statuses tell the truth about main: MERGED_MAIN_VERIFIED only *)
(* for a commit that passed its checks there and was not reverted,         *)
(* REVERTED_MAIN_VERIFIED only after the revert; and a quarantine record   *)
(* says mainChanged: false (_premerge_fail) only for a candidate that is   *)
(* not on main, unless main moved on between its push and MERGED: Observe  *)
(* takes any main but the candidate for one the candidate never reached.   *)
OutcomeIsTrue ==
  \A c \in Candidates :
     /\ tx[c].phase = "INVARIANTS_VERIFIED" =>
          OnMain(c) /\ checks[c] = "pass" /\ ~RevertedOnMain(c)
     /\ tx[c].phase = "REVERTED" =>
          RevertedOnMain(c) /\ checks[c] = "fail"
     /\ c \in rejected => ~OnMain(c) \/ Tip # c

(* A revert no retry can finish: push_main insists on finding main at the  *)
(* published commit, and main has moved on, be it by this revert's own     *)
(* push before the failure.                                                *)
RevertBlocked(c) == tx[c].phase = "REVERT_REQUIRED" /\ Tip # c

(* reconcile_transaction: whatever fails and whoever else pushes, a        *)
(* transaction settles in a terminal phase or ends in a blocked revert.    *)
Settles ==
  \A c \in Candidates :
     (tx[c] # NoTx) ~> (Terminal(tx[c].phase) \/ RevertBlocked(c))
=============================================================================
