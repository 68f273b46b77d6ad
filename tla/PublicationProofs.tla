------------------------- MODULE PublicationProofs -------------------------
(***************************************************************************)
(* What is on main was granted and is exact, and what publish reports is   *)
(* true of main, for any number of candidates, publisher processes and     *)
(* disturbances.                                                           *)
(*                                                                         *)
(* Every process works on a private copy of a transaction and any of them  *)
(* may write it back at any time, so nothing can be said of a step without *)
(* saying what every copy is worth.  The inductive invariant therefore     *)
(* gives the files and the copies the same meaning (Truthful), ties the    *)
(* step a process is at to the phase of its copy (Phased) and keeps a      *)
(* quarantined candidate from ever becoming pushable (Refused).  None of   *)
(* this can be taken back by others, since what it rests on only grows:    *)
(* the commits on main, the bases, the verifier's answers and the          *)
(* conclusions of the checks (Forward).                                    *)
(***************************************************************************)
EXTENDS Publication, TLAPS

(* Every variable's type. *)
TypeOK ==
  /\ main \in Seq(Commits) /\ Len(main) > 0
  /\ anchor \in Commits
  /\ base \in [Candidates -> Commits \cup {NoCommit}]
  /\ receipt \in [Candidates -> {"absent", "granted", "rejected", "unexpected"}]
  /\ checks \in [Candidates -> {"pending", "pass", "fail"}]
  /\ frozen \in [Candidates -> BOOLEAN]
  /\ tx \in [Candidates -> Transaction \cup {NoTx}]
  /\ rejected \subseteq Candidates
  /\ pc \in [Publishers -> Steps]
  /\ mem \in [Publishers -> Memory]
  /\ todo \in [Publishers -> SUBSET Candidates]
  /\ prepared \in [Publishers -> SUBSET Candidates]

(* Where main comes from: what the anchor and the bases name was on main,  *)
(* no candidate is its own base, and a revert is pushed only after failed  *)
(* checks.                                                                 *)
Lineage ==
  /\ main[1] = Root
  /\ anchor \in Published
  /\ \A c \in Candidates : base[c] # NoCommit => base[c] \in Published /\ base[c] # c
  /\ \A c \in Candidates : RevertedOnMain(c) => checks[c] = "fail"

(* What a transaction t of c says about main and about the checks of c.    *)
Truthful(c, t) ==
  /\ t # NoTx => base[c] # NoCommit
  /\ t.phase \in {"MERGED", "MAIN_VERIFIED", "INVARIANTS_VERIFIED"} => OnMain(c)
  /\ t.phase = "INVARIANTS_VERIFIED" => checks[c] = "pass"
  /\ t.phase \in {"REVERT_REQUIRED", "REVERTED"} => checks[c] = "fail"
  /\ t.phase = "REVERTED" => RevertedOnMain(c)
  /\ t.revert # NoCommit => /\ checks[c] = "fail"
                            /\ \E q \in Publishers : t.revert = RevertCommit(c, q)

(* No process can push c any more, and the tip of main is not c.           *)
Refused(c) ==
  \/ receipt[c] \in {"rejected", "unexpected"}
  \/ base[c] # NoCommit /\ Tip \notin {c, base[c]}

(* The phase in which a process takes each step. *)
Phased(step, t) ==
  /\ step \in {"observe", "authorize", "freeze"} => t.phase = "PREPARED"
  /\ step \in {"check", "push", "confirm"} =>
       t.phase = "PREPARED" \/ (t.phase = "REVERT_REQUIRED" /\ t.revert # NoCommit)
  /\ step = "quarantine" => t.phase = "FAILED"
  /\ step \in {"verify", "anchored"} => t.phase = "MERGED"
  /\ step = "checks" => t.phase = "MAIN_VERIFIED"
  /\ step = "revert" => t.phase = "REVERT_REQUIRED"

(* All that holds of a process that works on the transaction t of c.       *)
Works(step, c, t) ==
  step \notin {"off", "pass"} =>
    /\ c \in Candidates /\ t \in Transaction
    /\ Truthful(c, t)
    /\ Phased(step, t)
    /\ step \in {"save", "freeze", "check", "push", "confirm"} /\ t.phase = "PREPARED"
         => receipt[c] = "granted"
    /\ step = "quarantine" => Refused(c)

PublicationInv ==
  /\ TypeOK /\ Lineage /\ PushesAreExact
  /\ \A c \in Candidates : Truthful(c, tx[c])
  /\ \A c \in rejected : Refused(c)
  /\ \A p \in Publishers : Works(pc[p], mem[p].c, mem[p].t)
  /\ \A p \in Publishers : \A c \in todo[p] : tx[c] # NoTx

-----------------------------------------------------------------------------
(* What the world never takes back: commits on main, bases, answers of the *)
(* verifier and conclusions of the hosted checks.                          *)
Forward ==
  /\ Published \subseteq Published'
  /\ \A c \in Candidates :
       /\ base[c] # NoCommit => base'[c] = base[c]
       /\ receipt[c] # "absent" => receipt'[c] = receipt[c]
       /\ checks[c] # "pending" => checks'[c] = checks[c]

(* main grows by x as push_main or another party lets it. *)
Grows(x) ==
  /\ x \in Commits \ Published
  /\ main' = Append(main, x)
  /\ x \in Candidates => Tip = base[x] /\ receipt[x] = "granted"
  /\ x \in Reverts => Tip = x[1]

Extends == main' = main \/ \E x \in Commits : Grows(x)

(* The positions of main hold what is published. *)
LEMMA MainPositions ==
  ASSUME TypeOK
  PROVE  /\ DOMAIN main = 1 .. Len(main) /\ Len(main) \in Nat
         /\ Tip \in Published /\ Tip \in Commits
         /\ Published \subseteq Commits
         /\ \A x : x \in Published <=> \E k \in 1 .. Len(main) : x = main[k]
  BY DEF TypeOK, Published, Tip

(* Growing by x puts x at the tip and leaves the rest. *)
LEMMA GrowsTo ==
  ASSUME TypeOK, NEW x, Grows(x)
  PROVE  /\ main' \in Seq(Commits) /\ Len(main') = Len(main) + 1
         /\ \A k \in 1 .. Len(main) : main'[k] = main[k]
         /\ main'[Len(main) + 1] = x
         /\ Tip' = x /\ Published' = Published \cup {x}
<1>1. /\ main' \in Seq(Commits) /\ Len(main') = Len(main) + 1
      /\ \A k \in 1 .. Len(main) : main'[k] = main[k]
      /\ main'[Len(main) + 1] = x
      /\ DOMAIN main' = 1 .. Len(main) + 1
      /\ Len(main) \in Nat
  BY DEF Grows, TypeOK
<1>2. \A y : y \in Published' <=> \E k \in 1 .. Len(main) + 1 : y = main'[k]
  BY <1>1 DEF Published
<1>3. \A y : y \in Published' <=> y \in Published \/ y = x
  <2>1. \A k \in 1 .. Len(main) + 1 : k \in 1 .. Len(main) \/ k = Len(main) + 1
    BY <1>1
  <2>2. Len(main) + 1 \in 1 .. Len(main) + 1 /\ 1 .. Len(main) \subseteq 1 .. Len(main) + 1
    BY <1>1
  <2> QED
    BY <1>1, <1>2, <2>1, <2>2, MainPositions
<1> QED
  BY <1>1, <1>3 DEF Tip

(* A push on the tip that main is expected to have keeps main exact. *)
LEMMA GrowsExactly ==
  ASSUME TypeOK, PushesAreExact, NEW x, Grows(x), base' = base, receipt' = receipt
  PROVE  PushesAreExact'
<1>1. /\ Len(main') = Len(main) + 1 /\ Len(main) \in Nat /\ Len(main) > 0
      /\ \A k \in 1 .. Len(main) : main'[k] = main[k]
      /\ main'[Len(main) + 1] = x
  BY GrowsTo, MainPositions DEF TypeOK
<1>2. ASSUME NEW k \in 2 .. Len(main)
      PROVE  /\ main'[k] \in Candidates =>
                  main'[k - 1] = base'[main'[k]] /\ receipt'[main'[k]] = "granted"
             /\ main'[k] \in Reverts => main'[k - 1] = main'[k][1]
             /\ \A j \in 1 .. (k - 1) : main'[j] # main'[k]
  <2>1. /\ k \in 1 .. Len(main) /\ k - 1 \in 1 .. Len(main)
        /\ 1 .. (k - 1) \subseteq 1 .. Len(main)
    BY <1>1
  <2> QED
    BY <1>1, <2>1 DEF PushesAreExact
<1>3. /\ x \in Candidates => main'[Len(main)] = base'[x] /\ receipt'[x] = "granted"
      /\ x \in Reverts => main'[Len(main)] = x[1]
      /\ \A j \in 1 .. Len(main) : main'[j] # x
  <2>1. main'[Len(main)] = Tip
    BY <1>1 DEF Tip
  <2>2. \A j \in 1 .. Len(main) : main[j] \in Published
    BY MainPositions
  <2> QED
    BY <1>1, <2>1, <2>2 DEF Grows
<1>4. ASSUME NEW k \in 2 .. Len(main')
      PROVE  k \in 2 .. Len(main) \/ k = Len(main) + 1
  BY <1>1
<1>5. (Len(main) + 1) - 1 = Len(main)
  BY <1>1
<1> QED
  BY <1>1, <1>2, <1>3, <1>4, <1>5 DEF PushesAreExact

(* What a transaction says stays true. *)
LEMMA StaysTruthful ==
  ASSUME NEW c \in Candidates, NEW t, Truthful(c, t), Forward
  PROVE  Truthful(c, t)'
  BY DEF Truthful, Forward, OnMain, RevertedOnMain

(* A candidate that cannot be pushed never will be. *)
LEMMA StaysRefused ==
  ASSUME TypeOK, Lineage, NEW c \in Candidates, Refused(c), Forward, Extends
  PROVE  Refused(c)'
<1>1. CASE receipt[c] \in {"rejected", "unexpected"}
  BY <1>1 DEF Refused, Forward
<1>2. CASE base[c] # NoCommit /\ Tip \notin {c, base[c]}
  <2>1. base'[c] = base[c] /\ base[c] \in Published
    BY <1>2 DEF Forward, Lineage
  <2>2. CASE main' = main
    BY <1>2, <2>1, <2>2 DEF Refused, Tip
  <2>3. ASSUME NEW x \in Commits, Grows(x)
        PROVE  Refused(c)'
    <3>1. Tip' = x /\ x \notin Published /\ (x = c => Tip = base[c])
      BY <2>3, GrowsTo DEF Grows
    <3> QED
      BY <1>2, <2>1, <3>1 DEF Refused
  <2> QED
    BY <2>2, <2>3 DEF Extends
<1> QED
  BY <1>1, <1>2 DEF Refused

(* What holds of a process keeps holding while others move. *)
LEMMA StaysAtWork ==
  ASSUME TypeOK, Lineage, NEW step, NEW c, NEW t, Works(step, c, t), Forward, Extends
  PROVE  Works(step, c, t)'
<1>1. CASE step \in {"off", "pass"}
  BY <1>1 DEF Works
<1>2. CASE step \notin {"off", "pass"}
  <2>1. /\ c \in Candidates /\ t \in Transaction /\ Truthful(c, t) /\ Phased(step, t)
        /\ step \in {"save", "freeze", "check", "push", "confirm"} /\ t.phase = "PREPARED"
             => receipt[c] = "granted"
        /\ step = "quarantine" => Refused(c)
    BY <1>2 DEF Works
  <2>2. Truthful(c, t)'
    BY <2>1, StaysTruthful
  <2>3. step = "quarantine" => Refused(c)'
    BY <2>1, StaysRefused
  <2>4. receipt[c] = "granted" => receipt'[c] = "granted"
    BY <2>1 DEF Forward
  <2> QED
    BY <2>1, <2>2, <2>3, <2>4 DEF Works
<1> QED
  BY <1>1, <1>2

(* A step of p is safe when what it does itself is. *)
LEMMA StepSafe ==
  ASSUME PublicationInv, TypeOK', Lineage', PushesAreExact', Forward, Extends,
         NEW p \in Publishers,
         \A q \in Publishers \ {p} :
           pc'[q] = pc[q] /\ mem'[q] = mem[q] /\ todo'[q] = todo[q],
         \A c \in Candidates : \/ tx'[c] = tx[c]
                               \/ tx'[c] # NoTx /\ Truthful(c, tx[c])',
         \A c \in rejected' : c \in rejected \/ Refused(c)',
         Works(pc[p], mem[p].c, mem[p].t)',
         \A c \in todo'[p] : tx'[c] # NoTx
  PROVE  PublicationInv'
<1>1. TypeOK /\ Lineage
  BY DEF PublicationInv
<1>2. ASSUME NEW c \in Candidates
      PROVE  Truthful(c, tx[c])'
  <2>1. CASE tx'[c] = tx[c]
    <3> DEFINE t == tx[c]
    <3>1. ASSUME NEW u, u = t
          PROVE  Truthful(c, u)'
      BY <3>1, StaysTruthful DEF PublicationInv
    <3> QED
      BY <2>1, <3>1 DEF Truthful
  <2> QED
    BY <2>1
<1>3. ASSUME NEW c \in rejected'
      PROVE  Refused(c)'
  <2>1. c \in Candidates
    BY <1>3 DEF TypeOK
  <2> QED
    BY <1>1, <1>3, <2>1, StaysRefused DEF PublicationInv
<1>4. ASSUME NEW q \in Publishers
      PROVE  Works(pc[q], mem[q].c, mem[q].t)'
  <2>1. CASE q # p
    <3>1. ASSUME NEW step, NEW c, NEW t, step = pc[q], c = mem[q].c, t = mem[q].t
          PROVE  Works(step, c, t)'
      BY <1>1, <3>1, StaysAtWork DEF PublicationInv
    <3>2. pc'[q] = pc[q] /\ mem'[q] = mem[q]
      BY <2>1
    <3> QED
      BY <3>1, <3>2 DEF Works
  <2> QED
    BY <2>1
<1>5. ASSUME NEW q \in Publishers, NEW c \in todo'[q]
      PROVE  tx'[c] # NoTx
  <2>1. c \in Candidates
    BY <1>5 DEF TypeOK
  <2> QED
    BY <1>5, <2>1 DEF PublicationInv
<1> QED
  BY <1>2, <1>3, <1>4, <1>5 DEF PublicationInv

(* The local part of a step. *)
LEMMA LocalSafe ==
  ASSUME PublicationInv, TypeOK', UNCHANGED <<main, anchor, base, receipt, checks>>,
         UNCHANGED <<tx, rejected>>, NEW p \in Publishers,
         \A q \in Publishers \ {p} :
           pc'[q] = pc[q] /\ mem'[q] = mem[q] /\ todo'[q] = todo[q],
         Works(pc'[p], mem'[p].c, mem'[p].t),
         \A c \in todo'[p] : tx[c] # NoTx
  PROVE  PublicationInv'
<1>1. /\ Lineage' /\ PushesAreExact' /\ Forward /\ Extends /\ TypeOK /\ Lineage
  BY DEF PublicationInv, Lineage, PushesAreExact, Forward, Extends, Published,
         RevertedOnMain
<1>2. ASSUME NEW step, NEW c, NEW t, Works(step, c, t)
      PROVE  Works(step, c, t)'
  BY <1>1, <1>2, StaysAtWork
<1>3. Works(pc[p], mem[p].c, mem[p].t)'
  <2>1. ASSUME NEW step, NEW c, NEW t, step = pc'[p], c = mem'[p].c, t = mem'[p].t
        PROVE  Works(step, c, t)'
    BY <1>2, <2>1
  <2> QED
    BY <2>1 DEF Works
<1> QED
  BY <1>1, <1>3, StepSafe

(* A step of the world around the publishers. *)
LEMMA WorldSafe ==
  ASSUME PublicationInv, TypeOK', Lineage', PushesAreExact', Forward, Extends,
         UNCHANGED <<tx, rejected, pc, mem, todo>>
  PROVE  PublicationInv'
<1>1. TypeOK /\ Lineage /\ rejected \subseteq Candidates
      /\ todo \in [Publishers -> SUBSET Candidates]
  BY DEF PublicationInv, TypeOK
<1>2. ASSUME NEW c \in Candidates
      PROVE  Truthful(c, tx[c])'
  <2>1. ASSUME NEW u, u = tx[c]
        PROVE  Truthful(c, u)'
    BY <2>1, StaysTruthful DEF PublicationInv
  <2> QED
    BY <2>1 DEF Truthful
<1>3. \A c \in rejected' : Refused(c)'
  BY <1>1, StaysRefused DEF PublicationInv
<1>4. ASSUME NEW q \in Publishers
      PROVE  Works(pc[q], mem[q].c, mem[q].t)'
  <2>1. ASSUME NEW step, NEW c, NEW t, step = pc[q], c = mem[q].c, t = mem[q].t
        PROVE  Works(step, c, t)'
    BY <1>1, <2>1, StaysAtWork DEF PublicationInv
  <2> QED
    BY <2>1 DEF Works
<1> QED
  BY <1>2, <1>3, <1>4 DEF PublicationInv

(* Transactions and their phases have their types. *)
LEMMA TransactionType ==
  /\ Fresh \in Transaction /\ NoTx \notin Transaction /\ NoTx # Fresh
  /\ \A t \in Transaction : \A phase \in Phases :
       /\ InPhase(t, phase) \in Transaction
       /\ InPhase(t, phase).phase = phase
       /\ InPhase(t, phase).receipt = t.receipt
       /\ InPhase(t, phase).revert = t.revert
  /\ Idle \in Memory
  BY DEF Fresh, NoTx, Transaction, InPhase, Phases, Idle, Memory

(* An exception leaves nothing in memory. *)
LEMMA RaiseSafe ==
  ASSUME PublicationInv, NEW p \in Publishers, Raise(p),
         UNCHANGED <<main, anchor, base, receipt, checks, frozen, tx, rejected>>,
         prepared' \in [Publishers -> SUBSET Candidates]
  PROVE  PublicationInv'
<1>1. TypeOK'
  BY TransactionType DEF PublicationInv, TypeOK, Raise, Goto, Steps
<1>2. /\ pc'[p] = "off" /\ todo'[p] = {}
      /\ \A q \in Publishers \ {p} :
           pc'[q] = pc[q] /\ mem'[q] = mem[q] /\ todo'[q] = todo[q]
  BY DEF PublicationInv, TypeOK, Raise, Goto
<1>3. Works(pc'[p], mem'[p].c, mem'[p].t)
  BY <1>2 DEF Works
<1> QED
  BY <1>1, <1>2, <1>3, LocalSafe

(* A step that goes on with the transaction t and changes no file. *)
LEMMA AdvanceSafe ==
  ASSUME PublicationInv, NEW p \in Publishers, NEW t \in Transaction,
         NEW step \in Steps, Advance(p, t, step), UNCHANGED <<world, files, prepared>>,
         pc[p] \notin {"off", "pass"},
         Truthful(mem[p].c, t), Phased(step, t),
         step \in {"save", "freeze", "check", "push", "confirm"} /\ t.phase = "PREPARED"
           => receipt[mem[p].c] = "granted",
         step = "quarantine" => Refused(mem[p].c)
  PROVE  PublicationInv'
<1>1. TypeOK /\ mem[p] \in Memory /\ mem[p].c \in Candidates
  BY DEF PublicationInv, TypeOK, Works
<1>2. [c |-> mem[p].c, t |-> t, before |-> mem[p].before] \in Memory
  BY <1>1 DEF Memory
<1>3. /\ mem'[p].c = mem[p].c /\ mem'[p].t = t /\ pc'[p] = step
      /\ todo' = todo
      /\ \A q \in Publishers \ {p} : pc'[q] = pc[q] /\ mem'[q] = mem[q]
  BY <1>1 DEF TypeOK, Advance, Goto
<1>4. TypeOK'
  BY <1>1, <1>2 DEF TypeOK, Advance, Goto, world, files
<1>5. Works(step, mem[p].c, t)
  BY <1>1 DEF Works
<1>6. \A c \in todo'[p] : tx[c] # NoTx
  BY <1>3 DEF PublicationInv
<1> QED
  BY <1>3, <1>4, <1>5, <1>6, LocalSafe DEF world, files

(* A process that takes up a transaction from its file. *)
LEMMA TakeUpSafe ==
  ASSUME PublicationInv, NEW p \in Publishers, NEW c \in Candidates,
         NEW t \in Transaction, Truthful(c, t), NEW before \in Phases \cup {"PASS"},
         NEW step \in {Entry(t), "save"}, step = "save" => t.phase # "PREPARED",
         mem' = [mem EXCEPT ![p] = [c |-> c, t |-> t, before |-> before]],
         Goto(p, step), todo'[p] \subseteq todo[p],
         \A q \in Publishers \ {p} : todo'[q] = todo[q],
         todo' \in [Publishers -> SUBSET Candidates],
         UNCHANGED <<main, anchor, base, receipt, checks, frozen, files, prepared>>
  PROVE  PublicationInv'
<1>1. TypeOK /\ [c |-> c, t |-> t, before |-> before] \in Memory
  BY DEF PublicationInv, Memory
<1>2. /\ step \in Steps /\ Phased(step, t)
      /\ step \notin {"freeze", "push", "confirm", "quarantine"}
      /\ step \in {"save", "check"} => t.phase # "PREPARED"
  BY DEF Entry, Steps, Phased
<1>3. /\ mem'[p].c = c /\ mem'[p].t = t /\ pc'[p] = step
      /\ \A q \in Publishers \ {p} : pc'[q] = pc[q] /\ mem'[q] = mem[q]
  BY <1>1 DEF TypeOK, Goto
<1>4. TypeOK'
  BY <1>1, <1>2 DEF TypeOK, Goto, files
<1>5. Works(step, c, t)
  BY <1>2 DEF Works
<1>6. \A d \in todo'[p] : tx[d] # NoTx
  BY DEF PublicationInv
<1> QED
  BY <1>3, <1>4, <1>5, <1>6, LocalSafe DEF files

(* What the worker of a step knows. *)
LEMMA AtWork ==
  ASSUME PublicationInv, NEW p \in Publishers, pc[p] \notin {"off", "pass"}
  PROVE  /\ TypeOK /\ Lineage /\ mem[p] \in Memory
         /\ mem[p].c \in Candidates /\ mem[p].t \in Transaction /\ mem[p].t # NoTx
         /\ Truthful(mem[p].c, mem[p].t) /\ Phased(pc[p], mem[p].t)
         /\ base[mem[p].c] # NoCommit
         /\ base[mem[p].c] \in Published /\ base[mem[p].c] # mem[p].c
         /\ pc[p] \in {"save", "freeze", "check", "push", "confirm"}
              /\ mem[p].t.phase = "PREPARED" => receipt[mem[p].c] = "granted"
         /\ pc[p] = "quarantine" => Refused(mem[p].c)
<1>1. /\ TypeOK /\ Lineage /\ mem[p] \in Memory
      /\ mem[p].c \in Candidates /\ mem[p].t \in Transaction
      /\ Works(pc[p], mem[p].c, mem[p].t)
  BY DEF PublicationInv, TypeOK, Works
<1>2. mem[p].t # NoTx
  BY <1>1, TransactionType
<1>3. base[mem[p].c] # NoCommit
  BY <1>1, <1>2 DEF Works, Truthful
<1> QED
  BY <1>1, <1>2, <1>3 DEF Works, Lineage

(* A change of phase that the phase's own conditions justify. *)
LEMMA NewPhase ==
  ASSUME NEW c \in Candidates, NEW t \in Transaction, Truthful(c, t),
         base[c] # NoCommit, NEW phase \in Phases,
         phase \in {"MERGED", "MAIN_VERIFIED", "INVARIANTS_VERIFIED"} => OnMain(c),
         phase = "INVARIANTS_VERIFIED" => checks[c] = "pass",
         phase \in {"REVERT_REQUIRED", "REVERTED"} => checks[c] = "fail",
         phase = "REVERTED" => RevertedOnMain(c)
  PROVE  /\ InPhase(t, phase) \in Transaction
         /\ Truthful(c, InPhase(t, phase))
         /\ InPhase(t, phase).phase = phase
         /\ InPhase(t, phase).revert = t.revert
  BY TransactionType DEF Truthful

(* Each step of reconcile_transaction is safe. *)
LEMMA ObserveSafe ==
  ASSUME PublicationInv, NEW p \in Publishers, Observe(p)
  PROVE  PublicationInv'
<1> DEFINE c == mem[p].c
           t == mem[p].t
<1>1. /\ pc[p] = "observe" /\ UNCHANGED <<world, files, prepared>>
      /\ pc[p] \notin {"off", "pass"}
  BY DEF Observe
<1>2. /\ TypeOK /\ c \in Candidates /\ t \in Transaction /\ Truthful(c, t)
      /\ base[c] # NoCommit /\ t.phase = "PREPARED"
  BY <1>1, AtWork DEF Phased
<1> HIDE DEF c, t
<1>3. CASE Tip = c /\ Advance(p, InPhase(t, "MERGED"), "save")
  <2>1. OnMain(c)
    BY <1>2, <1>3, MainPositions DEF OnMain
  <2>2. "MERGED" \in Phases /\ "save" \in Steps
    BY DEF Phases, Steps
  <2>3. /\ InPhase(t, "MERGED") \in Transaction /\ Truthful(c, InPhase(t, "MERGED"))
        /\ InPhase(t, "MERGED").phase = "MERGED"
    BY <1>2, <2>1, <2>2, NewPhase
  <2>4. Phased("save", InPhase(t, "MERGED"))
    BY DEF Phased
  <2> QED
    BY <1>1, <1>3, <2>2, <2>3, <2>4, AdvanceSafe DEF c
<1>4. CASE Tip \notin {c, base[c]} /\ Advance(p, InPhase(t, "FAILED"), "quarantine")
  <2>1. "FAILED" \in Phases /\ "quarantine" \in Steps
    BY DEF Phases, Steps
  <2>2. /\ InPhase(t, "FAILED") \in Transaction /\ Truthful(c, InPhase(t, "FAILED"))
        /\ InPhase(t, "FAILED").phase = "FAILED"
    BY <1>2, <2>1, NewPhase
  <2>3. Phased("quarantine", InPhase(t, "FAILED")) /\ Refused(c)
    BY <1>2, <1>4, <2>2 DEF Phased, Refused
  <2> QED
    BY <1>1, <1>4, <2>1, <2>2, <2>3, AdvanceSafe DEF c
<1>5. CASE Advance(p, t, "authorize")
  <2>1. "authorize" \in Steps /\ Phased("authorize", t)
    BY <1>2 DEF Steps, Phased
  <2> QED
    BY <1>1, <1>2, <1>5, <2>1, AdvanceSafe DEF c
<1> QED
  BY <1>3, <1>4, <1>5 DEF Observe, c, t

(* The receipt: without an answer the process waits, a grant is recorded. *)
LEMMA AuthorizeSafe ==
  ASSUME PublicationInv, NEW p \in Publishers, Authorize(p)
  PROVE  PublicationInv'
<1> DEFINE c == mem[p].c
           t == mem[p].t
<1>1. /\ pc[p] = "authorize" /\ UNCHANGED <<world, files, prepared>>
      /\ pc[p] \notin {"off", "pass"}
  BY DEF Authorize
<1>2. /\ TypeOK /\ c \in Candidates /\ t \in Transaction /\ Truthful(c, t)
      /\ base[c] # NoCommit /\ t.phase = "PREPARED"
  BY <1>1, AtWork DEF Phased
<1> HIDE DEF c, t
<1>3. CASE Advance(p, t, "return")
  <2>1. "return" \in Steps /\ Phased("return", t)
    BY DEF Steps, Phased
  <2> QED
    BY <1>1, <1>2, <1>3, <2>1, AdvanceSafe DEF c
<1>4. CASE /\ receipt[c] \in {"rejected", "unexpected"}
           /\ Advance(p, InPhase(t, "FAILED"), "quarantine")
  <2>1. "FAILED" \in Phases /\ "quarantine" \in Steps
    BY DEF Phases, Steps
  <2>2. /\ InPhase(t, "FAILED") \in Transaction /\ Truthful(c, InPhase(t, "FAILED"))
        /\ InPhase(t, "FAILED").phase = "FAILED"
    BY <1>2, <2>1, NewPhase
  <2>3. Phased("quarantine", InPhase(t, "FAILED")) /\ Refused(c)
    BY <1>4, <2>2 DEF Phased, Refused
  <2> QED
    BY <1>1, <1>4, <2>1, <2>2, <2>3, AdvanceSafe DEF c
<1>5. CASE /\ receipt[c] = "granted"
           /\ Advance(p, [phase |-> "PREPARED", receipt |-> TRUE,
                          revert |-> t.revert], "save")
  <2> DEFINE u == [phase |-> "PREPARED", receipt |-> TRUE, revert |-> t.revert]
  <2>1. u \in Transaction /\ u.phase = "PREPARED" /\ u.revert = t.revert
    BY <1>2 DEF Transaction, Phases
  <2> HIDE DEF u
  <2>2. Truthful(c, u) /\ Phased("save", u) /\ "save" \in Steps
    BY <1>2, <2>1 DEF Truthful, Phased, Steps
  <2> QED
    BY <1>1, <1>5, <2>1, <2>2, AdvanceSafe DEF c, u
<1> QED
  BY <1>3, <1>4, <1>5 DEF Authorize, c, t

(* The freeze check and the three verifications on main. *)
LEMMA VerifySafe ==
  ASSUME PublicationInv, NEW p \in Publishers,
         AssertFrozen(p) \/ VerifyMain(p) \/ VerifyAnchor(p) \/ VerifyChecks(p)
  PROVE  PublicationInv'
<1> DEFINE c == mem[p].c
           t == mem[p].t
<1>1. /\ pc[p] \in {"freeze", "verify", "anchored", "checks"}
      /\ UNCHANGED <<world, files, prepared>> /\ pc[p] \notin {"off", "pass"}
  BY DEF AssertFrozen, VerifyMain, VerifyAnchor, VerifyChecks
<1>2. /\ TypeOK /\ c \in Candidates /\ t \in Transaction /\ Truthful(c, t)
      /\ base[c] # NoCommit /\ Phased(pc[p], t)
      /\ pc[p] = "freeze" => receipt[c] = "granted"
  BY <1>1, AtWork DEF Phased
<1> HIDE DEF c, t
<1>3. ASSUME NEW phase \in {"HARD_STUCK", "MAIN_VERIFIED", "INVARIANTS_VERIFIED",
                            "REVERT_REQUIRED"},
             phase \in {"MAIN_VERIFIED", "INVARIANTS_VERIFIED"} => OnMain(c),
             phase = "INVARIANTS_VERIFIED" => checks[c] = "pass",
             phase = "REVERT_REQUIRED" => checks[c] = "fail",
             Advance(p, InPhase(t, phase), "save")
      PROVE  PublicationInv'
  <2>1. phase \in Phases /\ "save" \in Steps
    BY DEF Phases, Steps
  <2>2. /\ InPhase(t, phase) \in Transaction /\ Truthful(c, InPhase(t, phase))
        /\ InPhase(t, phase).phase = phase
    BY <1>2, <1>3, <2>1, NewPhase
  <2>3. Phased("save", InPhase(t, phase)) /\ phase # "PREPARED"
    BY DEF Phased
  <2> QED
    BY <1>1, <1>3, <2>1, <2>2, <2>3, AdvanceSafe DEF c
<1>4. ASSUME NEW step \in {"check", "anchored", "return"}, Phased(step, t),
             step = "check" => receipt[c] = "granted", Advance(p, t, step)
      PROVE  PublicationInv'
  <2>1. step \in Steps
    BY DEF Steps
  <2> QED
    BY <1>1, <1>2, <1>4, <2>1, AdvanceSafe DEF c
<1>5. CASE AssertFrozen(p)
  BY <1>2, <1>3, <1>4, <1>5 DEF AssertFrozen, Phased, c, t
<1>6. CASE VerifyMain(p)
  BY <1>2, <1>3, <1>4, <1>6 DEF VerifyMain, Phased, c, t
<1>7. CASE VerifyAnchor(p)
  <2>1. OnMain(c) /\ Phased("return", t)
    BY <1>2, <1>7 DEF VerifyAnchor, Phased, Truthful
  <2> QED
    BY <1>3, <1>4, <1>7, <2>1 DEF VerifyAnchor, c, t
<1>8. CASE VerifyChecks(p)
  <2>1. OnMain(c) /\ Phased("return", t)
    BY <1>2, <1>8 DEF VerifyChecks, Phased, Truthful
  <2> QED
    BY <1>3, <1>4, <1>8, <2>1 DEF VerifyChecks, c, t
<1> QED
  BY <1>5, <1>6, <1>7, <1>8

(* The revert commit is made only after failed checks. *)
LEMMA RevertSafe ==
  ASSUME PublicationInv, NEW p \in Publishers, CreateRevert(p)
  PROVE  PublicationInv'
<1> DEFINE c == mem[p].c
           u == [phase |-> "REVERT_REQUIRED", receipt |-> mem[p].t.receipt,
                 revert |-> RevertCommit(c, p)]
<1>1. /\ pc[p] = "revert" /\ pc[p] \notin {"off", "pass"}
      /\ Advance(p, u, "save") /\ UNCHANGED <<world, files, prepared>>
  BY DEF CreateRevert
<1>2. /\ c \in Candidates /\ mem[p].t \in Transaction
      /\ base[c] # NoCommit /\ checks[c] = "fail"
  BY <1>1, AtWork DEF Phased, Truthful
<1> HIDE DEF c
<1>3. RevertCommit(c, p) \in Reverts
  BY <1>2 DEF RevertCommit, Reverts
<1>4. u \in Transaction /\ u.phase = "REVERT_REQUIRED" /\ u.revert = RevertCommit(c, p)
  BY <1>2, <1>3 DEF Transaction, Phases
<1> HIDE DEF u
<1>5. Truthful(c, u) /\ Phased("save", u) /\ "save" \in Steps
  BY <1>2, <1>4 DEF Truthful, Phased, Steps
<1> QED
  BY <1>1, <1>4, <1>5, AdvanceSafe DEF c

(* The push: of a candidate with its receipt on its base, or of a revert   *)
(* on the commit it reverts.                                               *)
LEMMA PushSafe ==
  ASSUME PublicationInv, NEW p \in Publishers,
         CheckMain(p) \/ PushMain(p) \/ ConfirmPush(p)
  PROVE  PublicationInv'
<1> DEFINE c == mem[p].c
           t == mem[p].t
           x == Pushed(p)
<1>1. /\ pc[p] \in {"check", "push", "confirm"} /\ pc[p] \notin {"off", "pass"}
      /\ UNCHANGED <<anchor, base, receipt, checks, frozen, disturbances, files, prepared>>
  BY DEF CheckMain, PushMain, ConfirmPush, world
<1>2. /\ TypeOK /\ Lineage /\ PushesAreExact
      /\ c \in Candidates /\ t \in Transaction /\ Truthful(c, t)
      /\ base[c] # NoCommit /\ base[c] \in Published /\ base[c] # c
      /\ t.phase = "PREPARED" \/ (t.phase = "REVERT_REQUIRED" /\ t.revert # NoCommit)
      /\ t.phase = "PREPARED" => receipt[c] = "granted"
      /\ prepared \in [Publishers -> SUBSET Candidates]
  BY <1>1, AtWork DEF Phased, PublicationInv, TypeOK
<1>3. /\ t.phase = "PREPARED" => x = c /\ Expected(p) = base[c]
      /\ t.phase # "PREPARED" => x = t.revert /\ Expected(p) = c
  BY DEF Pushed, Expected
<1> HIDE DEF c, t, x
<1>4. ASSUME Raise(p), UNCHANGED main
      PROVE  PublicationInv'
  BY <1>1, <1>2, <1>4, RaiseSafe DEF files
<1>5. ASSUME NEW step \in {"push", "confirm"}, Advance(p, t, step), UNCHANGED main
      PROVE  PublicationInv'
  <2>1. step \in Steps /\ Phased(step, t)
    BY <1>2 DEF Steps, Phased
  <2> QED
    BY <1>1, <1>2, <1>5, <2>1, AdvanceSafe DEF c, world
<1>6. CASE CheckMain(p)
  BY <1>4, <1>5, <1>6 DEF CheckMain, world, t
<1>7. CASE PushMain(p)
  <2>1. CASE /\ Tip = Expected(p)
             /\ main' = Append(main, x)
             /\ Advance(p, t, "confirm")
    <3>1. x \in Commits /\ x \notin Published
      <4>1. ASSUME x \in Published, x # Root
            PROVE  \E k \in 2 .. Len(main) : x = main[k]
        <5>1. PICK k \in 1 .. Len(main) : x = main[k]
          BY <1>2, <4>1, MainPositions
        <5>2. k # 1 /\ Len(main) \in Nat
          BY <1>2, <4>1, <5>1, MainPositions DEF Lineage
        <5> QED
          BY <5>1, <5>2
      <4>2. \A k \in 2 .. Len(main) : main[k - 1] # Tip
        <5>1. ASSUME NEW k \in 2 .. Len(main), main[k - 1] = Tip
              PROVE  FALSE
          <6>1. /\ Len(main) \in Nat /\ Len(main) \in 2 .. Len(main)
                /\ k - 1 \in 1 .. (Len(main) - 1)
            BY <1>2, MainPositions
          <6>2. main[k - 1] # main[Len(main)]
            BY <1>2, <6>1 DEF PushesAreExact
          <6> QED
            BY <5>1, <6>2 DEF Tip
        <5> QED
          BY <5>1
      <4>3. CASE t.phase = "PREPARED"
        <5>1. x = c /\ Tip = base[c] /\ x \in Commits /\ x # Root
          BY <1>2, <1>3, <2>1, <4>3, PublicationConstants DEF Commits
        <5> QED
          BY <1>2, <4>1, <4>2, <5>1 DEF PushesAreExact
      <4>4. CASE t.phase # "PREPARED"
        <5>1. PICK q \in Publishers : x = RevertCommit(c, q)
          BY <1>2, <1>3, <4>4 DEF Truthful
        <5>2. x \in Reverts /\ x[1] = c /\ Tip = c
          BY <1>2, <1>3, <2>1, <4>4, <5>1 DEF RevertCommit, Reverts
        <5>3. x # Root
          BY <5>2, PublicationConstants
        <5> QED
          BY <1>2, <4>1, <4>2, <5>2, <5>3 DEF PushesAreExact, Commits
      <4> QED
        BY <4>3, <4>4
    <3>2. /\ x \in Candidates => Tip = base[x] /\ receipt[x] = "granted"
          /\ x \in Reverts => Tip = x[1] /\ x[1] = c /\ checks[c] = "fail"
      <4>1. CASE t.phase = "PREPARED"
        BY <1>2, <1>3, <2>1, <4>1, PublicationConstants
      <4>2. CASE t.phase # "PREPARED"
        <5>1. PICK q \in Publishers : x = RevertCommit(c, q)
          BY <1>2, <1>3, <4>2 DEF Truthful
        <5>2. x \in Reverts /\ x[1] = c /\ Tip = c /\ checks[c] = "fail"
          BY <1>2, <1>3, <2>1, <4>2, <5>1 DEF RevertCommit, Reverts, Truthful
        <5> QED
          BY <5>2, PublicationConstants
      <4> QED
        BY <4>1, <4>2
    <3>3. Grows(x) /\ Extends
      BY <2>1, <3>1, <3>2 DEF Grows, Extends
    <3>4. /\ main' \in Seq(Commits) /\ Len(main') = Len(main) + 1 /\ Len(main) \in Nat
          /\ main'[1] = main[1] /\ Published' = Published \cup {x} /\ Tip' = x
      <4>1. 1 \in 1 .. Len(main)
        BY <1>2, MainPositions DEF TypeOK
      <4> QED
        BY <1>2, <3>3, <4>1, GrowsTo, MainPositions
    <3>5. PushesAreExact'
      BY <1>1, <1>2, <3>3, GrowsExactly
    <3>6. Forward
      BY <1>1, <3>4 DEF Forward
    <3>7. Lineage'
      <4>1. \A d \in Candidates : RevertedOnMain(d)' => RevertedOnMain(d) \/ checks[d] = "fail"
        <5>1. ASSUME NEW d \in Candidates, NEW q \in Publishers, RevertCommit(d, q) = x
              PROVE  checks[d] = "fail"
          <6>1. x \in Reverts /\ x[1] = d
            BY <5>1 DEF RevertCommit, Reverts
          <6> QED
            BY <3>2, <6>1
        <5> QED
          BY <3>4, <5>1 DEF RevertedOnMain
      <4> QED
        BY <1>1, <1>2, <3>4, <4>1 DEF Lineage
    <3>8. /\ mem'[p].c = c /\ mem'[p].t = t /\ pc'[p] = "confirm" /\ todo' = todo
          /\ \A q \in Publishers \ {p} : pc'[q] = pc[q] /\ mem'[q] = mem[q]
          /\ mem' \in [Publishers -> Memory] /\ pc' \in [Publishers -> Steps]
      <4>1. /\ [c |-> c, t |-> t, before |-> mem[p].before] \in Memory
            /\ "confirm" \in Steps
        BY <1>2 DEF TypeOK, Memory, Steps
      <4> QED
        BY <1>2, <2>1, <4>1 DEF TypeOK, Advance, Goto, c
    <3>9. TypeOK'
      BY <1>1, <1>2, <3>4, <3>8 DEF TypeOK, files
    <3>10. Works("confirm", c, t)
      BY <1>2 DEF Works, Phased
    <3>11. ASSUME NEW d, NEW u, Works("confirm", d, u)
           PROVE  Works("confirm", d, u)'
      BY <1>2, <3>3, <3>6, <3>11, StaysAtWork
    <3>12. Works(pc[p], mem[p].c, mem[p].t)'
      <4>1. ASSUME NEW d, NEW u, d = c, u = t
            PROVE  Works("confirm", d, u)'
        BY <3>10, <3>11, <4>1
      <4>2. ASSUME NEW step, NEW d, NEW u, step = "confirm", d = c, u = t
            PROVE  Works(step, d, u)'
        BY <4>1, <4>2
      <4>3. ASSUME NEW step, NEW d, NEW u, step = pc'[p], d = mem'[p].c, u = mem'[p].t
            PROVE  Works(step, d, u)'
        BY <3>8, <4>2, <4>3
      <4> QED
        BY <4>3 DEF Works
    <3>13. \A d \in todo'[p] : tx'[d] # NoTx
      BY <1>1, <3>8 DEF PublicationInv, files
    <3> QED
      BY <1>1, <3>3, <3>5, <3>6, <3>7, <3>8, <3>9, <3>12, <3>13, StepSafe DEF files
  <2> QED
    BY <1>4, <1>5, <1>7, <2>1 DEF PushMain, t, x
<1>8. CASE ConfirmPush(p)
  <2>1. CASE Raise(p) /\ UNCHANGED main
    BY <1>4, <2>1
  <2>2. CASE /\ Tip = x /\ UNCHANGED main
             /\ Advance(p, InPhase(t, IF t.phase = "PREPARED"
                                      THEN "MERGED" ELSE "REVERTED"), "save")
    <3> DEFINE phase == IF t.phase = "PREPARED" THEN "MERGED" ELSE "REVERTED"
    <3>1. x \in Published
      BY <1>2, <2>2, MainPositions
    <3>2. /\ phase \in Phases /\ "save" \in Steps /\ phase # "PREPARED"
          /\ phase \notin {"INVARIANTS_VERIFIED", "MAIN_VERIFIED", "REVERT_REQUIRED"}
          /\ phase = "MERGED" => t.phase = "PREPARED"
          /\ phase = "REVERTED" => t.phase = "REVERT_REQUIRED" /\ t.revert # NoCommit
      BY <1>2 DEF Phases, Steps
    <3>3. phase = "MERGED" => OnMain(c)
      BY <1>3, <3>1, <3>2 DEF OnMain
    <3>4. phase = "REVERTED" => RevertedOnMain(c) /\ checks[c] = "fail"
      BY <1>2, <1>3, <3>1, <3>2 DEF RevertedOnMain, Truthful
    <3> HIDE DEF phase
    <3>5. /\ InPhase(t, phase) \in Transaction /\ Truthful(c, InPhase(t, phase))
          /\ InPhase(t, phase).phase = phase
      BY <1>2, <3>2, <3>3, <3>4, NewPhase
    <3>6. Phased("save", InPhase(t, phase))
      BY DEF Phased
    <3>7. Advance(p, InPhase(t, phase), "save")
      BY <2>2 DEF phase
    <3> QED
      BY <1>1, <2>2, <3>2, <3>5, <3>6, <3>7, AdvanceSafe DEF c, world
  <2> QED
    BY <1>8, <2>1, <2>2 DEF ConfirmPush, world, t, x
<1> QED
  BY <1>6, <1>7, <1>8

(* _premerge_fail and _save. *)
LEMMA RecordSafe ==
  ASSUME PublicationInv, NEW p \in Publishers, Quarantine(p) \/ Save(p)
  PROVE  PublicationInv'
<1> DEFINE c == mem[p].c
           t == mem[p].t
<1>1. /\ pc[p] \in {"quarantine", "save"} /\ pc[p] \notin {"off", "pass"}
      /\ UNCHANGED <<main, anchor, base, receipt, checks, frozen, prepared>>
  BY DEF Quarantine, Save, world
<1>2. /\ TypeOK /\ Lineage /\ PushesAreExact
      /\ c \in Candidates /\ t \in Transaction /\ t # NoTx
      /\ Truthful(c, t) /\ Phased(pc[p], t) /\ base[c] # NoCommit
      /\ pc[p] = "save" /\ t.phase = "PREPARED" => receipt[c] = "granted"
      /\ pc[p] = "quarantine" => Refused(c)
  BY <1>1, AtWork DEF PublicationInv
<1> HIDE DEF c, t
<1>3. /\ Lineage' /\ PushesAreExact' /\ Forward /\ Extends
      /\ \A d \in Candidates : \A u : Truthful(d, u) => Truthful(d, u)'
      /\ Refused(c) => \A d : d = c => Refused(d)'
  BY <1>1, <1>2 DEF Lineage, PushesAreExact, Forward, Extends, Published,
                    RevertedOnMain, Truthful, Refused, OnMain, Tip
<1>4. ASSUME NEW step, NEW d, NEW u, Works(step, d, u)
      PROVE  Works(step, d, u)'
  BY <1>2, <1>3, <1>4, StaysAtWork
<1>5. ASSUME NEW step, Works(step, c, t), pc'[p] = step,
             step \in {"off", "pass"} \/ (mem'[p].c = c /\ mem'[p].t = t)
      PROVE  Works(pc[p], mem[p].c, mem[p].t)'
  <2>1. CASE step \in {"off", "pass"}
    BY <1>5, <2>1 DEF Works
  <2>2. CASE mem'[p].c = c /\ mem'[p].t = t
    <3>1. ASSUME NEW s, NEW d, NEW u, s = pc'[p], d = mem'[p].c, u = mem'[p].t
          PROVE  Works(s, d, u)'
      BY <1>4, <1>5, <2>2, <3>1
    <3> QED
      BY <3>1 DEF Works
  <2> QED
    BY <1>5, <2>1, <2>2
<1>6. ASSUME NEW step \in Steps, Advance(p, t, step)
      PROVE  /\ mem'[p].c = c /\ mem'[p].t = t /\ pc'[p] = step /\ todo' = todo
             /\ \A q \in Publishers \ {p} : pc'[q] = pc[q] /\ mem'[q] = mem[q]
             /\ mem' \in [Publishers -> Memory] /\ pc' \in [Publishers -> Steps]
  <2>1. [c |-> c, t |-> t, before |-> mem[p].before] \in Memory
    BY <1>2 DEF TypeOK, Memory
  <2> QED
    BY <1>2, <1>6, <2>1 DEF TypeOK, Advance, Goto, c
<1>7. CASE Quarantine(p)
  <2>1. /\ pc[p] = "quarantine" /\ rejected' = rejected \cup {c} /\ Refused(c)
        /\ Advance(p, t, "save") /\ UNCHANGED tx /\ "save" \in Steps
        /\ t.phase = "FAILED"
    BY <1>2, <1>7 DEF Quarantine, Steps, Phased, c, t
  <2>2. /\ mem'[p].c = c /\ mem'[p].t = t /\ pc'[p] = "save" /\ todo' = todo
        /\ \A q \in Publishers \ {p} : pc'[q] = pc[q] /\ mem'[q] = mem[q]
        /\ mem' \in [Publishers -> Memory] /\ pc' \in [Publishers -> Steps]
    BY <1>6, <2>1
  <2>3. TypeOK'
    BY <1>1, <1>2, <2>1, <2>2 DEF TypeOK
  <2>4. Works("save", c, t)
    BY <1>2, <2>1 DEF Works, Phased
  <2>5. Works(pc[p], mem[p].c, mem[p].t)'
    BY <1>5, <2>2, <2>4
  <2>6. \A d \in rejected' : d \in rejected \/ Refused(d)'
    BY <1>3, <2>1
  <2>7. \A d \in todo'[p] : tx'[d] # NoTx
    BY <2>1, <2>2 DEF PublicationInv
  <2> QED
    BY <1>3, <2>1, <2>2, <2>3, <2>5, <2>6, <2>7, StepSafe
<1>8. CASE Save(p)
  <2> DEFINE step == IF t.phase = "HARD_STUCK" THEN "off" ELSE AfterSave(t)
  <2>1. /\ pc[p] = "save" /\ tx' = [tx EXCEPT ![c] = t] /\ UNCHANGED rejected
        /\ IF t.phase = "HARD_STUCK" THEN Raise(p) ELSE Advance(p, t, AfterSave(t))
    BY <1>8 DEF Save, c, t
  <2>2. step \in Steps /\ Phased(step, t) /\ step \notin {"quarantine", "save"}
    BY <1>2 DEF AfterSave, Entry, Steps, Phased
  <2>3. /\ pc'[p] = step
        /\ \/ step = "off"
           \/ mem'[p].c = c /\ mem'[p].t = t
        /\ todo'[p] \subseteq todo[p]
        /\ \A q \in Publishers \ {p} :
             pc'[q] = pc[q] /\ mem'[q] = mem[q] /\ todo'[q] = todo[q]
        /\ mem' \in [Publishers -> Memory] /\ pc' \in [Publishers -> Steps]
        /\ todo' \in [Publishers -> SUBSET Candidates]
    <3>1. CASE t.phase = "HARD_STUCK"
      BY <1>2, <2>1, <2>2, <3>1, TransactionType DEF Raise, Goto, TypeOK
    <3>2. CASE t.phase # "HARD_STUCK"
      BY <1>2, <1>6, <2>1, <2>2, <3>2 DEF TypeOK
    <3> QED
      BY <3>1, <3>2
  <2> HIDE DEF step
  <2>4. Works(step, c, t)
    BY <1>2, <2>1, <2>2 DEF Works
  <2>5. Works(pc[p], mem[p].c, mem[p].t)'
    <3>1. CASE step = "off"
      BY <2>3, <3>1 DEF Works
    <3>2. CASE mem'[p].c = c /\ mem'[p].t = t
      BY <1>5, <2>3, <2>4, <3>2
    <3> QED
      BY <2>3, <3>1, <3>2
  <2>6. TypeOK'
    BY <1>1, <1>2, <2>1, <2>3 DEF TypeOK
  <2>7. \A d \in Candidates : \/ tx'[d] = tx[d]
                              \/ tx'[d] # NoTx /\ Truthful(d, tx[d])'
    <3>1. \A d \in Candidates \ {c} : tx'[d] = tx[d]
      BY <1>2, <2>1 DEF TypeOK
    <3>2. tx'[c] = t
      BY <1>2, <2>1 DEF TypeOK
    <3>3. ASSUME NEW d \in Candidates, d = c, NEW u, u = t
          PROVE  Truthful(d, u)'
      BY <1>2, <1>3, <3>3
    <3>4. ASSUME NEW d \in Candidates, d = c
          PROVE  Truthful(d, tx[d])'
      <4>1. ASSUME NEW u, u = tx'[d]
            PROVE  Truthful(d, u)'
        BY <3>2, <3>3, <3>4, <4>1
      <4> QED
        BY <4>1 DEF Truthful
    <3> QED
      BY <1>2, <3>1, <3>2, <3>4
  <2>8. \A d \in todo'[p] : tx'[d] # NoTx
    <3>1. \A d \in todo[p] : d \in Candidates /\ tx[d] # NoTx
      BY <1>2 DEF PublicationInv, TypeOK
    <3> QED
      BY <1>2, <2>1, <2>3, <3>1 DEF TypeOK
  <2> QED
    BY <1>3, <2>1, <2>3, <2>5, <2>6, <2>7, <2>8, StepSafe
<1> QED
  BY <1>7, <1>8

(* publish goes round its loop again or ends. *)
LEMMA ReturnSafe ==
  ASSUME PublicationInv, NEW p \in Publishers, Return(p)
  PROVE  PublicationInv'
<1> DEFINE c == mem[p].c
           t == mem[p].t
<1>1. /\ pc[p] = "return" /\ pc[p] \notin {"off", "pass"}
      /\ UNCHANGED <<main, anchor, base, receipt, checks, frozen, disturbances>>
      /\ UNCHANGED <<tx, rejected, todo, prepared>>
  BY DEF Return, world, files
<1>2. /\ TypeOK /\ c \in Candidates /\ t \in Transaction /\ Truthful(c, t)
  BY <1>1, AtWork
<1> HIDE DEF c, t
<1>3. ASSUME NEW step \in {"off", "pass"}, Goto(p, step),
             mem' = [mem EXCEPT ![p] = Idle]
      PROVE  PublicationInv'
  <2>1. TypeOK'
    BY <1>1, <1>2, <1>3, TransactionType DEF TypeOK, Goto, Steps
  <2>2. /\ pc'[p] \in {"off", "pass"}
        /\ \A q \in Publishers \ {p} : pc'[q] = pc[q] /\ mem'[q] = mem[q]
    BY <1>2, <1>3 DEF TypeOK, Goto
  <2>3. Works(pc'[p], mem'[p].c, mem'[p].t) /\ \A d \in todo'[p] : tx[d] # NoTx
    BY <1>1, <2>2 DEF Works, PublicationInv
  <2> QED
    BY <1>1, <2>1, <2>2, <2>3, LocalSafe
<1>4. CASE /\ Goto(p, Entry(t))
           /\ mem' = [mem EXCEPT ![p] = [c |-> c, t |-> t, before |-> t.phase]]
  <2> DEFINE step == Entry(t)
             before == t.phase
  <2>1. before \in Phases \cup {"PASS"} /\ step # "save"
    BY <1>2 DEF Transaction, Entry
  <2>2. step \in {Entry(t), "save"} /\ Goto(p, step)
        /\ mem' = [mem EXCEPT ![p] = [c |-> c, t |-> t, before |-> before]]
    BY <1>4
  <2>3. /\ todo'[p] \subseteq todo[p] /\ todo' \in [Publishers -> SUBSET Candidates]
        /\ \A q \in Publishers \ {p} : todo'[q] = todo[q]
    BY <1>1, <1>2 DEF TypeOK
  <2> HIDE DEF step, before
  <2> QED
    BY <1>1, <1>2, <2>1, <2>2, <2>3, TakeUpSafe DEF files
<1> QED
  BY <1>3, <1>4 DEF Return, c, t

(* reconcile_pending: the pass lists transactions and takes each up. *)
LEMMA PassSafe ==
  ASSUME PublicationInv, NEW p \in Publishers, Pass(p)
  PROVE  PublicationInv'
<1>1. TypeOK
  BY DEF PublicationInv
<1>2. ASSUME StartPass(p)
      PROVE  PublicationInv'
  <2>1. /\ pc' = [pc EXCEPT ![p] = "pass"] /\ UNCHANGED <<mem, prepared, files>>
        /\ todo' = [todo EXCEPT ![p] = {c \in Candidates : tx[c] # NoTx}]
        /\ UNCHANGED <<main, anchor, base, receipt, checks, frozen>>
    BY <1>2 DEF StartPass, Goto
  <2>2. TypeOK'
    BY <1>1, <2>1 DEF TypeOK, Steps, files
  <2>3. /\ pc'[p] = "pass" /\ todo'[p] = {c \in Candidates : tx[c] # NoTx}
        /\ \A q \in Publishers \ {p} :
             pc'[q] = pc[q] /\ mem'[q] = mem[q] /\ todo'[q] = todo[q]
    BY <1>1, <2>1 DEF TypeOK
  <2>4. Works(pc'[p], mem'[p].c, mem'[p].t) /\ \A c \in todo'[p] : tx[c] # NoTx
    BY <2>3 DEF Works
  <2> QED
    BY <2>1, <2>2, <2>3, <2>4, LocalSafe DEF files
<1>3. ASSUME NEW c \in Candidates, PassNext(p, c)
      PROVE  PublicationInv'
  <2>1. CASE Raise(p)
    BY <1>1, <1>3, <2>1, RaiseSafe DEF PassNext, world, files, TypeOK
  <2>2. CASE /\ todo' = [todo EXCEPT ![p] = @ \ {c}]
             /\ mem' = [mem EXCEPT ![p] = [c |-> c, t |-> tx[c], before |-> "PASS"]]
             /\ Goto(p, Entry(tx[c]))
    <3> DEFINE t == tx[c]
               step == Entry(t)
    <3>1. t \in Transaction /\ Truthful(c, t)
      BY <1>1, <1>3 DEF PassNext, PublicationInv, TypeOK
    <3>2. step # "save" /\ step \in {Entry(t), "save"} /\ "PASS" \in Phases \cup {"PASS"}
      BY DEF Entry
    <3>3. /\ todo'[p] \subseteq todo[p] /\ todo' \in [Publishers -> SUBSET Candidates]
          /\ \A q \in Publishers \ {p} : todo'[q] = todo[q]
      BY <1>1, <2>2 DEF TypeOK
    <3>4. UNCHANGED <<main, anchor, base, receipt, checks, frozen, files, prepared>>
      BY <1>3 DEF PassNext, world
    <3>5. /\ mem' = [mem EXCEPT ![p] = [c |-> c, t |-> t, before |-> "PASS"]]
          /\ Goto(p, step)
      BY <2>2
    <3> HIDE DEF step, t
    <3> QED
      BY <3>1, <3>2, <3>3, <3>4, <3>5, TakeUpSafe
  <2> QED
    BY <1>3, <2>1, <2>2 DEF PassNext
<1>4. ASSUME PassEnd(p)
      PROVE  PublicationInv'
  <2>1. /\ pc' = [pc EXCEPT ![p] = "off"] /\ UNCHANGED <<mem, todo, prepared, files>>
        /\ UNCHANGED <<main, anchor, base, receipt, checks, frozen>>
    BY <1>4 DEF PassEnd, Goto, world
  <2>2. TypeOK'
    BY <1>1, <2>1 DEF TypeOK, Steps, files
  <2>3. /\ pc'[p] = "off" /\ \A c \in todo'[p] : tx[c] # NoTx
        /\ \A q \in Publishers \ {p} :
             pc'[q] = pc[q] /\ mem'[q] = mem[q] /\ todo'[q] = todo[q]
    BY <1>1, <2>1 DEF TypeOK, PublicationInv
  <2>4. Works(pc'[p], mem'[p].c, mem'[p].t)
    BY <2>3 DEF Works
  <2> QED
    BY <2>1, <2>2, <2>3, <2>4, LocalSafe DEF files
<1> QED
  BY <1>2, <1>3, <1>4 DEF Pass

-----------------------------------------------------------------------------
(* The gates that a process passed were passed on a base. *)
GatedOnBase == \A p \in Publishers : \A c \in prepared[p] : base[c] # NoCommit

(* prepare_candidate names the base, and nothing takes it back. *)
LEMMA GatedOnBaseStays ==
  ASSUME PublicationConstants, TypeOK, GatedOnBase, [Next]_vars
  PROVE  GatedOnBase'
<1>1. ASSUME base' = base, \A p \in Publishers : prepared'[p] \subseteq prepared[p]
      PROVE  GatedOnBase'
  BY <1>1 DEF GatedOnBase
<1>2. ASSUME base' = base, prepared' = prepared
      PROVE  GatedOnBase'
  BY <1>2 DEF GatedOnBase
<1>3. ASSUME NEW p \in Publishers, NEW c \in Candidates, PrepareCandidate(p, c)
      PROVE  GatedOnBase'
  <2>1. anchor \in Commits /\ NoCommit \notin Commits
    BY DEF TypeOK, PublicationConstants
  <2>2. \A d \in Candidates : base'[d] = base[d] \/ d = c
    BY <1>3 DEF PrepareCandidate, TypeOK
  <2>3. base'[c] # NoCommit
    BY <1>3, <2>1 DEF PrepareCandidate, TypeOK
  <2>4. \A q \in Publishers : prepared'[q] \subseteq prepared[q] \cup {c}
    BY <1>3 DEF PrepareCandidate, TypeOK
  <2>5. \A q \in Publishers : prepared[q] \subseteq Candidates
    BY DEF TypeOK
  <2> QED
    BY <2>2, <2>3, <2>4, <2>5 DEF GatedOnBase
<1>4. ASSUME NEW p \in Publishers, NEW c \in Candidates,
             PublishNew(p, c) \/ PublishRetry(p, c) \/ PublishChanged(p, c)
      PROVE  GatedOnBase'
  BY <1>1, <1>2, <1>4
     DEF PublishNew, PublishRetry, PublishChanged, world, TypeOK
<1>5. ASSUME NEW p \in Publishers, Pass(p)
      PROVE  GatedOnBase'
  BY <1>2, <1>5 DEF Pass, StartPass, PassNext, PassEnd, world
<1>6. ASSUME NEW p \in Publishers, Reconcile(p)
      PROVE  GatedOnBase'
  BY <1>2, <1>6
     DEF Reconcile, Observe, Authorize, AssertFrozen, CheckMain, PushMain, ConfirmPush,
         VerifyMain, VerifyAnchor, VerifyChecks, CreateRevert, Quarantine, Save, Return,
         world
<1>7. ASSUME NEW p \in Publishers, Fail(p)
      PROVE  GatedOnBase'
  BY <1>1, <1>7 DEF Fail, TypeOK
<1>8. CASE World
  BY <1>2, <1>8 DEF World, OtherPush, UpdateAnchor, Answer, Conclude, Mutate, local
<1>9. Controllers \subseteq Publishers
  BY DEF Publishers
<1>10. CASE UNCHANGED vars
  BY <1>2, <1>10 DEF vars, world, local
<1> QED
  BY <1>3, <1>4, <1>5, <1>6, <1>7, <1>8, <1>9, <1>10 DEF Next, Publish

-----------------------------------------------------------------------------
(* A candidate is prepared on the anchor: main does not have it yet. *)
LEMMA PrepareSafe ==
  ASSUME PublicationConstants, PublicationInv, NEW p \in Publishers,
         NEW c \in Candidates, PrepareCandidate(p, c)
  PROVE  PublicationInv'
<1>1. /\ TypeOK /\ Lineage /\ PushesAreExact
      /\ UNCHANGED <<main, anchor, receipt, checks, frozen, tx, rejected, pc, mem, todo>>
      /\ base' = [base EXCEPT ![c] = IF base[c] = NoCommit THEN anchor ELSE base[c]]
  BY DEF PublicationInv, PrepareCandidate, files
<1>2. TypeOK'
  <2>1. prepared' = [prepared EXCEPT ![p] = @ \cup {c}]
    BY DEF PrepareCandidate
  <2> QED
    BY <1>1, <2>1 DEF TypeOK
<1>3. \A d \in Candidates : base'[d] = base[d] \/ (d = c /\ base[c] = NoCommit)
  BY <1>1 DEF TypeOK
<1>4. base[c] = NoCommit => base'[c] = anchor
  BY <1>1 DEF TypeOK
<1>5. ASSUME NEW k \in 2 .. Len(main), main[k] = c
      PROVE  base[c] # NoCommit
  <2>1. base[c] = main[k - 1] /\ k - 1 \in 1 .. Len(main)
    BY <1>1, <1>5, MainPositions DEF PushesAreExact
  <2> QED
    BY <1>1, <2>1 DEF TypeOK, PublicationConstants
<1>6. base[c] = NoCommit => c \notin Published
  <2>1. c # Root
    BY DEF PublicationConstants
  <2>2. ASSUME c \in Published
        PROVE  \E k \in 2 .. Len(main) : main[k] = c
    <3>1. PICK k \in 1 .. Len(main) : c = main[k]
      BY <1>1, <2>2, MainPositions
    <3>2. k # 1 /\ Len(main) \in Nat
      BY <1>1, <2>1, <3>1, MainPositions DEF Lineage
    <3> QED
      BY <3>1, <3>2
  <2> QED
    BY <1>5, <2>2
<1>7. Lineage'
  <2>1. base[c] = NoCommit => anchor # c
    BY <1>1, <1>6 DEF Lineage
  <2>2. \A d \in Candidates : base'[d] # NoCommit =>
                                base'[d] \in Published /\ base'[d] # d
    BY <1>1, <1>3, <1>4, <2>1 DEF Lineage
  <2>3. Published' = Published /\ \A d : RevertedOnMain(d)' = RevertedOnMain(d)
    BY <1>1 DEF Published, RevertedOnMain
  <2> QED
    BY <1>1, <2>2, <2>3 DEF Lineage
<1>8. PushesAreExact'
  <2>1. \A k \in 2 .. Len(main) : main[k] \in Candidates => base'[main[k]] = base[main[k]]
    BY <1>3, <1>5
  <2> QED
    BY <1>1, <2>1 DEF PushesAreExact
<1>9. Forward /\ Extends
  BY <1>1, <1>3 DEF Forward, Extends, Published
<1> QED
  BY <1>1, <1>2, <1>7, <1>8, <1>9, WorldSafe

(* publish: a new transaction, or one taken up from its file. *)
LEMMA PublishSafe ==
  ASSUME PublicationConstants, PublicationInv, GatedOnBase, NEW p \in Publishers,
         NEW c \in Candidates,
         PublishNew(p, c) \/ PublishRetry(p, c) \/ PublishChanged(p, c)
  PROVE  PublicationInv'
<1>1. TypeOK /\ Lineage /\ PushesAreExact
  BY DEF PublicationInv
<1>2. CASE PublishNew(p, c)
  <2>1. /\ UNCHANGED <<main, anchor, base, receipt, checks, frozen, rejected, todo>>
        /\ tx' = [tx EXCEPT ![c] = Fresh] /\ tx[c] = NoTx
        /\ mem' = [mem EXCEPT ![p] = [c |-> c, t |-> Fresh, before |-> "PREPARED"]]
        /\ pc' = [pc EXCEPT ![p] = "observe"]
        /\ prepared' \in [Publishers -> SUBSET Candidates]
    BY <1>1, <1>2 DEF PublishNew, world, Goto, TypeOK
  <2>2. base[c] # NoCommit
    BY <1>2 DEF PublishNew, GatedOnBase
  <2>3. Fresh.phase = "PREPARED" /\ Fresh.revert = NoCommit
    BY DEF Fresh
  <2>4. Truthful(c, Fresh) /\ Phased("observe", Fresh)
    BY <2>2, <2>3 DEF Truthful, Phased
  <2>5. [c |-> c, t |-> Fresh, before |-> "PREPARED"] \in Memory
    BY TransactionType DEF Memory, Phases
  <2>6. TypeOK'
    BY <1>1, <2>1, <2>5, TransactionType DEF TypeOK, Steps
  <2>7. /\ Lineage' /\ PushesAreExact' /\ Forward /\ Extends
        /\ Published' = Published
    BY <1>1, <2>1
       DEF Lineage, PushesAreExact, Forward, Extends, Published, RevertedOnMain
  <2>8. ASSUME NEW u, u = Fresh
        PROVE  Truthful(c, u)'
    BY <2>4, <2>7, <2>8, StaysTruthful
  <2>9. \A d \in Candidates : \/ tx'[d] = tx[d]
                              \/ tx'[d] # NoTx /\ Truthful(d, tx[d])'
    <3>1. tx'[c] = Fresh /\ \A d \in Candidates \ {c} : tx'[d] = tx[d]
      BY <1>1, <2>1 DEF TypeOK
    <3>2. ASSUME NEW d \in Candidates, d = c
          PROVE  Truthful(d, tx[d])'
      <4>1. ASSUME NEW u, u = tx'[d]
            PROVE  Truthful(d, u)'
        BY <2>8, <3>1, <3>2, <4>1
      <4> QED
        BY <4>1 DEF Truthful
    <3> QED
      BY <3>1, <3>2, TransactionType
  <2>10. /\ pc'[p] = "observe" /\ mem'[p].c = c /\ mem'[p].t = Fresh
         /\ \A q \in Publishers \ {p} :
              pc'[q] = pc[q] /\ mem'[q] = mem[q] /\ todo'[q] = todo[q]
    BY <1>1, <2>1 DEF TypeOK
  <2>11. Works(pc[p], mem[p].c, mem[p].t)'
    <3>1. ASSUME NEW step, NEW d, NEW u, step = pc'[p], d = mem'[p].c, u = mem'[p].t
          PROVE  Works(step, d, u)'
      <4>1. /\ step = "observe" /\ d \in Candidates /\ u \in Transaction
            /\ d = c /\ u = Fresh
        BY <2>10, <3>1, TransactionType
      <4>2. Truthful(d, u)' /\ Phased(step, u)
        BY <2>4, <2>8, <4>1
      <4> QED
        BY <4>1, <4>2 DEF Works
    <3> QED
      BY <3>1 DEF Works
  <2>12. \A d \in todo'[p] : tx'[d] # NoTx
    <3>1. \A d \in todo[p] : d \in Candidates /\ tx[d] # NoTx
      BY <1>1 DEF PublicationInv, TypeOK
    <3> QED
      BY <1>1, <2>1, <3>1 DEF TypeOK
  <2>13. \A d \in rejected' : d \in rejected
    BY <2>1
  <2> QED
    BY <2>6, <2>7, <2>9, <2>10, <2>11, <2>12, <2>13, StepSafe
<1>3. ASSUME NEW t \in Transaction, NEW step \in {Entry(t), "save"},
             Truthful(c, t), step = "save" => t.phase # "PREPARED",
             mem' = [mem EXCEPT ![p] = [c |-> c, t |-> t, before |-> tx[c].phase]],
             Goto(p, step), UNCHANGED <<world, files, todo, prepared>>, tx[c] # NoTx
      PROVE  PublicationInv'
  <2> DEFINE before == tx[c].phase
  <2>1. before \in Phases \cup {"PASS"}
    BY <1>1, <1>3 DEF TypeOK, Transaction
  <2>2. /\ todo'[p] \subseteq todo[p] /\ todo' \in [Publishers -> SUBSET Candidates]
        /\ \A q \in Publishers \ {p} : todo'[q] = todo[q]
    BY <1>1, <1>3 DEF TypeOK
  <2>3. mem' = [mem EXCEPT ![p] = [c |-> c, t |-> t, before |-> before]]
    BY <1>3
  <2>4. UNCHANGED <<main, anchor, base, receipt, checks, frozen, files, prepared>>
    BY <1>3 DEF world
  <2>5. step = "save" => t.phase # "PREPARED"
    BY <1>3
  <2>6. Goto(p, step) /\ Truthful(c, t)
    BY <1>3
  <2> HIDE DEF before
  <2> QED
    BY <2>1, <2>2, <2>3, <2>4, <2>5, <2>6, TakeUpSafe
<1>4. ASSUME tx[c] # NoTx
      PROVE  tx[c] \in Transaction /\ Truthful(c, tx[c]) /\ base[c] # NoCommit
  BY <1>1, <1>4 DEF PublicationInv, TypeOK, Truthful
<1>5. CASE PublishRetry(p, c)
  <2> DEFINE t == tx[c]
             step == Entry(t)
  <2>1. step # "save" /\ step \in {Entry(t), "save"}
    BY DEF Entry
  <2>2. /\ tx[c] # NoTx /\ Goto(p, step) /\ UNCHANGED <<world, files, todo, prepared>>
        /\ mem' = [mem EXCEPT ![p] = [c |-> c, t |-> t, before |-> tx[c].phase]]
    BY <1>5 DEF PublishRetry
  <2>3. t \in Transaction /\ Truthful(c, t)
    BY <1>4, <2>2
  <2> HIDE DEF t, step
  <2> QED
    BY <1>3, <2>1, <2>2, <2>3
<1>6. CASE PublishChanged(p, c)
  <2> DEFINE t == InPhase(tx[c], "HARD_STUCK")
  <2>1. /\ tx[c] # NoTx /\ Goto(p, "save") /\ UNCHANGED <<world, files, todo, prepared>>
        /\ mem' = [mem EXCEPT ![p] = [c |-> c, t |-> t, before |-> tx[c].phase]]
    BY <1>6 DEF PublishChanged
  <2>2. "HARD_STUCK" \in Phases
    BY DEF Phases
  <2>3. t \in Transaction /\ Truthful(c, t) /\ t.phase # "PREPARED"
    BY <1>4, <2>1, <2>2, NewPhase
  <2> HIDE DEF t
  <2> QED
    BY <1>3, <2>1, <2>3
<1> QED
  BY <1>2, <1>5, <1>6

(* The world moves forward only. *)
LEMMA WorldStepSafe ==
  ASSUME PublicationConstants, PublicationInv, World
  PROVE  PublicationInv'
<1>1. TypeOK /\ Lineage /\ PushesAreExact
  BY DEF PublicationInv
<1>2. UNCHANGED <<tx, rejected, pc, mem, todo, prepared>>
  BY DEF World, OtherPush, UpdateAnchor, Answer, Conclude, Mutate, files, local
<1>3. ASSUME NEW o \in Others, OtherPush(o)
      PROVE  PublicationInv'
  <2>1. /\ main' = Append(main, o) /\ o \notin Published
        /\ UNCHANGED <<anchor, base, receipt, checks, frozen>>
    BY <1>3 DEF OtherPush, OnMain
  <2>2. o \in Commits /\ o \notin Candidates /\ o \notin Reverts
    BY DEF PublicationConstants, Commits
  <2>3. Grows(o)
    BY <2>1, <2>2 DEF Grows
  <2>4. /\ main' \in Seq(Commits) /\ Len(main') > 0 /\ main'[1] = main[1]
        /\ Published' = Published \cup {o}
    <3>1. Len(main) \in Nat /\ Len(main) > 0 /\ 1 \in 1 .. Len(main)
      BY <1>1, MainPositions DEF TypeOK
    <3> QED
      BY <1>1, <2>3, <3>1, GrowsTo
  <2>5. TypeOK'
    BY <1>1, <1>2, <2>1, <2>4 DEF TypeOK
  <2>6. Lineage'
    <3>1. \A c \in Candidates : \A q \in Publishers : RevertCommit(c, q) # o
      BY <2>2 DEF RevertCommit, Reverts
    <3>2. \A c \in Candidates : RevertedOnMain(c)' => RevertedOnMain(c)
      BY <2>4, <3>1 DEF RevertedOnMain
    <3> QED
      BY <1>1, <2>1, <2>4, <3>2 DEF Lineage
  <2>7. PushesAreExact' /\ Forward /\ Extends
    BY <1>1, <2>1, <2>2, <2>3, <2>4, GrowsExactly DEF Forward, Extends
  <2> QED
    BY <1>2, <2>5, <2>6, <2>7, WorldSafe
<1>4. ASSUME UNCHANGED main, Forward, TypeOK', anchor' \in Published,
             PushesAreExact', UNCHANGED base
      PROVE  PublicationInv'
  <2>1. Published' = Published /\ \A c : RevertedOnMain(c)' = RevertedOnMain(c)
    BY <1>4 DEF Published, RevertedOnMain
  <2>2. \A c \in Candidates : checks[c] = "fail" => checks'[c] = "fail"
    BY <1>4 DEF Forward
  <2>3. Lineage' /\ Extends
    BY <1>1, <1>4, <2>1, <2>2 DEF Lineage, Extends
  <2> QED
    BY <1>2, <1>4, <2>3, WorldSafe
<1>5. ASSUME UpdateAnchor
      PROVE  PublicationInv'
  <2>1. /\ UNCHANGED <<main, base, receipt, checks, frozen>> /\ anchor' = Tip
    BY <1>5 DEF UpdateAnchor
  <2>2. anchor' \in Published /\ anchor' \in Commits
    BY <1>1, <2>1, MainPositions
  <2>3. TypeOK' /\ Forward /\ PushesAreExact'
    BY <1>1, <1>2, <2>1, <2>2 DEF TypeOK, Forward, Published, PushesAreExact
  <2> QED
    BY <1>4, <2>1, <2>2, <2>3
<1>6. ASSUME NEW c \in Candidates, NEW a \in {"granted", "rejected", "unexpected"},
             Answer(c, a)
      PROVE  PublicationInv'
  <2>1. /\ UNCHANGED <<main, anchor, base, checks, frozen>>
        /\ receipt[c] = "absent" /\ receipt' = [receipt EXCEPT ![c] = a]
    BY <1>6 DEF Answer
  <2>2. TypeOK' /\ \A d \in Candidates : receipt[d] # "absent" => receipt'[d] = receipt[d]
    BY <1>1, <1>2, <2>1 DEF TypeOK
  <2>3. Forward /\ PushesAreExact'
    BY <1>1, <2>1, <2>2 DEF Forward, Published, PushesAreExact
  <2> QED
    BY <1>1, <1>4, <2>1, <2>2, <2>3 DEF Lineage
<1>7. ASSUME NEW c \in Candidates, NEW v \in {"pass", "fail"}, Conclude(c, v)
      PROVE  PublicationInv'
  <2>1. /\ UNCHANGED <<main, anchor, base, receipt, frozen>>
        /\ checks[c] = "pending" /\ checks' = [checks EXCEPT ![c] = v]
    BY <1>7 DEF Conclude
  <2>2. TypeOK' /\ \A d \in Candidates : checks[d] # "pending" => checks'[d] = checks[d]
    BY <1>1, <1>2, <2>1 DEF TypeOK
  <2>3. Forward /\ PushesAreExact'
    BY <1>1, <2>1, <2>2 DEF Forward, Published, PushesAreExact
  <2> QED
    BY <1>1, <1>4, <2>1, <2>2, <2>3 DEF Lineage
<1>8. ASSUME NEW c \in Candidates, Mutate(c)
      PROVE  PublicationInv'
  <2>1. /\ UNCHANGED <<main, anchor, base, receipt, checks>>
        /\ frozen' = [frozen EXCEPT ![c] = FALSE]
    BY <1>8 DEF Mutate
  <2>2. TypeOK'
    BY <1>1, <1>2, <2>1 DEF TypeOK
  <2>3. Forward /\ PushesAreExact'
    BY <1>1, <2>1 DEF Forward, Published, PushesAreExact
  <2> QED
    BY <1>1, <1>4, <2>1, <2>2, <2>3 DEF Lineage
<1> QED
  BY <1>3, <1>5, <1>6, <1>7, <1>8 DEF World

-----------------------------------------------------------------------------
(* Init is where the history of main starts. *)
LEMMA InitSafe ==
  ASSUME PublicationConstants, Init
  PROVE  PublicationInv /\ GatedOnBase
<1>1. TypeOK
  <2>1. main \in Seq(Commits) /\ Len(main) > 0
    BY DEF Init, Commits
  <2>2. NoTx \in Transaction \cup {NoTx} /\ "off" \in Steps
    BY DEF Steps
  <2> QED
    BY <2>1, <2>2, TransactionType DEF Init, TypeOK, Commits
<1>2. Published = {Root} /\ Len(main) = 1
  <2>1. DOMAIN main = {1} /\ main[1] = Root
    BY DEF Init
  <2> QED
    BY <2>1 DEF Init, Published
<1>3. \A c \in Candidates : ~RevertedOnMain(c)
  BY <1>2 DEF RevertedOnMain, RevertCommit, PublicationConstants, Reverts
<1>4. Lineage
  BY <1>2, <1>3 DEF Lineage, Init
<1>5. PushesAreExact
  BY <1>2 DEF PushesAreExact
<1>6. \A c \in Candidates : Truthful(c, tx[c])
  <2>1. NoTx.phase = "ABSENT" /\ NoTx.revert = NoCommit
    BY DEF NoTx
  <2> QED
    BY <2>1 DEF Init, Truthful
<1>7. \A p \in Publishers : Works(pc[p], mem[p].c, mem[p].t)
  BY DEF Init, Works
<1> QED
  BY <1>1, <1>4, <1>5, <1>6, <1>7 DEF PublicationInv, GatedOnBase, Init

(* Every step keeps the invariant. *)
LEMMA NextSafe ==
  ASSUME PublicationConstants, PublicationInv, GatedOnBase, [Next]_vars
  PROVE  PublicationInv'
<1>1. TypeOK
  BY DEF PublicationInv
<1>2. CASE World
  BY <1>2, WorldStepSafe
<1>3. ASSUME NEW p \in Controllers, Publish(p)
      PROVE  PublicationInv'
  <2>1. p \in Publishers
    BY DEF Publishers
  <2> QED
    BY <1>3, <2>1, PrepareSafe, PublishSafe DEF Publish
<1>4. ASSUME NEW p \in Publishers, Reconcile(p)
      PROVE  PublicationInv'
  BY <1>4, ObserveSafe, AuthorizeSafe, VerifySafe, PushSafe, RevertSafe, RecordSafe,
     ReturnSafe DEF Reconcile
<1>5. ASSUME NEW p \in Publishers, Fail(p)
      PROVE  PublicationInv'
  BY <1>1, <1>5, RaiseSafe DEF Fail, files, TypeOK
<1>6. CASE UNCHANGED vars
  BY <1>1, <1>6, WorldSafe
     DEF vars, world, files, local, TypeOK, PublicationInv, Lineage, PushesAreExact,
         Forward, Extends, Published, RevertedOnMain
<1> QED
  BY <1>2, <1>3, <1>4, <1>5, <1>6, PassSafe DEF Next

(* The inductive invariant holds in every behaviour. *)
LEMMA PublicationSafe == Spec => [](PublicationInv /\ GatedOnBase)
<1>1. Init => PublicationInv /\ GatedOnBase
  BY PublicationConstants, InitSafe
<1>2. PublicationInv /\ GatedOnBase /\ [Next]_vars => (PublicationInv /\ GatedOnBase)'
  BY PublicationConstants, NextSafe, GatedOnBaseStays DEF PublicationInv
<1> QED
  BY <1>1, <1>2, PTL DEF Spec

(* reconcile_transaction and push_main, whatever other processes push,     *)
(* whichever step a process dies at and whatever its private copy of the   *)
(* transaction says: a candidate reaches main only directly on the base it *)
(* was prepared on and with the independent verifier's grant, a revert     *)
(* directly follows the commit it reverts, and no commit is on main twice. *)
THEOREM PushesExact == Spec => []PushesAreExact
<1>1. PublicationInv => PushesAreExact
  BY DEF PublicationInv
<1> QED
  BY <1>1, PublicationSafe, PTL

(* publish's outcomes: INVARIANTS_VERIFIED is on file only for a candidate *)
(* that is on main, passed its hosted checks there and is not reverted,    *)
(* REVERTED only after the revert was pushed, and _premerge_fail records   *)
(* mainChanged: false only for a candidate that is not the tip of main or  *)
(* never was on it.                                                        *)
THEOREM OutcomesTrue == Spec => []OutcomeIsTrue
<1>1. ASSUME PublicationConstants, PublicationInv, NEW c \in Candidates
      PROVE  /\ tx[c].phase = "INVARIANTS_VERIFIED" =>
                  OnMain(c) /\ checks[c] = "pass" /\ ~RevertedOnMain(c)
             /\ tx[c].phase = "REVERTED" => RevertedOnMain(c) /\ checks[c] = "fail"
             /\ c \in rejected => ~OnMain(c) \/ Tip # c
  <2>1. TypeOK /\ Lineage /\ PushesAreExact /\ Truthful(c, tx[c])
    BY <1>1 DEF PublicationInv
  <2>2. tx[c].phase = "INVARIANTS_VERIFIED" =>
          OnMain(c) /\ checks[c] = "pass" /\ ~RevertedOnMain(c)
    BY <2>1 DEF Truthful, Lineage
  <2>3. tx[c].phase = "REVERTED" => RevertedOnMain(c) /\ checks[c] = "fail"
    BY <2>1 DEF Truthful
  <2>4. ASSUME c \in rejected, OnMain(c), Tip = c
        PROVE  FALSE
    <3>1. receipt[c] \in {"rejected", "unexpected"}
      BY <1>1, <2>4 DEF PublicationInv, Refused
    <3>2. PICK k \in 1 .. Len(main) : c = main[k]
      BY <2>1, <2>4, MainPositions DEF OnMain
    <3>3. c # Root
      BY <1>1 DEF PublicationConstants
    <3>4. k \in 2 .. Len(main)
      BY <2>1, <3>2, <3>3, MainPositions DEF Lineage
    <3> QED
      BY <2>1, <3>1, <3>2, <3>4 DEF PushesAreExact
  <2> QED
    BY <2>2, <2>3, <2>4
<1>2. PublicationInv => OutcomeIsTrue
  BY <1>1, PublicationConstants DEF OutcomeIsTrue
<1> QED
  BY <1>2, PublicationSafe, PTL
=============================================================================
