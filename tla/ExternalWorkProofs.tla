-------------------------- MODULE ExternalWorkProofs --------------------------
(***************************************************************************)
(* The safety properties of ExternalWork, for every value of its           *)
(* constants.  Each part has an inductive invariant of its own, since no   *)
(* two parts share a variable: a step of the composition is a step of one  *)
(* part and leaves the others alone.                                       *)
(*                                                                         *)
(*   CommercialInv     FailedAttemptIsArchived, OneMessageOneResponse      *)
(*   AuthorityInv      EvidenceIsCurrent                                   *)
(*   ResearchInv       PublishedIsSupported                                *)
(*   QualificationInv  DecisionIsEarned                                    *)
(***************************************************************************)
EXTENDS ExternalWork, SequenceTheorems, TLAPS

-----------------------------------------------------------------------------
(* Backend recovery. *)

Files == {"active", "previous"}

Block == [journal : {"none", "PREPARED", "ARCHIVED", "COMMITTED"},
          bound : SUBSET Files, archive : SUBSET Files, touched : BOOLEAN,
          candidate : {0, 1}, status : {"BLOCKED_TECHNICAL", "READY"}, files : SUBSET Files]

(* A journal names the failed checkpoint, and a file that is gone is kept. *)
SafeBlock(b) ==
  /\ b \in Block
  /\ b.journal \in {"PREPARED", "ARCHIVED"} => "active" \in b.bound
  /\ b.status = "READY" => b.files = {}
  /\ "active" \notin b.files => "active" \in b.archive \cup kept

RecoveryInv == SafeBlock(block) /\ kept \subseteq Files

(* The files handled first. *)
LEMMA First ==
  /\ FirstFiles(0) = {} /\ FirstFiles(1) = {"active"}
  /\ \A k \in Nat : k >= 2 => FirstFiles(k) = Files
  /\ \A k \in Int : FirstFiles(k) \subseteq Files
<1>1. /\ CheckpointFiles[1] = "active" /\ CheckpointFiles[2] = "previous"
      /\ 1 .. 2 = {1, 2}
  BY DEF CheckpointFiles
<1> QED
  BY <1>1 DEF FirstFiles, Files

(* The fields of a block that _finish_recovery changes. *)
LEMMA Changed ==
  ASSUME NEW b \in Block, NEW files, NEW touched, NEW status, NEW journal
  PROVE  [b EXCEPT !.files = files, !.touched = touched, !.status = status,
                   !.journal = journal] =
         [journal |-> journal, bound |-> b.bound, archive |-> b.archive,
          touched |-> touched, candidate |-> b.candidate, status |-> status,
          files |-> files]
<1>1. DOMAIN b = {"journal", "bound", "archive", "touched", "candidate", "status", "files"}
  BY DEF Block
<1> DEFINE D == {"journal", "bound", "archive", "touched", "candidate", "status", "files"}
           f == [b EXCEPT !.files = files, !.touched = touched, !.status = status,
                          !.journal = journal]
           g == [journal |-> journal, bound |-> b.bound, archive |-> b.archive,
                 touched |-> touched, candidate |-> b.candidate,
                 status |-> status, files |-> files]
<1>2. DOMAIN f = D /\ DOMAIN g = D
  BY <1>1
<1>3. f = [x \in D |-> f[x]] /\ g = [x \in D |-> g[x]]
  BY <1>2
<1>4. ASSUME NEW x \in D
      PROVE  f[x] = g[x]
  <2>1. /\ g.files = files /\ g.touched = touched /\ g.status = status
        /\ g.journal = journal /\ g.bound = b.bound /\ g.archive = b.archive
        /\ g.candidate = b.candidate
    OBVIOUS
  <2>2. f.files = files
    BY <1>1
  <2>3. f.touched = touched
    BY <1>1
  <2>4. f.status = status /\ f.journal = journal
    BY <1>1
  <2>5. f.bound = b.bound /\ f.archive = b.archive /\ f.candidate = b.candidate
    BY <1>1
  <2> HIDE DEF f, g
  <2> QED
    BY <1>4, <2>1, <2>2, <2>3, <2>4, <2>5
<1> QED
  BY <1>2, <1>3, <1>4

(* What _finish_recovery leaves after k of its steps. *)
LEMMA Finished ==
  ASSUME NEW b \in Block, NEW k \in 0 .. 5
  PROVE  LET f == FinishRecovery(b, k) IN
           /\ f \in Block
           /\ f.files = b.files \ FirstFiles(k)
           /\ f.archive = b.archive /\ f.bound = b.bound
           /\ f.status = IF k >= 4 THEN "READY" ELSE b.status
           /\ f.journal = IF k = 5 THEN "COMMITTED" ELSE b.journal
<1> DEFINE files == b.files \ FirstFiles(k)
           touched == b.touched \/ (k >= 3 /\ b.status = "BLOCKED_TECHNICAL")
           status == IF k >= 4 THEN "READY" ELSE b.status
           journal == IF k = 5 THEN "COMMITTED" ELSE b.journal
<1>1. FinishRecovery(b, k) = [b EXCEPT !.files = files, !.touched = touched,
                                       !.status = status, !.journal = journal]
  BY DEF FinishRecovery
<1>2. /\ files \in SUBSET Files /\ touched \in BOOLEAN
      /\ status \in {"BLOCKED_TECHNICAL", "READY"}
      /\ journal \in {"none", "PREPARED", "ARCHIVED", "COMMITTED"}
  BY DEF Block
<1> HIDE DEF files, touched, status, journal
<1>3. [b EXCEPT !.files = files, !.touched = touched, !.status = status,
                !.journal = journal] =
      [journal |-> journal, bound |-> b.bound, archive |-> b.archive,
       touched |-> touched, candidate |-> b.candidate, status |-> status,
       files |-> files]
  BY Changed
<1> QED
  BY <1>1, <1>2, <1>3 DEF Block, files, status, journal

(* What the first k of the four writes that prepare a recovery leave. *)
LEMMA Prepared ==
  ASSUME block \in Block, NEW k \in 1 .. 4
  PROVE  LET f == Prepare(k) IN
           /\ f \in Block
           /\ f.files = block.files /\ f.status = block.status
           /\ f.bound = block.files
           /\ k = 4 => f.archive = block.files
           /\ f.journal \in {"PREPARED", "ARCHIVED"}
<1> DEFINE bound == block.files
           archive == block.files \cap FirstFiles(k - 1)
           journal == IF k = 4 THEN "ARCHIVED" ELSE "PREPARED"
           f == [block EXCEPT !.bound = bound, !.archive = archive, !.journal = journal]
           D == {"journal", "bound", "archive", "touched", "candidate", "status", "files"}
           g == [journal |-> journal, bound |-> bound, archive |-> archive,
                 touched |-> block.touched, candidate |-> block.candidate,
                 status |-> block.status, files |-> block.files]
<1>1. Prepare(k) = f
  <2>1. /\ bound = IF k = 0 THEN {} ELSE block.files
        /\ journal = IF k = 0 THEN "none" ELSE IF k = 4 THEN "ARCHIVED" ELSE "PREPARED"
    OBVIOUS
  <2> QED
    BY <2>1 DEF Prepare
<1>2. /\ bound \in SUBSET Files /\ archive \in SUBSET Files
      /\ journal \in {"PREPARED", "ARCHIVED"}
      /\ k = 4 => archive = block.files
  BY First DEF Block
<1> HIDE DEF bound, archive, journal
<1>3. DOMAIN block = D
  BY DEF Block
<1>4. f.bound = bound /\ f.archive = archive
  BY <1>3
<1>5. f.journal = journal /\ f.files = block.files
  BY <1>3
<1>6. f.status = block.status /\ f.touched = block.touched /\ f.candidate = block.candidate
  BY <1>3
<1>7. DOMAIN f = D /\ DOMAIN g = D
  BY <1>3
<1>8. f = [x \in D |-> f[x]] /\ g = [x \in D |-> g[x]]
  BY <1>7
<1>9. /\ g.journal = journal /\ g.bound = bound /\ g.archive = archive
      /\ g.touched = block.touched /\ g.candidate = block.candidate
      /\ g.status = block.status /\ g.files = block.files
  OBVIOUS
<1>10. g \in Block
  BY <1>2 DEF Block
<1> HIDE DEF f, g
<1>11. f = g
  BY <1>4, <1>5, <1>6, <1>8, <1>9
<1> QED
  BY <1>1, <1>2, <1>4, <1>5, <1>6, <1>10, <1>11 DEF bound

(* _finish_recovery keeps a block safe as far as its files are archived. *)
LEMMA FinishSafe ==
  ASSUME NEW b, SafeBlock(b), b.journal \in {"PREPARED", "ARCHIVED"},
         NEW k \in 0 .. 5, k <= Archived(b) \/ Archived(b) = 2
  PROVE  SafeBlock(FinishRecovery(b, k))
<1> DEFINE f == FinishRecovery(b, k)
<1>1. /\ b \in Block /\ "active" \in b.bound
      /\ b.status = "READY" => b.files = {}
      /\ "active" \notin b.files => "active" \in b.archive \cup kept
      /\ b.files \subseteq Files
  BY DEF SafeBlock, Block
<1>2. /\ f \in Block /\ f.files = b.files \ FirstFiles(k)
      /\ f.archive = b.archive /\ f.bound = b.bound
      /\ f.status = IF k >= 4 THEN "READY" ELSE b.status
      /\ f.journal = IF k = 5 THEN "COMMITTED" ELSE b.journal
  BY <1>1, Finished
<1>3. k > 0 => "active" \in b.archive
  BY <1>1 DEF Archived
<1>4. k >= 4 => f.files = {}
  BY <1>1, <1>2, First
<1>5. "active" \notin f.files => "active" \in f.archive \cup kept
  BY <1>1, <1>2, <1>3, First
<1>6. f.status = "READY" => f.files = {}
  BY <1>1, <1>2, <1>4
<1> HIDE DEF f
<1>7. SafeBlock(f)
  BY <1>1, <1>2, <1>5, <1>6 DEF SafeBlock
<1> QED
  BY <1>7 DEF f

(* A recovery that is just prepared is safe and may be finished. *)
LEMMA PrepareSafe ==
  ASSUME SafeBlock(block), block.status = "BLOCKED_TECHNICAL", MatchesRepairedFailure,
         NEW k \in 1 .. 4
  PROVE  /\ SafeBlock(Prepare(k)) /\ Prepare(k).journal \in {"PREPARED", "ARCHIVED"}
         /\ k = 4 => Archived(Prepare(k)) = 2
<1> DEFINE f == Prepare(k)
<1>1. block \in Block /\ "active" \in block.files
  BY DEF SafeBlock, MatchesRepairedFailure
<1>2. /\ f \in Block /\ f.files = block.files /\ f.status = block.status
      /\ f.bound = block.files /\ (k = 4 => f.archive = block.files)
      /\ f.journal \in {"PREPARED", "ARCHIVED"}
  BY <1>1, Prepared
<1> HIDE DEF f
<1>3. SafeBlock(f) /\ (k = 4 => Archived(f) = 2)
  BY <1>1, <1>2 DEF SafeBlock, Archived
<1> QED
  BY <1>2, <1>3 DEF f

(* The whole call of recover_repaired_claude_sandbox_blocks. *)
LEMMA RecoverySafe ==
  ASSUME SafeBlock(block)
  PROVE  /\ SafeBlock(RecoveredBlock)
         /\ \A b \in RecoveryDeaths : SafeBlock(b)
<1>1. Archived(block) \in {0, 1, 2}
  BY DEF Archived
<1>2. ASSUME Starting, NEW k \in 1 .. 5
      PROVE  SafeBlock(FinishRecovery(Prepare(4), k))
  <2> DEFINE b == Prepare(4)
  <2>1. SafeBlock(b) /\ b.journal \in {"PREPARED", "ARCHIVED"} /\ Archived(b) = 2
    BY <1>2, PrepareSafe DEF Starting
  <2> HIDE DEF b
  <2>2. SafeBlock(FinishRecovery(b, k))
    BY <2>1, FinishSafe
  <2> QED
    BY <2>2 DEF b
<1>3. SafeBlock(RecoveredBlock)
  <2>1. CASE Resuming /\ ~block.touched
    <3> DEFINE k == IF Archived(block) < 2 THEN Archived(block) ELSE 5
    <3>1. k \in 0 .. 5 /\ (k <= Archived(block) \/ Archived(block) = 2)
      BY <1>1
    <3>2. RecoveredBlock = FinishRecovery(block, k)
      BY <2>1 DEF RecoveredBlock
    <3> HIDE DEF k
    <3>3. SafeBlock(FinishRecovery(block, k))
      BY <2>1, <3>1, FinishSafe DEF Resuming
    <3> QED
      BY <3>2, <3>3
  <2>2. CASE ~(Resuming /\ ~block.touched) /\ Starting
    BY <1>2, <2>2 DEF RecoveredBlock
  <2>3. CASE ~(Resuming /\ ~block.touched) /\ ~Starting
    BY <2>3 DEF RecoveredBlock
  <2> QED
    BY <2>1, <2>2, <2>3
<1>4. ASSUME NEW b \in RecoveryDeaths
      PROVE  SafeBlock(b)
  <2>1. CASE Starting
    <3>1. \/ \E k \in 1 .. 4 : b = Prepare(k)
          \/ \E k \in 1 .. 4 : b = FinishRecovery(Prepare(4), k)
      BY <2>1 DEF RecoveryDeaths
    <3> QED
      BY <1>2, <2>1, <3>1, PrepareSafe DEF Starting
  <2>2. CASE ~Starting
    <3>1. PICK k \in 1 .. 4 : b = FinishRecovery(block, k)
      BY <2>2 DEF RecoveryDeaths
    <3>2. Resuming /\ ~Raises
      BY <2>2 DEF RecoveryDeaths
    <3>3. Archived(block) = 2
      BY <1>1, <3>2 DEF Raises
    <3> QED
      BY <3>1, <3>2, <3>3, FinishSafe DEF Resuming
  <2> QED
    BY <2>1, <2>2
<1> QED
  BY <1>3, <1>4

(* The actions of the recovery. *)
LEMMA RecoverySteps ==
  ASSUME RecoveryInv, RecoverBlocks \/ DieInRecovery \/ InstallSnapshot
  PROVE  RecoveryInv'
<1>1. ASSUME UNCHANGED kept, SafeBlock(block')
      PROVE  RecoveryInv'
  BY <1>1 DEF RecoveryInv, SafeBlock
<1>2. CASE RecoverBlocks \/ DieInRecovery
  BY <1>1, <1>2, RecoverySafe DEF RecoverBlocks, DieInRecovery, RecoveryInv
<1>3. CASE InstallSnapshot
  BY <1>3 DEF InstallSnapshot, Unjournaled, RecoveryInv, SafeBlock, Block
<1> QED
  BY <1>2, <1>3

(* Every item is blocked at first, with its checkpoint in place. *)
LEMMA RecoveryStarts ==
  ASSUME RecoveryInit PROVE RecoveryInv
BY DEF RecoveryInit, RecoveryInv, SafeBlock, Block, Unjournaled, Files

-----------------------------------------------------------------------------
(* External actions. *)

States == {"none", "PENDING", "SENT", "torn"}

Responses == [state : {"none", "PENDING_TERMINAL_TRANSITION", "APPLIED", "torn"}, id : Nat]

ActionsType ==
  /\ main \in Actions
  /\ action \in [Actions -> States]
  /\ messages \in [Actions -> Nat]
  /\ answer \in [id : Nat, action : Nat] /\ answers \in Nat
  /\ response \in [Actions -> Responses]
  /\ item \in [status : {"PROPOSED", "WAITING_EXTERNAL", "PASSED_ENGINEERING"},
               evidence : Nat, completed : BOOLEAN]

(* What the journal's record says of the message. *)
Recorded(record, sent) ==
  /\ sent <= 1
  /\ record = "none" => sent = 0
  /\ record = "SENT" => sent = 1

Deliveries == \A a \in Actions : Recorded(action[a], messages[a])

ActionsInv == ActionsType /\ Deliveries /\ PassedOnOneResponse

(* What reserve finds. *)
LEMMA Reserved ==
  ASSUME NEW a \in Actions, ActionsType
  PROVE  /\ (Reserve(a) = "RESERVED") <=> (action[a] = "none")
         /\ (Reserve(a) = "RECOVERED") <=> (action[a] = "SENT")
<1>1. action[a] \in {"none", "PENDING", "SENT", "torn"}
  BY DEF ActionsType, States
<1>2. action[a] = "none" => Reserve(a) = "RESERVED"
  BY Zenon DEF Reserve
<1>3. action[a] = "PENDING" => Reserve(a) = "PENDING"
  BY Zenon DEF Reserve
<1>4. action[a] = "SENT" => Reserve(a) = "RECOVERED"
  BY Zenon DEF Reserve
<1>5. action[a] = "torn" => Reserve(a) = "corrupt"
  BY Zenon DEF Reserve
<1> QED
  BY <1>1, <1>2, <1>3, <1>4, <1>5

(* A step that leaves the message's record consistent and the item short   *)
(* of its end.                                                             *)
LEMMA Unfinished ==
  ASSUME ActionsInv, NEW record \in States, NEW sent \in {0, 1},
         action' = [action EXCEPT ![main] = record],
         messages' = [messages EXCEPT ![main] = @ + sent],
         Recorded(record, messages[main] + sent)
  PROVE  /\ action' \in [Actions -> States] /\ messages' \in [Actions -> Nat]
         /\ Deliveries' /\ messages'[main] = messages[main] + sent
<1>1. main \in Actions /\ messages[main] \in Nat
  BY DEF ActionsInv, ActionsType
<1>2. action' \in [Actions -> States] /\ messages' \in [Actions -> Nat]
  BY <1>1 DEF ActionsInv, ActionsType
<1>3. messages'[main] = messages[main] + sent /\ action'[main] = record
  BY <1>1 DEF ActionsInv, ActionsType
<1>4. ASSUME NEW a \in Actions, a # main
      PROVE  action'[a] = action[a] /\ messages'[a] = messages[a]
  BY <1>4 DEF ActionsInv, ActionsType
<1>5. ASSUME NEW a \in Actions
      PROVE  Recorded(action'[a], messages'[a])
  BY <1>1, <1>3, <1>4 DEF ActionsInv, Deliveries, Recorded
<1> QED
  BY <1>2, <1>3, <1>5 DEF Deliveries, Recorded

(* A failed or interrupted send: whatever left, the reservation stays.     *)
LEMMA SendKeeps ==
  ASSUME ActionsInv, item.status # "PASSED_ENGINEERING", SendFails
  PROVE  ActionsInv'
<1>1. main \in Actions /\ action[main] = "none" /\ messages[main] = 0
  BY Reserved DEF SendFails, ActionsInv, ActionsType, Deliveries, Recorded
<1>2. PICK left \in DeathsInExecute(main) :
        /\ Executed(main, left)
        /\ item' = Wait(item) \/ UNCHANGED item
  BY DEF SendFails, DeathsInExecute
<1>3. /\ left.record \in States /\ left.sent \in {0, 1}
      /\ Recorded(left.record, left.sent)
  BY DEF DeathsInExecute, Unanswered, States, Recorded
<1> DEFINE record == left.record
           sent == left.sent
<1>4. /\ action' = [action EXCEPT ![main] = record]
      /\ messages' = [messages EXCEPT ![main] = @ + sent]
  BY <1>2 DEF Executed
<1>5. Recorded(record, messages[main] + sent)
  BY <1>1, <1>3
<1> HIDE DEF record, sent
<1>6. /\ action' \in [Actions -> States] /\ messages' \in [Actions -> Nat] /\ Deliveries'
  <2>1. record \in States /\ sent \in {0, 1}
    BY <1>3 DEF record, sent
  <2> QED
    BY <1>4, <1>5, <2>1, Unfinished
<1>7. /\ item' \in [status : {"PROPOSED", "WAITING_EXTERNAL", "PASSED_ENGINEERING"},
                    evidence : Nat, completed : BOOLEAN]
      /\ item'.status # "PASSED_ENGINEERING"
  BY <1>2 DEF Wait, ActionsInv, ActionsType
<1> QED
  BY <1>6, <1>7 DEF ActionsInv, ActionsType, PassedOnOneResponse, SendFails, Actions

(* After a delivery one message has left. *)
LEMMA DeliveredOnce ==
  ASSUME ActionsInv, Delivered
  PROVE  /\ action' \in [Actions -> States] /\ messages' \in [Actions -> Nat]
         /\ Deliveries' /\ messages'[main] = 1
<1>1. main \in Actions
  BY DEF ActionsInv, ActionsType
<1>2. CASE Reserve(main) = "RESERVED"
  <2>1. messages[main] = 0
    BY <1>1, <1>2, Reserved DEF ActionsInv, Deliveries, Recorded
  <2>2. /\ action' = [action EXCEPT ![main] = "SENT"]
        /\ messages' = [messages EXCEPT ![main] = @ + 1]
    BY <1>2 DEF Delivered, Executed
  <2> DEFINE record == "SENT"
             sent == 1
  <2>3. /\ record \in States /\ sent \in {0, 1} /\ Recorded(record, messages[main] + sent)
        /\ messages[main] + sent = 1
        /\ action' = [action EXCEPT ![main] = record]
        /\ messages' = [messages EXCEPT ![main] = @ + sent]
    BY <2>1, <2>2 DEF States, Recorded
  <2> HIDE DEF record, sent
  <2> QED
    BY <2>3, Unfinished
<1>3. CASE Reserve(main) # "RESERVED"
  <2>1. action[main] = "SENT" /\ UNCHANGED <<action, messages>>
    BY <1>1, <1>3, Reserved DEF Delivered, ActionsInv
  <2> QED
    BY <1>1, <2>1 DEF ActionsInv, ActionsType, Deliveries, Recorded
<1> QED
  BY <1>2, <1>3

(* The response is applied up to any of its writes. *)
LEMMA ApplyKeeps ==
  ASSUME ActionsInv, messages'[main] = 1, Usable, NEW k \in 0 .. 5,
         ApplyResponse(main, k)
  PROVE  /\ response' \in [Actions -> Responses]
         /\ item' \in [status : {"PROPOSED", "WAITING_EXTERNAL", "PASSED_ENGINEERING"},
                       evidence : Nat, completed : BOOLEAN]
         /\ PassedOnOneResponse'
<1>1. /\ main \in Actions /\ answer.id \in Nat /\ response[main] \in Responses
      /\ item.evidence \in Nat
  BY DEF ActionsInv, ActionsType
<1> DEFINE r == IF k = 0 \/ (response[main].state # "none" /\ k < 5) THEN response[main]
                ELSE [state |-> IF k = 5 THEN "APPLIED" ELSE "PENDING_TERMINAL_TRANSITION",
                      id |-> answer.id]
<1>2. r \in Responses
  BY <1>1 DEF Responses
<1>3. response' = [response EXCEPT ![main] = r]
  BY DEF ApplyResponse
<1>4. k >= 3 => /\ r.id = answer.id
                /\ r.state \in {"PENDING_TERMINAL_TRANSITION", "APPLIED"}
  BY DEF Usable, ReserveResponse
<1> HIDE DEF r
<1>5. response' \in [Actions -> Responses] /\ response'[main] = r
  BY <1>1, <1>2, <1>3 DEF ActionsInv, ActionsType
<1>6. /\ item' \in [status : {"PROPOSED", "WAITING_EXTERNAL", "PASSED_ENGINEERING"},
                    evidence : Nat, completed : BOOLEAN]
      /\ item'.status = "PASSED_ENGINEERING" => k >= 3 /\ item'.evidence = answer.id
  BY <1>1 DEF ApplyResponse
<1>7. ASSUME item'.status = "PASSED_ENGINEERING"
      PROVE  /\ response'[main].id = item'.evidence
             /\ response'[main].state \in {"PENDING_TERMINAL_TRANSITION", "APPLIED"}
  BY <1>4, <1>5, <1>6, <1>7
<1> QED
  BY <1>1, <1>5, <1>6, <1>7 DEF PassedOnOneResponse, Actions

(* The promotion. *)
LEMMA PromoteKeeps ==
  ASSUME ActionsInv, Promote
  PROVE  ActionsInv'
<1>1. item.status # "PASSED_ENGINEERING"
  BY DEF Promote
<1>2. CASE AwaitDelivery
  BY <1>1, <1>2 DEF AwaitDelivery, Wait, ActionsInv, ActionsType, Deliveries,
                    PassedOnOneResponse
<1>3. CASE SendFails
  BY <1>1, <1>3, SendKeeps
<1>4. CASE /\ AwaitResponse \/ TakeResponse \/ DieInResponse
           /\ UNCHANGED <<recoveryVars, main, request, answer, answers>>
  <2>1. Delivered
    BY <1>4 DEF AwaitResponse, TakeResponse, DieInResponse
  <2>2. /\ action' \in [Actions -> States] /\ messages' \in [Actions -> Nat]
        /\ Deliveries' /\ messages'[main] = 1
    BY <2>1, DeliveredOnce
  <2>3. SUFFICES /\ response' \in [Actions -> Responses]
                 /\ item' \in [status : {"PROPOSED", "WAITING_EXTERNAL", "PASSED_ENGINEERING"},
                               evidence : Nat, completed : BOOLEAN]
                 /\ PassedOnOneResponse'
    BY <1>4, <2>2 DEF ActionsInv, ActionsType, Actions
  <2>4. CASE AwaitResponse
    BY <1>1, <2>4 DEF AwaitResponse, Wait, ActionsInv, ActionsType, PassedOnOneResponse
  <2>5. CASE Usable /\ \E k \in 0 .. 5 : ApplyResponse(main, k)
    BY <2>2, <2>5, ApplyKeeps
  <2>6. CASE /\ response' = [response EXCEPT ![main] = [state |-> "torn", id |-> answer.id]]
             /\ item' = Wait(item)
    <3> DEFINE r == [state |-> "torn", id |-> answer.id]
    <3>1. r \in Responses /\ response' = [response EXCEPT ![main] = r]
      BY <2>6 DEF Responses, ActionsInv, ActionsType
    <3> HIDE DEF r
    <3>2. response' \in [Actions -> Responses]
      BY <3>1 DEF ActionsInv, ActionsType
    <3> QED
      BY <1>1, <2>6, <3>2 DEF Wait, ActionsInv, ActionsType, PassedOnOneResponse
  <2>7. 5 \in 0 .. 5 /\ \A k \in 0 .. 4 : k \in 0 .. 5
    OBVIOUS
  <2> QED
    BY <1>4, <2>4, <2>5, <2>6, <2>7 DEF TakeResponse, DieInResponse
<1> QED
  BY <1>2, <1>3, <1>4 DEF Promote

(* The outside world: main, requests and answers. *)
LEMMA OutsideKeeps ==
  ASSUME ActionsInv, MoveMain \/ RegisterRequest \/ Answer \/ ExpireAnswer
  PROVE  ActionsInv'
<1>1. CASE MoveMain
  <2>1. main' \in Actions
    BY <1>1, ExternalAssumption DEF MoveMain, ActionsInv, ActionsType, Actions
  <2> QED
    BY <1>1, <2>1 DEF MoveMain, ActionsInv, ActionsType, Deliveries, PassedOnOneResponse
<1>2. CASE RegisterRequest
  BY <1>2 DEF RegisterRequest, ActionsInv, ActionsType, Deliveries, PassedOnOneResponse
<1>3. CASE Answer
  BY <1>3 DEF Answer, ActionsInv, ActionsType, Deliveries, PassedOnOneResponse, Actions
<1>4. CASE ExpireAnswer
  BY <1>4 DEF ExpireAnswer, NoAnswer, ActionsInv, ActionsType, Deliveries,
              PassedOnOneResponse
<1> QED
  BY <1>1, <1>2, <1>3, <1>4

(* A step that leaves the journal, the messages and the item alone. *)
LEMMA ActionsUntouched ==
  ASSUME ActionsInv, UNCHANGED actionVars
  PROVE  ActionsInv'
BY DEF actionVars, ActionsInv, ActionsType, Deliveries, PassedOnOneResponse

(* Nothing is requested, sent or answered at first. *)
LEMMA ActionsStart ==
  ASSUME ActionsInit
  PROVE  RecoveryInv /\ ActionsInv
<1>1. main \in Actions
  BY ExternalAssumption DEF ActionsInit, Actions
<1>2. ActionsInv
  BY <1>1 DEF ActionsInit, ActionsInv, ActionsType, Deliveries, Recorded, PassedOnOneResponse,
              States, Responses, NoAnswer, NoResponse
<1> QED
  BY <1>2, RecoveryStarts DEF ActionsInit

(* A commercial episode. *)
LEMMA CommercialSteps ==
  ASSUME RecoveryInv, ActionsInv, ActionsNext
  PROVE  RecoveryInv' /\ ActionsInv'
<1>1. CASE Recover
  BY <1>1, RecoverySteps, ActionsUntouched DEF Recover
<1>2. CASE Promote
  <2>1. UNCHANGED recoveryVars
    BY <1>2 DEF Promote, AwaitDelivery, SendFails
  <2> QED
    BY <1>2, <2>1, PromoteKeeps DEF recoveryVars, RecoveryInv, SafeBlock
<1>3. CASE EndCycle
  BY <1>3, ActionsUntouched DEF EndCycle, recoveryVars, RecoveryInv, SafeBlock
<1>4. CASE MoveMain \/ RegisterRequest \/ Answer \/ ExpireAnswer
  <2>1. UNCHANGED recoveryVars
    BY <1>4 DEF MoveMain, RegisterRequest, Answer, ExpireAnswer
  <2> QED
    BY <1>4, <2>1, OutsideKeeps DEF recoveryVars, RecoveryInv, SafeBlock
<1> QED
  BY <1>1, <1>2, <1>3, <1>4 DEF ActionsNext

(* A commercial episode within the composition. *)
CommercialInv == RecoveryInv /\ ActionsInv

(* Backend recovery and the external actions in the composition. *)
LEMMA CommercialHolds == WorkSpec => []CommercialInv
<1>1. WorkInit => CommercialInv
  BY ActionsStart DEF WorkInit, CommercialInv
<1>2. CommercialInv /\ [WorkNext]_workVars => CommercialInv'
  <2> SUFFICES ASSUME CommercialInv, [WorkNext]_workVars
               PROVE  CommercialInv'
    OBVIOUS
  <2>1. ActionsNext \/ UNCHANGED externalVars
    BY DEF WorkNext, Commercial, Researching, Releasing, Qualifying, workVars
  <2>2. CASE UNCHANGED externalVars
    BY <2>2, ActionsUntouched
    DEF externalVars, recoveryVars, CommercialInv, RecoveryInv, SafeBlock
  <2> QED
    BY <2>1, <2>2, CommercialSteps DEF CommercialInv
<1> QED
  BY <1>1, <1>2, PTL DEF WorkSpec

(* FailedAttemptIsArchived: a reopened item's failed checkpoint is removed *)
(* and every generation of it archived, wherever a recovery died           *)
(* (recover_repaired_claude_sandbox_blocks).                               *)
THEOREM AttemptsArchived == WorkSpec => []FailedAttemptIsArchived
<1>1. CommercialInv => FailedAttemptIsArchived
  BY DEF CommercialInv, RecoveryInv, SafeBlock, FailedAttemptIsArchived
<1> QED
  BY <1>1, CommercialHolds, PTL

(* OneMessageOneResponse: the message of an action leaves at most once and *)
(* an item passes on the one response the journal keeps for it, whatever   *)
(* fails, dies or is answered again (ExternalActionJournal).               *)
THEOREM MessagesSentOnce == WorkSpec => []OneMessageOneResponse
<1>1. CommercialInv => OneMessageOneResponse
  BY DEF CommercialInv, ActionsInv, Deliveries, Recorded, OneMessageOneResponse,
         MessageIsSentOnce
<1> QED
  BY <1>1, CommercialHolds, PTL

-----------------------------------------------------------------------------
(* The evidence authority. *)

Epochs == 1 .. MaxEpoch

RootFiles == {"list", "anchor"}

PartNames == {"list", "anchor", "ledger"}

AuthorityType ==
  /\ staged \in Epochs
  /\ root \in [RootFiles -> Epochs]
  /\ ledger \in Int /\ readFaults \in Nat
  /\ \A f \in RootFiles : root[f] <= staged
  /\ reader \in [at : 0 .. 12, first : Int, snap : [PartNames -> Int]]

(* What a read that has come to its n-th part knows of the ledger, which   *)
(* only goes on: the snapshot of the second pass lies below what the third *)
(* pass verified, and that below what is there now.                        *)
Known ==
  LET n == reader.at IN
  /\ n > 1 => reader.first \in Epochs
  /\ n > 3 => ledger >= 1
  /\ n > 6 => 1 <= reader.snap["ledger"] /\ reader.snap["ledger"] <= ledger
  /\ n > 9 => /\ reader.snap["ledger"] <= reader.first /\ reader.first <= ledger
              /\ reader.first < RevokedFrom

(* And of the files, which go on too unless one is restored.               *)
FilesKnown ==
  LET n == reader.at IN
  /\ n > 4 => reader.snap["list"] <= root["list"]
  /\ n > 5 => reader.snap["anchor"] <= root["anchor"]
  /\ n > 7 => reader.snap["list"] <= reader.first /\ reader.first <= root["list"]
  /\ n > 8 => reader.snap["anchor"] <= reader.first /\ reader.first <= root["anchor"]
  /\ n > 10 => reader.snap["list"] = reader.first
  /\ n > 11 => reader.snap["anchor"] = reader.first

AuthorityInv ==
  /\ AuthorityType /\ Known /\ (readFaults = 0 => FilesKnown)
  /\ SnapshotIsOneEpoch /\ LedgerVouches

(* The order of the twelve reads. *)
LEMMA ReadOrder ==
  /\ \A n \in {1, 4, 7, 10} : Reading(n) = "list"
  /\ \A n \in {2, 5, 8, 11} : Reading(n) = "anchor"
  /\ \A n \in {3, 6, 9, 12} : Reading(n) = "ledger"
  /\ \A n \in {1, 2, 3} : Pass(n) = 1
  /\ \A n \in {4, 5, 6} : Pass(n) = 2
  /\ \A n \in {7, 8, 9} : Pass(n) = 3
  /\ \A n \in {10, 11, 12} : Pass(n) = 4
<1>1. Parts[1] = "list" /\ Parts[2] = "anchor" /\ Parts[3] = "ledger"
  BY DEF Parts
<1>2. /\ \A n \in {1, 4, 7, 10} : ((n - 1) % 3) + 1 = 1
      /\ \A n \in {2, 5, 8, 11} : ((n - 1) % 3) + 1 = 2
      /\ \A n \in {3, 6, 9, 12} : ((n - 1) % 3) + 1 = 3
  OBVIOUS
<1>3. /\ \A n \in {1, 2, 3} : ((n - 1) \div 3) + 1 = 1
      /\ \A n \in {4, 5, 6} : ((n - 1) \div 3) + 1 = 2
      /\ \A n \in {7, 8, 9} : ((n - 1) \div 3) + 1 = 3
      /\ \A n \in {10, 11, 12} : ((n - 1) \div 3) + 1 = 4
  OBVIOUS
<1> QED
  BY <1>1, <1>2, <1>3 DEF Reading, Pass

(* What the verification of a part says of its value. *)
LEMMA Verified ==
  ASSUME NEW part \in {"anchor", "ledger"}, NEW value, Verifies(part, value)
  PROVE  value = reader.first /\ (part = "ledger" => reader.first < RevokedFrom)
<1>1. CASE part = "anchor"
  <2>1. part # "list" /\ part # "ledger"
    BY <1>1
  <2> QED
    BY <1>1, <2>1, Zenon DEF Verifies
<1>2. CASE part = "ledger"
  <2>1. part # "list" /\ part # "anchor"
    BY <1>2
  <2> QED
    BY <1>2, <2>1, Zenon DEF Verifies
<1> QED
  BY <1>1, <1>2

(* What the acceptance of the n-th read says of the part it reads. *)
LEMMA Accepted ==
  ASSUME NEW n \in 1 .. 12, Accepts(n)
  PROVE  /\ Pass(n) \in {1, 3} => Verifies(Reading(n), Value(Reading(n)))
         /\ Pass(n) = 4 => Value(Reading(n)) = reader.snap[Reading(n)]
<1>1. CASE Pass(n) \in {1, 3}
  <2>1. Verifies(Reading(n), Value(Reading(n)))
    <3>1. Pass(n) # 2
      BY <1>1
    <3> QED
      BY <1>1, <3>1, Zenon DEF Accepts
  <2> QED
    BY <1>1, <2>1
<1>2. CASE Pass(n) = 4
  <2>1. Pass(n) \notin {1, 3} /\ Pass(n) # 2
    BY <1>2
  <2>2. Unchanged(Reading(n), Value(Reading(n)))
    BY <2>1, Zenon DEF Accepts
  <2> QED
    BY <1>2, <2>2 DEF Unchanged
<1> QED
  BY <1>1, <1>2

(* The reads that compare one part with another. *)
LEMMA ReadMeans ==
  ASSUME NEW n \in 1 .. 12, Accepts(n)
  PROVE  /\ n \in {2, 8} => root["anchor"] = reader.first
         /\ n \in {3, 9} => ledger = reader.first /\ reader.first < RevokedFrom
         /\ n = 10 => root["list"] = reader.snap["list"]
         /\ n = 11 => root["anchor"] = reader.snap["anchor"]
         /\ n = 12 => ledger = reader.snap["ledger"]
<1>1. /\ Value("list") = root["list"] /\ Value("anchor") = root["anchor"]
      /\ Value("ledger") = ledger
  BY DEF Value
<1>2. CASE n \in {2, 8}
  <2>1. Verifies("anchor", root["anchor"])
    BY <1>1, <1>2, Accepted, ReadOrder
  <2> QED
    BY <1>2, <2>1, Verified
<1>3. CASE n \in {3, 9}
  <2>1. Verifies("ledger", ledger)
    BY <1>1, <1>3, Accepted, ReadOrder
  <2> QED
    BY <1>3, <2>1, Verified
<1>4. CASE n \in {10, 11, 12}
  BY <1>1, <1>4, Accepted, ReadOrder
<1>5. CASE n \notin {2, 3, 8, 9, 10, 11, 12}
  BY <1>5
<1> QED
  BY <1>2, <1>3, <1>4, <1>5

(* A read goes on. *)
LEMMA ReadKeeps ==
  ASSUME AuthorityInv, ReadPart
  PROVE  AuthorityInv'
<1> DEFINE n == reader.at
           part == Reading(n)
           first == IF Pass(n) \in {1, 3} /\ part = "list" THEN Value(part) ELSE reader.first
           snap == IF Pass(n) = 2 THEN [reader.snap EXCEPT ![part] = Value(part)]
                                  ELSE reader.snap
<1>1. /\ n \in 1 .. 11 /\ Accepts(n)
      /\ reader' = [at |-> n + 1, first |-> first, snap |-> snap]
      /\ UNCHANGED <<staged, root, ledger, release, frozen, readFaults>>
  BY DEF ReadPart
<1>2. /\ Value("list") = root["list"] /\ Value("anchor") = root["anchor"]
      /\ Value("ledger") = ledger
  BY DEF Value
<1>3. /\ reader.first \in Int /\ reader.snap \in [PartNames -> Int]
      /\ root["list"] \in Epochs /\ root["anchor"] \in Epochs /\ ledger \in Int
  BY DEF AuthorityInv, AuthorityType, RootFiles
<1>4. /\ n \in {1, 7} => first = root["list"]
      /\ n \notin {1, 7} => first = reader.first
  BY <1>1, <1>2, ReadOrder
<1>5. first \in Int
  BY <1>3, <1>4 DEF Epochs
<1>6. /\ n = 4 => snap = [reader.snap EXCEPT !["list"] = root["list"]]
      /\ n = 5 => snap = [reader.snap EXCEPT !["anchor"] = root["anchor"]]
      /\ n = 6 => snap = [reader.snap EXCEPT !["ledger"] = ledger]
      /\ n \notin {4, 5, 6} => snap = reader.snap
  BY <1>1, <1>2, ReadOrder
<1> HIDE DEF first, snap
<1>7. snap \in [PartNames -> Int]
  BY <1>3, <1>6 DEF PartNames, Epochs
<1>8. /\ snap["list"] = IF n = 4 THEN root["list"] ELSE reader.snap["list"]
      /\ snap["anchor"] = IF n = 5 THEN root["anchor"] ELSE reader.snap["anchor"]
      /\ snap["ledger"] = IF n = 6 THEN ledger ELSE reader.snap["ledger"]
  BY <1>3, <1>6 DEF PartNames
<1>9. reader'.at = n + 1 /\ reader'.first = first /\ reader'.snap = snap
  BY <1>1
<1>10. AuthorityType'
  BY <1>1, <1>5, <1>7 DEF AuthorityInv, AuthorityType
<1>11. Known
  BY DEF AuthorityInv
<1>12. /\ n \in {2, 8} => root["anchor"] = reader.first
       /\ n \in {3, 9} => ledger = reader.first /\ reader.first < RevokedFrom
       /\ n = 10 => root["list"] = reader.snap["list"]
       /\ n = 11 => root["anchor"] = reader.snap["anchor"]
  BY <1>1, ReadMeans
<1>13. /\ reader.snap["list"] \in Int /\ reader.snap["anchor"] \in Int
       /\ reader.snap["ledger"] \in Int /\ RevokedFrom \in Int
       /\ root["list"] \in Int /\ root["anchor"] \in Int /\ MaxEpoch \in Int
  BY <1>3, AuthorityAssumption DEF PartNames, Epochs
<1> DEFINE m == n + 1
<1>14. Known'
  <2>1. ledger' = ledger
    BY <1>1
  <2>2. SUFFICES
          /\ m > 1 => first \in Epochs
          /\ m > 3 => ledger >= 1
          /\ m > 6 => 1 <= snap["ledger"] /\ snap["ledger"] <= ledger
          /\ m > 9 => snap["ledger"] <= first /\ first <= ledger /\ first < RevokedFrom
    BY <1>9, <2>1 DEF Known
  <2>3. CASE n \in {1, 2, 3}
    BY <1>1, <1>3, <1>4, <1>8, <1>11, <1>12, <1>13, <2>3 DEF Known, Epochs
  <2>4. CASE n \in {4, 5, 6}
    BY <1>1, <1>3, <1>4, <1>8, <1>11, <1>13, <2>4 DEF Known
  <2>5. CASE n \in {7, 8, 9}
    BY <1>1, <1>3, <1>4, <1>8, <1>11, <1>12, <1>13, <2>5 DEF Known, Epochs
  <2>6. CASE n \in {10, 11}
    BY <1>1, <1>3, <1>4, <1>8, <1>11, <1>12, <1>13, <2>6 DEF Known
  <2> QED
    BY <1>1, <2>3, <2>4, <2>5, <2>6
<1>15. (readFaults = 0 => FilesKnown)'
  <2>1. SUFFICES ASSUME readFaults = 0 PROVE FilesKnown'
    BY <1>1
  <2>2. FilesKnown
    BY <2>1 DEF AuthorityInv
  <2>3. SUFFICES
          /\ m > 4 => snap["list"] <= root["list"]
          /\ m > 5 => snap["anchor"] <= root["anchor"]
          /\ m > 7 => snap["list"] <= first /\ first <= root["list"]
          /\ m > 8 => snap["anchor"] <= first /\ first <= root["anchor"]
          /\ m > 10 => snap["list"] = first
          /\ m > 11 => snap["anchor"] = first
    BY <1>1, <1>9 DEF FilesKnown
  <2>4. CASE n \in {1, 2, 3}
    BY <2>4
  <2>5. CASE n \in {4, 5, 6}
    BY <1>8, <1>13, <2>2, <2>5 DEF FilesKnown
  <2>6. CASE n \in {7, 8, 9}
    BY <1>4, <1>8, <1>12, <1>13, <1>3, <1>5, <2>2, <2>6 DEF FilesKnown
  <2>7. CASE n \in {10, 11}
    BY <1>4, <1>8, <1>12, <1>13, <1>3, <1>5, <2>2, <2>7 DEF FilesKnown
  <2> QED
    BY <1>1, <2>4, <2>5, <2>6, <2>7
<1>16. SnapshotIsOneEpoch' /\ LedgerVouches'
  BY <1>1 DEF AuthorityInv, SnapshotIsOneEpoch, LedgerVouches, Bound
<1> QED
  BY <1>10, <1>14, <1>15, <1>16 DEF AuthorityInv

(* The ledger only goes on, and so do the files until one is restored.     *)
LEMMA RootKeeps ==
  ASSUME AuthorityInv,
         StageAuthority \/ InstallFile \/ RestoreFiles \/ PromoteSnapshot
  PROVE  AuthorityInv'
<1>1. UNCHANGED <<release, frozen, reader>>
  BY DEF StageAuthority, InstallFile, RestoreFiles, PromoteSnapshot
<1>2. SnapshotIsOneEpoch' /\ LedgerVouches'
  <2>1. readFaults' = readFaults \/ readFaults' # 0
    BY DEF StageAuthority, InstallFile, RestoreFiles, PromoteSnapshot, Genesis, Rotate,
           AuthorityInv, AuthorityType
  <2> QED
    BY <1>1, <2>1 DEF AuthorityInv, SnapshotIsOneEpoch, LedgerVouches, Bound
<1>3. /\ reader.at \in 0 .. 12 /\ reader.first \in Int
      /\ reader.snap["list"] \in Int /\ reader.snap["anchor"] \in Int
      /\ reader.snap["ledger"] \in Int
      /\ root["list"] \in 1 .. staged /\ root["anchor"] \in 1 .. staged
      /\ staged \in 1 .. MaxEpoch /\ MaxEpoch \in Nat /\ ledger \in Int
      /\ readFaults \in Nat
  BY AuthorityAssumption
  DEF AuthorityInv, AuthorityType, RootFiles, PartNames, Epochs
<1>4. CASE StageAuthority
  <2>1. AuthorityType'
    BY <1>1, <1>3, <1>4 DEF StageAuthority, AuthorityInv, AuthorityType, Epochs, RootFiles
  <2>2. Known' /\ (readFaults = 0 => FilesKnown)'
    BY <1>1, <1>4 DEF StageAuthority, AuthorityInv, Known, FilesKnown
  <2> QED
    BY <1>2, <2>1, <2>2 DEF AuthorityInv
<1>5. CASE InstallFile
  <2>1. PICK f \in RootFiles : /\ root[f] < staged
                               /\ root' = [root EXCEPT ![f] = staged]
                               /\ UNCHANGED <<staged, ledger, readFaults>>
    BY <1>5 DEF InstallFile, AuthorityInv, AuthorityType
  <2>2. AuthorityType'
    BY <1>1, <1>3, <2>1 DEF AuthorityInv, AuthorityType, Epochs, RootFiles
  <2>3. root'["list"] >= root["list"] /\ root'["anchor"] >= root["anchor"]
    BY <1>3, <2>1 DEF AuthorityInv, AuthorityType, RootFiles
  <2>4. root'["list"] \in Int /\ root'["anchor"] \in Int
    BY <2>2, <1>3 DEF AuthorityType, RootFiles, Epochs
  <2>5. Known'
    BY <1>1, <2>1 DEF AuthorityInv, Known
  <2>6. (readFaults = 0 => FilesKnown)'
    BY <1>1, <1>3, <2>1, <2>3, <2>4 DEF AuthorityInv, FilesKnown
  <2> QED
    BY <1>2, <2>2, <2>5, <2>6 DEF AuthorityInv
<1>6. CASE RestoreFiles
  <2>1. /\ readFaults' = readFaults + 1 /\ \E e \in 1 .. staged - 1 : root' = [f \in RootFiles |-> e]
        /\ UNCHANGED <<staged, ledger>>
    BY <1>6 DEF RestoreFiles, AuthorityInv, AuthorityType
  <2>2. AuthorityType'
    BY <1>1, <1>3, <2>1 DEF AuthorityInv, AuthorityType, Epochs, RootFiles
  <2>3. Known' /\ readFaults' # 0
    BY <1>1, <1>3, <2>1 DEF AuthorityInv, Known
  <2> QED
    BY <1>2, <2>2, <2>3 DEF AuthorityInv
<1>7. CASE PromoteSnapshot
  <2>1. UNCHANGED <<staged, root>>
    BY <1>7 DEF PromoteSnapshot
  <2>2. /\ ledger' \in Int /\ (ledger >= 1 => ledger' >= ledger)
        /\ readFaults' \in {readFaults, readFaults + 1}
    BY <1>3, <1>7 DEF PromoteSnapshot, Genesis, Rotate, Torn
  <2>3. AuthorityType'
    BY <1>1, <2>1, <2>2 DEF AuthorityInv, AuthorityType
  <2>4. Known
    BY DEF AuthorityInv
  <2>5. Known'
    BY <1>1, <1>3, <2>1, <2>2, <2>4 DEF Known
  <2>6. (readFaults = 0 => FilesKnown)'
    BY <1>1, <1>3, <2>1, <2>2 DEF AuthorityInv, FilesKnown
  <2> QED
    BY <1>2, <2>3, <2>5, <2>6 DEF AuthorityInv
<1> QED
  BY <1>4, <1>5, <1>6, <1>7

(* An accepted payload is of the ledger's epoch, which does not revoke the *)
(* receipt; and all of it, unless a file was restored.                     *)
LEMMA AcceptedIsOneEpoch ==
  ASSUME AuthorityInv, reader.at = 12, Accepts(12)
  PROVE  /\ reader.snap["ledger"] = ledger /\ ledger \in 1 .. RevokedFrom - 1
         /\ readFaults = 0 =>
              \E e \in 1 .. MaxEpoch : \A p \in DOMAIN reader.snap : reader.snap[p] = e
<1>1. ledger = reader.snap["ledger"]
  BY ReadMeans
<1>2. /\ reader.first \in Epochs /\ reader.first < RevokedFrom
      /\ reader.snap["ledger"] <= reader.first /\ reader.first <= ledger
  BY DEF AuthorityInv, Known
<1>3. DOMAIN reader.snap = PartNames /\ ledger \in Int /\ reader.first \in Int
  BY DEF AuthorityInv, AuthorityType
<1>4. reader.snap["ledger"] = reader.first /\ ledger = reader.first
  BY <1>1, <1>2, <1>3
<1>5. readFaults = 0 => reader.snap["list"] = reader.first /\ reader.snap["anchor"] = reader.first
  BY DEF AuthorityInv, FilesKnown
<1>6. ledger \in 1 .. RevokedFrom - 1
  BY <1>2, <1>3, <1>4, AuthorityAssumption DEF Epochs
<1> QED
  BY <1>1, <1>2, <1>3, <1>4, <1>5, <1>6 DEF PartNames, Epochs

(* A read begins or ends. *)
LEMMA ReaderKeeps ==
  ASSUME AuthorityInv,
         BeginRead \/ BindEvidence \/ ReverifyEvidence \/ RefuseEvidence \/ DieReading
  PROVE  AuthorityInv'
<1>1. UNCHANGED <<staged, root, ledger>>
  BY DEF BeginRead, BindEvidence, ReverifyEvidence, RefuseEvidence, DieReading
<1>2. reader' = [Idle EXCEPT !.at = 1] \/ reader' = Idle
  BY DEF BeginRead, BindEvidence, ReverifyEvidence, RefuseEvidence, DieReading
<1>3. reader' \in [at : {0, 1}, first : {0}, snap : {NoSnapshot}]
  BY <1>2 DEF Idle
<1>4. NoSnapshot \in [PartNames -> Int]
  BY DEF NoSnapshot, PartNames
<1>5. readFaults' = readFaults \/ readFaults' = readFaults + 1
  BY DEF BeginRead, BindEvidence, ReverifyEvidence, RefuseEvidence, DieReading
<1>6. AuthorityType'
  BY <1>1, <1>3, <1>4, <1>5 DEF AuthorityInv, AuthorityType
<1>7. Known' /\ FilesKnown'
  BY <1>3 DEF Known, FilesKnown
<1>8. SnapshotIsOneEpoch' /\ LedgerVouches'
  <2>1. CASE BindEvidence
    <3>1. frozen' = reader.snap /\ reader.at = 12 /\ Accepts(12) /\ UNCHANGED readFaults
      BY <2>1 DEF BindEvidence
    <3> QED
      BY <3>1, AcceptedIsOneEpoch DEF SnapshotIsOneEpoch, LedgerVouches
  <2>2. CASE ~BindEvidence
    <3>1. frozen' = frozen /\ (Bound' => Bound)
      BY <2>2 DEF BeginRead, ReverifyEvidence, RefuseEvidence, DieReading, Bound
    <3>2. readFaults' = 0 => readFaults = 0
      BY <1>5 DEF AuthorityInv, AuthorityType
    <3> QED
      BY <3>1, <3>2 DEF AuthorityInv, SnapshotIsOneEpoch, LedgerVouches
  <2> QED
    BY <2>1, <2>2
<1> QED
  BY <1>6, <1>7, <1>8 DEF AuthorityInv

(* The publisher is called, and the authority may have moved on. *)
LEMMA PublishKeeps ==
  ASSUME AuthorityInv, PublishChecked
  PROVE  AuthorityInv'
  BY DEF PublishChecked, AuthorityInv, AuthorityType, Known, FilesKnown, SnapshotIsOneEpoch,
         LedgerVouches, Bound

(* Every file of the authority starts at the first epoch, unread. *)
LEMMA AuthorityStarts ==
  ASSUME AuthorityInit
  PROVE  AuthorityInv
<1>1. AuthorityType
  BY AuthorityAssumption
  DEF AuthorityInit, AuthorityType, Epochs, RootFiles, PartNames, Idle, NoSnapshot
<1>2. Known /\ FilesKnown /\ SnapshotIsOneEpoch /\ LedgerVouches
  BY DEF AuthorityInit, Known, FilesKnown, Idle, SnapshotIsOneEpoch, LedgerVouches, Bound
<1> QED
  BY <1>1, <1>2 DEF AuthorityInv

(* The check before a publication passes only at the bound epoch, and only *)
(* what was checked is published.                                          *)
LEMMA CheckedIsCurrent ==
  ASSUME AuthorityInv, [AuthorityNext]_authorityVars
  PROVE  /\ release = "bound" /\ release' = "checked" => ledger = frozen["ledger"]
         /\ release' = "published" => release \in {"checked", "published"}
<1>1. \/ UNCHANGED release
      \/ release = "checked" /\ release' \in {"published", "bound"}
      \/ release' \in {"bound", "blocked"}
      \/ ReverifyEvidence
  BY DEF AuthorityNext, authorityVars, StageAuthority, InstallFile, RestoreFiles, PromoteSnapshot,
         BeginRead, ReadPart, BindEvidence, PublishChecked, RefuseEvidence, DieReading
<1>2. ReverifyEvidence => /\ release' # "published"
                          /\ release' = "checked" => ledger = frozen["ledger"]
  BY AcceptedIsOneEpoch DEF ReverifyEvidence
<1> QED
  BY <1>1, <1>2

(* Every step of the authority and of its reader. *)
LEMMA AuthoritySteps ==
  ASSUME AuthorityInv, [AuthorityNext]_authorityVars
  PROVE  AuthorityInv'
<1>1. CASE UNCHANGED authorityVars
  BY <1>1 DEF authorityVars, AuthorityInv, AuthorityType, Known, FilesKnown, SnapshotIsOneEpoch,
     LedgerVouches, Bound
<1> QED
  BY <1>1, RootKeeps, ReaderKeeps, ReadKeeps, PublishKeeps DEF AuthorityNext

(* EvidenceIsCurrent: what is bound to a candidate is of a ledger epoch    *)
(* that does not revoke its receipt, and of one epoch unless a file was    *)
(* restored, although the parts are read one at a time and move on in      *)
(* between; the check before a publication passes only while the ledger is *)
(* at that epoch, and a death or a wait after it has it made again         *)
(* (load_verified_external_evidence_payload, _reverify_external_evidence). *)
THEOREM EvidenceCurrent == WorkSpec => EvidenceIsCurrent
<1>1. WorkInit => AuthorityInv
  BY AuthorityStarts DEF WorkInit
<1>2. [WorkNext]_workVars => [AuthorityNext]_authorityVars
  BY DEF WorkNext, Commercial, Researching, Releasing, Qualifying, workVars
<1>3. AuthorityInv /\ [WorkNext]_workVars => AuthorityInv'
  BY <1>2, AuthoritySteps
<1>4. AuthorityInv /\ AuthorityInv' /\ [WorkNext]_workVars =>
        [ /\ SnapshotIsOneEpoch' /\ LedgerVouches'
          /\ release = "bound" /\ release' = "checked" => ledger = frozen["ledger"]
          /\ release' = "published" => release \in {"checked", "published"}
        ]_authorityVars
  BY <1>2, CheckedIsCurrent DEF AuthorityInv
<1> QED
  BY <1>1, <1>3, <1>4, PTL DEF WorkSpec, EvidenceIsCurrent

-----------------------------------------------------------------------------
(* Controlled research. *)

(* A set of documents that supports what may be published on it. *)
Supports(docs) ==
  /\ docs \in [Sources -> Documents]
  /\ \/ \E s \in Sources : \E c \in Plan[s] : docs[s][c] = "CONFLICT"
     \/ \A c \in Claims :
          /\ \E s \in Sources : c \in Plan[s]
          /\ \A s \in Sources : c \in Plan[s] => docs[s][c] = "CLEAR"

Evidence == {Nothing, Partial} \cup {docs \in [Sources -> Documents] : Supports(docs)}

Fields == {"gen", "state", "on", "plans", "bound", "done", "tx"}

(* The candidate rests on whole evidence written for the head of main. *)
Rests == BoundIsIntact /\ ckpt.on = stem /\ stem = planned

ResearchInv ==
  /\ stem \in Nat /\ planned \in Nat /\ DOMAIN ckpt = Fields
  /\ folders \in [Generations -> Evidence]
  /\ at # "idle" => research = "READY" /\ stem = planned /\ Supports(advisory)
  /\ at \in {"materialized", "bound", "worked", "frozen"} => ckpt.on = stem
  /\ at = "frozen" => Rests
  /\ research = "PASSED" => Rests

(* What the resolution of a report says of a claim. *)
LEMMA ClaimResolved ==
  ASSUME NEW docs, NEW c
  PROVE  /\ ClaimVerdict(docs, c) \in {"CONFLICT", "CLEAR", "UNKNOWN"}
         /\ ClaimVerdict(docs, c) = "CONFLICT" => "CONFLICT" \in Verdicts(docs, c)
         /\ ClaimVerdict(docs, c) = "CLEAR" => Verdicts(docs, c) = {"CLEAR"}
<1> DEFINE verdicts == Verdicts(docs, c)
<1>1. "CONFLICT" \in verdicts => ClaimVerdict(docs, c) = "CONFLICT"
  <2>1. ASSUME "CONFLICT" \in verdicts PROVE verdicts # {"CLEAR"}
    BY <2>1
  <2> QED
    BY <2>1, Zenon DEF ClaimVerdict
<1>2. "CONFLICT" \notin verdicts /\ verdicts = {"CLEAR"} => ClaimVerdict(docs, c) = "CLEAR"
  BY Zenon DEF ClaimVerdict
<1>3. "CONFLICT" \notin verdicts /\ verdicts # {"CLEAR"} => ClaimVerdict(docs, c) = "UNKNOWN"
  BY Zenon DEF ClaimVerdict
<1> QED
  BY <1>1, <1>2, <1>3

(* The overall verdict is conclusive when a claim conflicts, or all are    *)
(* clear.                                                                  *)
LEMMA OverallResolved ==
  ASSUME NEW docs, OverallVerdict(docs) # "UNKNOWN"
  PROVE  \/ \E c \in Claims : ClaimVerdict(docs, c) = "CONFLICT"
         \/ \A c \in Claims : ClaimVerdict(docs, c) # "UNKNOWN"
<1> DEFINE found == {ClaimVerdict(docs, c) : c \in Claims}
<1>1. "CONFLICT" \notin found /\ "UNKNOWN" \in found => OverallVerdict(docs) = "UNKNOWN"
  BY Zenon DEF OverallVerdict
<1>2. "CONFLICT" \in found \/ "UNKNOWN" \notin found
  BY <1>1
<1> QED
  BY <1>2

(* A complete and conclusive acquisition supports its verdict. *)
LEMMA ConclusiveSupports ==
  ASSUME NEW docs \in [Sources -> Documents \cup {NoDocument}], NEW controlled,
         Acquired(docs) = Sources, Conclusive(docs, controlled)
  PROVE  Supports(docs)
<1>1. ASSUME NEW s \in Sources
      PROVE  docs[s] \in Documents
  <2>1. s \in 1 .. s
    BY DEF Sources
  <2>2. Retrievable(docs[s])
    BY <2>1 DEF Acquired
  <2> QED
    BY <2>2 DEF Retrievable
<1>2. docs \in [Sources -> Documents]
  BY <1>1
<1>3. OverallVerdict(docs) # "UNKNOWN"
  BY DEF Conclusive
<1>4. CASE \E c \in Claims : ClaimVerdict(docs, c) = "CONFLICT"
  <2>1. PICK c \in Claims : "CONFLICT" \in Verdicts(docs, c)
    BY <1>4, ClaimResolved
  <2>2. \E s \in Sources : c \in Plan[s] /\ docs[s][c] = "CONFLICT"
    BY <2>1 DEF Verdicts
  <2> QED
    BY <1>2, <2>2 DEF Supports
<1>5. CASE ~ \E c \in Claims : ClaimVerdict(docs, c) = "CONFLICT"
  <2>1. ASSUME NEW c \in Claims
        PROVE  /\ \E s \in Sources : c \in Plan[s]
               /\ \A s \in Sources : c \in Plan[s] => docs[s][c] = "CLEAR"
    <3>1. ClaimVerdict(docs, c) = "CLEAR"
      BY <1>3, <1>5, ClaimResolved, OverallResolved
    <3>2. Verdicts(docs, c) = {"CLEAR"}
      BY <3>1, ClaimResolved
    <3> QED
      BY <3>2 DEF Verdicts
  <2> QED
    BY <1>2, <2>1 DEF Supports
<1> QED
  BY <1>4, <1>5

(* What is intact is whole evidence. *)
LEMMA IntactSupports ==
  ASSUME ResearchInv, BoundIsIntact
  PROVE  Supports(folders[ckpt.bound])
BY DEF ResearchInv, BoundIsIntact, Evidence

(* A field that an update leaves alone. *)
LEMMA Kept ==
  ASSUME NEW r, NEW f, NEW v
  PROVE  /\ DOMAIN [r EXCEPT ![f] = v] = DOMAIN r
         /\ \A g \in DOMAIN r : g # f => [r EXCEPT ![f] = v][g] = r[g]
OBVIOUS

(* The retrieval and the store. *)
LEMMA AcquireKeeps ==
  ASSUME ResearchInv, PrepareAdvisory \/ DieInStore \/ MoveStem \/ InstallPlan
  PROVE  ResearchInv'
<1>1. CASE PrepareAdvisory
  <2>1. /\ at = "idle" /\ research = "READY"
        /\ UNCHANGED <<stem, planned, folders, ckpt>>
        /\ \/ at' = at /\ research' = "WAITING_EXTERNAL"
           \/ at' = "prepared" /\ UNCHANGED research /\ stem = planned /\ Supports(advisory')
    BY <1>1, ConclusiveSupports DEF PrepareAdvisory
  <2>2. (at' # "idle" => Supports(advisory)')
    BY <2>1 DEF Supports, Sources
  <2> QED
    BY <2>1, <2>2 DEF ResearchInv, Rests, BoundIsIntact
<1>2. CASE DieInStore
  BY <1>2 DEF DieInStore, ResearchInv, Rests, BoundIsIntact
<1>3. CASE MoveStem
  BY <1>3 DEF MoveStem, ResearchInv
<1>4. CASE InstallPlan
  BY <1>4 DEF InstallPlan, ResearchInv, Rests
<1> QED
  BY <1>1, <1>2, <1>3, <1>4

(* The checkpoint and what remains of a previous one. *)
LEMMA RecoveredFields ==
  ASSUME ResearchInv
  PROVE  /\ DOMAIN Recovered = Fields
         /\ Root \in [Generations -> Evidence]
         /\ Nothing \in Evidence /\ Partial \in Evidence
         /\ at # "idle" => advisory \in Evidence
<1>1. DOMAIN NoCheckpoint = Fields
  BY DEF NoCheckpoint, Fields
<1>2. Nothing \in Evidence /\ Partial \in Evidence
  BY DEF Evidence
<1>3. at # "idle" => advisory \in Evidence
  BY DEF ResearchInv, Evidence, Supports
<1> QED
  BY <1>1, <1>2, <1>3 DEF ResearchInv, Recovered, Root

(* The execution starts, or cannot. *)
LEMMA StartKeeps ==
  ASSUME ResearchInv, Exhausted \/ Materialize \/ DirectoryExists \/ DieInCopy
  PROVE  ResearchInv'
<1>1. at = "prepared" /\ research = "READY" /\ stem = planned /\ Supports(advisory)
  BY DEF ResearchInv, Exhausted, Materialize, DirectoryExists, DieInCopy
<1>2. CASE Exhausted
  <2>1. ckpt' = [Recovered EXCEPT !["state"] = "inactive"]
    BY <1>2 DEF Exhausted
  <2>2. DOMAIN ckpt' = Fields
    BY <2>1, RecoveredFields
  <2> QED
    BY <1>1, <1>2, <2>2 DEF Exhausted, ResearchInv
<1>3. CASE Materialize
  <2> DEFINE g == NextGeneration
             copy == IF Root[g] = Nothing THEN advisory ELSE Root[g]
  <2>1. /\ folders' = [Root EXCEPT ![g] = copy]
        /\ DOMAIN ckpt' = Fields /\ ckpt'.on = stem
        /\ at' = "materialized"
        /\ UNCHANGED <<stem, planned, research, advisory>>
    BY <1>3 DEF Materialize, Fields
  <2>2. copy \in Evidence \/ g \notin Generations
    BY <1>1, RecoveredFields
  <2> HIDE DEF copy, g
  <2>3. folders' \in [Generations -> Evidence]
    BY <2>1, <2>2, RecoveredFields
  <2>4. Supports(advisory)'
    BY <1>1, <2>1 DEF Supports, Sources
  <2> QED
    BY <1>1, <2>1, <2>3, <2>4 DEF ResearchInv
<1>4. CASE DirectoryExists
  BY <1>1, <1>4 DEF DirectoryExists, ResearchInv
<1>5. CASE DieInCopy
  <2>1. PICK copy \in {Partial, advisory} :
          folders' = IF Resumable THEN [folders EXCEPT ![NextGeneration] = copy] ELSE folders
    BY <1>5 DEF DieInCopy
  <2>2. copy \in Evidence
    BY <1>1, RecoveredFields
  <2>3. folders' \in [Generations -> Evidence]
    BY <2>1, <2>2 DEF ResearchInv
  <2>4. DOMAIN ckpt' = Fields
    <3>1. CASE Outdated
      <4>1. ckpt' = [ckpt EXCEPT !.state = "inactive", !.done = FALSE, !.bound = 0]
        BY <1>5, <3>1 DEF DieInCopy
      <4>2. DOMAIN ckpt' = DOMAIN ckpt
        BY <4>1, Zenon
      <4> QED
        BY <4>2 DEF ResearchInv
    <3>2. CASE ~Outdated
      BY <1>5, <3>2 DEF DieInCopy, ResearchInv
    <3> QED
      BY <3>1, <3>2
  <2> QED
    BY <1>1, <1>5, <2>3, <2>4 DEF DieInCopy, ResearchInv
<1> QED
  BY <1>2, <1>3, <1>4, <1>5

(* From the evidence to the publication. *)
LEMMA ExecutionKeeps ==
  ASSUME ResearchInv,
         BindAdvisory \/ WorkFromAdvisory \/ FreezeResearch \/ PublishResearch
           \/ ResumePublication \/ DieInResearch
  PROVE  ResearchInv'
<1>1. /\ at # "idle" /\ research = "READY" /\ stem = planned /\ Supports(advisory)
      /\ DOMAIN ckpt = Fields
      /\ UNCHANGED <<stem, planned, folders>>
  BY DEF ResearchInv, BindAdvisory, WorkFromAdvisory, FreezeResearch, PublishResearch,
         ResumePublication, DieInResearch
<1>2. CASE BindAdvisory
  <2>1. UNCHANGED <<research, advisory>> /\ at' \in {"idle", "bound"} /\ ckpt.on = stem
    BY <1>2 DEF BindAdvisory, ResearchInv
  <2>2. ckpt' = ckpt \/ ckpt' = [ckpt EXCEPT !["bound"] = ckpt.gen]
    BY <1>2 DEF BindAdvisory
  <2>3. DOMAIN ckpt' = Fields /\ ckpt'.on = stem
    BY <1>1, <2>1, <2>2 DEF Fields
  <2>4. Supports(advisory)'
    BY <1>1, <2>1 DEF Supports, Sources
  <2> QED
    BY <1>1, <2>1, <2>3, <2>4 DEF ResearchInv
<1>3. CASE WorkFromAdvisory
  <2>1. /\ UNCHANGED <<research, advisory>> /\ at' = "worked" /\ ckpt.on = stem
        /\ ckpt' = [ckpt EXCEPT !["done"] = TRUE]
    BY <1>3 DEF WorkFromAdvisory, ResearchInv
  <2>2. DOMAIN ckpt' = Fields /\ ckpt'["on"] = ckpt["on"]
    <3>1. "on" \in Fields /\ "on" # "done"
      BY DEF Fields
    <3> QED
      BY <1>1, <2>1, <3>1, Kept, Zenon
  <2>3. Supports(advisory)'
    BY <1>1, <2>1 DEF Supports, Sources
  <2> QED
    BY <1>1, <2>1, <2>2, <2>3 DEF ResearchInv
<1>4. CASE FreezeResearch
  <2>1. UNCHANGED <<research, advisory>> /\ at' \in {"idle", "frozen"} /\ ckpt.on = stem
    BY <1>4 DEF FreezeResearch, ResearchInv
  <2>2. \/ at' = "idle" /\ ckpt' = ckpt
        \/ at' = "frozen" /\ BoundIsIntact /\ ckpt' = [ckpt EXCEPT !["tx"] = TRUE]
    BY <1>4, Zenon DEF FreezeResearch
  <2>3. DOMAIN ckpt' = Fields /\ ckpt'["on"] = ckpt["on"] /\ ckpt'["bound"] = ckpt["bound"]
    <3>1. /\ "on" \in Fields /\ "on" # "tx"
          /\ "bound" \in Fields /\ "bound" # "tx"
      BY DEF Fields
    <3> QED
      BY <1>1, <2>2, <3>1, Kept, Zenon
  <2>4. Supports(advisory)'
    BY <1>1, <2>1 DEF Supports, Sources
  <2>5. at' = "frozen" => Rests'
    <3>1. at' = "frozen" => BoundIsIntact
      BY <2>2
    <3> QED
      BY <1>1, <2>1, <2>3, <3>1 DEF Rests, BoundIsIntact, Generations
  <2> QED
    BY <1>1, <2>1, <2>3, <2>4, <2>5 DEF ResearchInv
<1>5. CASE PublishResearch
  <2>1. Rests /\ at' = "idle" /\ UNCHANGED ckpt
    BY <1>5 DEF PublishResearch, ResearchInv
  <2>2. Rests'
    BY <1>1, <2>1 DEF Rests, BoundIsIntact, Generations
  <2> QED
    BY <1>1, <2>1, <2>2 DEF ResearchInv
<1>6. CASE ResumePublication
  <2>1. at' = "idle" /\ UNCHANGED ckpt
    BY <1>6 DEF ResumePublication
  <2>2. ASSUME research' = "PASSED"
        PROVE  Rests
    <3>1. Pending /\ ckpt.state = "active" /\ BoundIsIntact
      BY <1>1, <1>6, <2>2 DEF ResumePublication
    <3>2. NoCheckpoint.tx = FALSE
      BY DEF NoCheckpoint
    <3>3. ~Outdated
      BY <3>1, <3>2 DEF Pending, Recovered
    <3> QED
      BY <1>1, <3>1, <3>3 DEF Outdated, Rests
  <2>3. Rests => Rests'
    BY <1>1, <2>1 DEF Rests, BoundIsIntact, Generations
  <2> QED
    BY <1>1, <2>1, <2>2, <2>3 DEF ResearchInv
<1>7. CASE DieInResearch
  BY <1>1, <1>7 DEF DieInResearch, ResearchInv
<1> QED
  BY <1>2, <1>3, <1>4, <1>5, <1>6, <1>7

(* Nothing is retrieved or written at first. *)
LEMMA ResearchStarts ==
  ASSUME ResearchInit
  PROVE  ResearchInv
<1>1. DOMAIN ckpt = Fields
  BY DEF ResearchInit, NoCheckpoint, Fields
<1>2. folders \in [Generations -> Evidence]
  BY DEF ResearchInit, Evidence
<1> QED
  BY <1>1, <1>2 DEF ResearchInit, ResearchInv

(* Every step of a research item. *)
LEMMA ResearchSteps ==
  ASSUME ResearchInv, [ResearchNext]_researchVars
  PROVE  ResearchInv'
<1>1. CASE UNCHANGED researchVars
  <2>1. Supports(advisory) <=> Supports(advisory)'
    BY <1>1 DEF researchVars, Supports, Sources
  <2> QED
    BY <1>1, <2>1 DEF researchVars, ResearchInv, Rests, BoundIsIntact, Generations
<1> QED
  BY <1>1, AcquireKeeps, StartKeeps, ExecutionKeeps DEF ResearchNext, ResearchStep

(* PublishedIsSupported: a research item that passed rests on one whole    *)
(* evidence directory, written for the head of main, in which its verdict  *)
(* is what the sources say (resolve_research_report,                       *)
(* materialize_research_advisory, _reverify_research_advisory).            *)
THEOREM PublishedSupported == WorkSpec => []PublishedIsSupported
<1>1. WorkInit => ResearchInv
  BY ResearchStarts DEF WorkInit
<1>2. [WorkNext]_workVars => [ResearchNext]_researchVars
  BY DEF WorkNext, Commercial, Researching, Releasing, Qualifying, workVars
<1>3. ResearchInv /\ [WorkNext]_workVars => ResearchInv'
  BY <1>2, ResearchSteps
<1>4. ResearchInv => PublishedIsSupported
  BY IntactSupports DEF ResearchInv, Rests, Supports, PublishedIsSupported
<1> QED
  BY <1>1, <1>3, <1>4, PTL DEF WorkSpec

-----------------------------------------------------------------------------
(* Qualification. *)

Eligible ==
  /\ Outcome(case) = "ELIGIBLE_FOR_QUALIFICATION"
  /\ case.spec \notin {"mismatched", "not runnable"}

(* The conditions of the preflight that an eligible case does not meet. *)
LEMMA EligibleMeans ==
  ASSUME NEW c, Outcome(c) = "ELIGIBLE_FOR_QUALIFICATION"
  PROVE  /\ c.evidence # "tampered" /\ c.evidence # "rebound"
         /\ c.claim # "import" /\ c.claim # "completeness" /\ c.claim # "decision"
         /\ HasLifecycle(c.trace) /\ Denied(c) = {} /\ ~c.late
         /\ ~Disagrees(c.trace) /\ UnknownPolicies(c) = {} /\ Complete(c)
         /\ c.cost # "more"
<1> DEFINE chain == Preflight(c)
           met == {i \in DOMAIN chain : chain[i][1]}
           first == CHOOSE i \in met : \A j \in met : i <= j
<1>1. DOMAIN chain = 1 .. 16
  BY DEF Preflight
<1>2. 16 \in met
  <2>1. chain[16][1]
    BY Zenon DEF Preflight
  <2> HIDE DEF chain
  <2> QED
    BY <1>1, <2>1
<1>3. \E i \in met : \A j \in met : i <= j
  <2>1. met \in SUBSET Nat
    BY <1>1
  <2> HIDE DEF met
  <2> QED
    BY <1>2, <2>1
<1>4. first \in met /\ \A j \in met : first <= j
  BY <1>3
<1>5. chain[first][2] = "ELIGIBLE_FOR_QUALIFICATION"
  BY DEF Outcome
<1>6. first \in 1 .. 16
  BY <1>1, <1>4
<1>7. ASSUME NEW i \in 1 .. 15
      PROVE  chain[i][2] # "ELIGIBLE_FOR_QUALIFICATION"
  BY <1>7 DEF Preflight
<1> HIDE DEF first, met
<1>8. first = 16
  BY <1>5, <1>6, <1>7
<1>9. ASSUME NEW i \in 1 .. 15
      PROVE  ~chain[i][1]
  <2>1. i \notin met
    BY <1>4, <1>8
  <2> QED
    BY <1>1, <2>1 DEF met
<1>10. /\ chain[1][1] <=> c.evidence = "tampered"
       /\ chain[2][1] <=> c.evidence = "rebound"
       /\ chain[3][1] <=> c.claim = "import"
       /\ chain[4][1] <=> c.claim = "completeness"
       /\ chain[5][1] <=> ~HasLifecycle(c.trace)
       /\ chain[6][1] <=> c.claim = "decision"
       /\ chain[8][1] <=> Denied(c) # {}
       /\ chain[9][1] <=> c.late
       /\ chain[10][1] <=> Disagrees(c.trace)
       /\ chain[11][1] <=> UnknownPolicies(c) # {}
       /\ chain[12][1] <=> ~Complete(c)
       /\ chain[14][1] <=> c.cost = "more"
  BY Zenon DEF Preflight
<1> HIDE DEF chain
<1> QED
  BY <1>9, <1>10

(* What PassIsEarned says of the inputs. *)
Earned ==
  /\ case.evidence = "intact" /\ case.claim = "true" /\ case.spec = "runnable"
  /\ case.unsupported = {} /\ case.recipes /\ case.cost = "less" /\ ~case.late
  /\ DOMAIN case.trace = Ranks /\ HasLifecycle(case.trace)
  /\ \A r, q \in Ranks : Entered(case.trace, r) = Entered(case.trace, q)
  /\ \A s \in DOMAIN case.ids : case.ids[s] = "FULLY_VERIFIED"

(* An eligible case shows what a PASS claims of its inputs              *)
(* (evaluate_preflight).                                                 *)
LEMMA EligibleEarns ==
  ASSUME case \in Cases, Eligible
  PROVE  Earned
<1>1. /\ case.evidence # "tampered" /\ case.evidence # "rebound"
      /\ case.claim # "import" /\ case.claim # "completeness" /\ case.claim # "decision"
      /\ HasLifecycle(case.trace) /\ Denied(case) = {} /\ ~case.late
      /\ ~Disagrees(case.trace) /\ UnknownPolicies(case) = {} /\ Complete(case)
      /\ case.cost # "more"
  BY EligibleMeans DEF Eligible
<1>2. case.evidence = "intact" /\ case.claim = "true" /\ case.spec = "runnable"
  BY <1>1, CasesAssumption DEF Eligible
<1>3. case.unsupported = {}
  BY <1>1, CasesAssumption DEF Denied
<1>4. case.recipes /\ case.cost = "less"
  <2>1. case.recipes
    BY <1>1 DEF UnknownPolicies
  <2>2. case.cost # "unknown"
    BY <1>1 DEF UnknownPolicies
  <2> QED
    BY <1>1, <2>1, <2>2, CasesAssumption
<1>5. DOMAIN case.trace = Ranks
  BY <1>1, CasesAssumption DEF Complete, MissingRanks, Ranks
<1>6. ASSUME NEW r \in Ranks, NEW q \in Ranks
      PROVE  Entered(case.trace, r) \subseteq Entered(case.trace, q)
  BY <1>1, <1>5 DEF Disagrees, Collectives
<1>7. \A s \in DOMAIN case.ids : case.ids[s] = "FULLY_VERIFIED"
  BY <1>1 DEF Complete
<1>8. \A r, q \in Ranks : Entered(case.trace, r) = Entered(case.trace, q)
  BY <1>6
<1> QED
  BY <1>1, <1>2, <1>3, <1>4, <1>5, <1>7, <1>8 DEF Earned

(* The artifact was captured by that run of the command. *)
Captured(a, by) == stored[a].object /\ stored[a].by = by

PhaseRuns == [exceeded : BOOLEAN, met : BOOLEAN, todo : Seq(Artifacts),
              refs : SUBSET Artifacts]

Captures == [object : BOOLEAN, by : Nat]

(* What a phase's stdout must show. *)
Expected(i) == <<Phases[i], <<"stdout", "good">>>>

(* A phase cites what its own run captured, and one that met its           *)
(* expectation has cited it or is about to.                                *)
PhaseInv(i, r) ==
  /\ \A a \in r.refs : Captured(a, attempts)
  /\ r.met => ~r.exceeded
  /\ r.met => \/ Expected(i) \in r.refs
              \/ r.todo # << >> /\ Head(r.todo) = Expected(i)

Backed(d) ==
  /\ d.by \in Nat /\ d.refs \subseteq Artifacts
  /\ d.refs # {} => d.by >= 1
  /\ \A a \in d.refs : Captured(a, d.by)
  /\ d.result = "PASS" => Earned /\ {Expected(1), Expected(2)} \subseteq d.refs

QualificationType ==
  /\ case \in Cases /\ attempts \in Nat
  /\ stored \in [Artifacts -> Captures]
  /\ stage \in {"idle", "running", "storing", "writing"}
  /\ runs \in Seq(PhaseRuns)

RunInv ==
  /\ stage = "idle" => runs = << >>
  /\ stage # "idle" => attempts >= 1
  /\ stage \in {"running", "storing"} => Eligible /\ \A i \in 1 .. Len(runs) : PhaseInv(i, runs[i])
  /\ stage = "running" => Len(runs) \in {0, 1}
  /\ stage = "storing" => Len(runs) \in {1, 2}
  /\ (stage = "running" /\ Len(runs) = 1) \/ (stage = "storing" /\ Len(runs) = 2) =>
       runs[1].met /\ runs[1].todo = << >>

QualificationInv ==
  /\ QualificationType /\ RunInv
  /\ stage = "writing" => Backed(decision) /\ decision.by = attempts
  /\ Backed(report)

(* The artifacts that a run of the command captured stay its own. *)
StoreKeeps ==
  \A a \in Artifacts : \A by \in Nat : by >= 1 /\ Captured(a, by) => Captured(a, by)'

(* A decision stays backed while the store keeps what it cites. *)
LEMMA BackedKeeps ==
  ASSUME StoreKeeps, UNCHANGED case, NEW d, Backed(d)
  PROVE  /\ \A a \in d.refs : stored'[a].object /\ stored'[a].by = d.by
         /\ d.result = "PASS" => Earned'
<1>1. ASSUME NEW a \in d.refs
      PROVE  stored'[a].object /\ stored'[a].by = d.by
  BY DEF Backed, StoreKeeps, Captured
<1>2. Earned => Earned'
  BY DEF Earned
<1> QED
  BY <1>1, <1>2 DEF Backed

(* A step that does not write the report. *)
LEMMA ReportKeeps ==
  ASSUME StoreKeeps, UNCHANGED <<case, report>>, Backed(report)
  PROVE  Backed(report)'
<1>1. /\ \A a \in report.refs : stored'[a].object /\ stored'[a].by = report.by
      /\ report.result = "PASS" => Earned'
  BY BackedKeeps
<1> QED
  BY <1>1 DEF Backed, Captured

(* A step that stores nothing. *)
LEMMA StoreUnchanged ==
  ASSUME UNCHANGED stored
  PROVE  StoreKeeps
BY DEF StoreKeeps, Captured

(* The child acts, or its streams are read: the runner's records stay. *)
LEMMA ChildKeeps ==
  ASSUME QualificationInv, UNCHANGED <<case, attempts, stage, runs, stored, decision, report>>
  PROVE  QualificationInv'
<1>1. \A i, r : PhaseInv(i, r) => PhaseInv(i, r)'
  BY DEF PhaseInv, Captured
<1>2. QualificationType' /\ RunInv'
  BY DEF QualificationInv, QualificationType, RunInv, PhaseInv, Captured, Eligible
<1>3. Backed(report)'
  BY ReportKeeps, StoreUnchanged DEF QualificationInv
<1>4. (stage = "writing" => Backed(decision) /\ decision.by = attempts)'
  <2>1. Backed(decision) => Backed(decision)'
    BY DEF Backed, Captured, Earned
  <2> QED
    BY <2>1 DEF QualificationInv
<1> QED
  BY <1>2, <1>3, <1>4 DEF QualificationInv

(* The command fails or dies, with whatever it stored. *)
LEMMA FailureKeeps ==
  ASSUME QualificationInv, Failed, StoreKeeps, UNCHANGED case, attempts' \in Nat,
         stored' \in [Artifacts -> Captures], Backed(report)'
  PROVE  QualificationInv'
<1>1. stage' = "idle" /\ runs' = << >>
  BY DEF Failed
<1>2. QualificationType'
  BY <1>1 DEF QualificationInv, QualificationType
<1>3. RunInv'
  BY <1>1 DEF RunInv
<1> QED
  BY <1>1, <1>2, <1>3 DEF QualificationInv

(* The command starts. *)
LEMMA BeginKeeps ==
  ASSUME QualificationInv, BeginQualification
  PROVE  QualificationInv'
<1>1. /\ stage = "idle" /\ runs = << >> /\ attempts' = attempts + 1 /\ attempts \in Nat
      /\ UNCHANGED <<case, stored, report>>
  BY DEF BeginQualification, QualificationInv, RunInv, QualificationType
<1>2. \/ Failed
      \/ /\ stage' = "writing" /\ UNCHANGED runs
         /\ decision' = [result |-> "EXPIRED", by |-> attempts', refs |-> {}]
      \/ /\ stage' = "writing" /\ UNCHANGED runs
         /\ decision' = [result |-> "INAPPLICABLE", by |-> attempts', refs |-> {}]
      \/ stage' = "running" /\ UNCHANGED runs /\ Eligible
  <2>1. CASE case.spec = "mismatched"
    BY <2>1, Zenon DEF BeginQualification
  <2>2. CASE case.spec # "mismatched" /\ overdue
    BY <2>2, Zenon DEF BeginQualification
  <2>3. CASE /\ case.spec # "mismatched" /\ ~overdue
             /\ Outcome(case) # "ELIGIBLE_FOR_QUALIFICATION"
    BY <2>3, Zenon DEF BeginQualification
  <2>4. CASE /\ case.spec # "mismatched" /\ ~overdue
             /\ Outcome(case) = "ELIGIBLE_FOR_QUALIFICATION"
    <3>1. IF case.spec = "not runnable" THEN Failed
          ELSE stage' = "running" /\ child' = Started /\ UNCHANGED <<runs, decision>>
      BY <2>4, Zenon DEF BeginQualification
    <3> QED
      BY <2>4, <3>1 DEF Eligible
  <2> QED
    BY <2>1, <2>2, <2>3, <2>4
<1>3. Backed(report)'
  BY <1>1, ReportKeeps, StoreUnchanged DEF QualificationInv
<1>4. CASE Failed
  BY <1>1, <1>3, <1>4, FailureKeeps, StoreUnchanged DEF QualificationInv, QualificationType
<1>5. CASE /\ stage' = "writing" /\ UNCHANGED runs
           /\ \E result \in {"EXPIRED", "INAPPLICABLE"} :
                decision' = [result |-> result, by |-> attempts', refs |-> {}]
  <2>1. Backed(decision)' /\ decision'.by = attempts'
    BY <1>1, <1>5 DEF Backed
  <2>2. QualificationType' /\ RunInv'
    BY <1>1, <1>5 DEF QualificationInv, QualificationType, RunInv
  <2> QED
    BY <1>3, <2>1, <2>2 DEF QualificationInv
<1>6. CASE stage' = "running" /\ UNCHANGED runs /\ Eligible
  <2>1. Len(runs) = 0 /\ Eligible'
    BY <1>1, <1>6 DEF Eligible
  <2>2. QualificationType' /\ RunInv'
    BY <1>1, <1>6, <2>1 DEF QualificationInv, QualificationType, RunInv
  <2> QED
    BY <1>3, <1>6, <2>2 DEF QualificationInv
<1> QED
  BY <1>2, <1>4, <1>5, <1>6

(* The decision is written, unless there is one, or torn. *)
LEMMA WriteKeeps ==
  ASSUME QualificationInv, WriteReport \/ PutRefused \/ DieInQualify
  PROVE  QualificationInv'
<1>1. Failed /\ UNCHANGED <<case, attempts>> /\ stage # "idle"
  BY DEF WriteReport, PutRefused, DieInQualify
<1>2. /\ StoreKeeps
      /\ stored' \in [Artifacts -> Captures]
  <2>1. CASE UNCHANGED stored
    BY <2>1, StoreUnchanged DEF QualificationInv, QualificationType
  <2>2. CASE \E a \in Artifacts : stored' = [stored EXCEPT ![a].object = TRUE]
    <3>1. PICK a \in Artifacts : stored' = [stored EXCEPT ![a].object = TRUE]
      BY <2>2
    <3> DEFINE new == [stored[a] EXCEPT !["object"] = TRUE]
    <3>2. stored' = [stored EXCEPT ![a] = new]
      BY <3>1, Zenon
    <3>3. stored[a] \in [object : BOOLEAN, by : Nat]
      BY DEF QualificationInv, QualificationType, Captures
    <3>4. new["by"] = stored[a]["by"] /\ DOMAIN new = {"object", "by"}
      <4>1. DOMAIN stored[a] = {"object", "by"} /\ "by" \in {"object", "by"} /\ "by" # "object"
        BY <3>3
      <4> QED
        BY <4>1, Kept, Zenon
    <3>5. new["object"] = TRUE
      <4>1. "object" \in DOMAIN stored[a]
        BY <3>3
      <4> QED
        BY <4>1, Zenon
    <3> HIDE DEF new
    <3>6. new \in Captures
      <4>1. new = [x \in DOMAIN new |-> new[x]]
        BY Zenon DEF new
      <4>2. new = [object |-> TRUE, by |-> stored[a]["by"]]
        BY <3>4, <3>5, <4>1
      <4> QED
        BY <3>3, <4>2 DEF Captures
    <3> QED
      BY <3>2, <3>3, <3>4, <3>5, <3>6
      DEF StoreKeeps, Captured, QualificationInv, QualificationType
  <2>3. CASE /\ stage = "storing" /\ Last.todo # << >>
             /\ stored' = [stored EXCEPT ![Head(Last.todo)].object = TRUE]
    <3>1. Last \in PhaseRuns
      BY <2>3 DEF Last, QualificationInv, QualificationType, RunInv
    <3>2. Last.todo \in Seq(Artifacts)
      BY <3>1 DEF PhaseRuns
    <3>3. Head(Last.todo) \in Artifacts
      BY <2>3, <3>2
    <3> QED
      BY <2>2, <2>3, <3>3
  <2> QED
    BY <2>1, <2>3, Zenon DEF WriteReport, PutRefused, DieInQualify
<1>3. report' = report \/ report' = TornReport \/ (stage = "writing" /\ report' = decision)
  BY DEF WriteReport, PutRefused, DieInQualify
<1>4. ASSUME NEW d, Backed(d), report' = d
      PROVE  Backed(report)'
  <2>1. /\ \A a \in d.refs : stored'[a].object /\ stored'[a].by = d.by
        /\ d.result = "PASS" => Earned'
    BY <1>1, <1>2, <1>4, BackedKeeps
  <2> QED
    BY <1>4, <2>1 DEF Backed, Captured
<1>5. Backed(report)'
  <2>1. Backed(TornReport)
    BY DEF Backed, TornReport
  <2>2. \E d : Backed(d) /\ report' = d
    BY <1>3, <2>1 DEF QualificationInv
  <2> QED
    BY <1>4, <2>2
<1> QED
  BY <1>1, <1>2, <1>5, FailureKeeps DEF QualificationInv, QualificationType

(* A phase of the run ends: its child is gone and its output is known. *)
LEMMA ReapKeeps ==
  ASSUME QualificationInv, Reap
  PROVE  QualificationInv'
<1> DEFINE n == Len(runs) + 1
<1>1. /\ stage = "running" /\ Len(runs) \in {0, 1} /\ runs \in Seq(PhaseRuns) /\ Eligible
      /\ \A i \in 1 .. Len(runs) : PhaseInv(i, runs[i])
      /\ Len(runs) = 1 => runs[1].met /\ runs[1].todo = << >>
      /\ attempts >= 1
  BY DEF Reap, QualificationInv, QualificationType, RunInv
<1>2. PICK out \in {"good", "bad"} :
        runs' = Append(runs,
                  [exceeded |-> child.timedOut \/ child.limited,
                   met      |-> /\ ~child.timedOut /\ ~child.limited
                                /\ child.code = "expected" /\ out = "good",
                   todo     |-> <<<<Phase, <<"stdout", out>>>>, <<Phase, <<"stderr", "any">>>>>>,
                   refs     |-> {}])
  BY DEF Reap
<1> DEFINE todo == <<<<Phase, <<"stdout", out>>>>, <<Phase, <<"stderr", "any">>>>>>
           r == [exceeded |-> child.timedOut \/ child.limited,
                 met      |-> /\ ~child.timedOut /\ ~child.limited
                              /\ child.code = "expected" /\ out = "good",
                 todo     |-> todo,
                 refs     |-> {}]
<1>3. runs' = Append(runs, r)
  BY <1>2
<1>4. Phase = Phases[n] /\ Phase \in {"baseline", "candidate"}
  BY <1>1 DEF Phase, Phases
<1>5. todo \in Seq(Artifacts) /\ todo # << >> /\ Head(todo) = <<Phase, <<"stdout", out>>>>
  BY <1>4 DEF Artifacts
<1> HIDE DEF todo
<1>6. r \in PhaseRuns
  BY <1>5 DEF PhaseRuns
<1>7. /\ r.refs = {} /\ r.todo = todo
      /\ r.met => ~r.exceeded /\ out = "good"
  OBVIOUS
<1>8. r.todo # << >> /\ (r.met => Head(r.todo) = Expected(n))
  BY <1>4, <1>5, <1>7 DEF Expected
<1> HIDE DEF r
<1>9. /\ runs' \in Seq(PhaseRuns) /\ Len(runs') = n /\ runs'[n] = r
      /\ \A i \in 1 .. Len(runs) : runs'[i] = runs[i]
  BY <1>1, <1>3, <1>6, AppendProperties
<1> HIDE DEF n
<1>10. /\ stage' = "storing" /\ UNCHANGED <<case, attempts, stored, decision, report>>
  BY DEF Reap
<1>11. ASSUME NEW i \in 1 .. Len(runs')
       PROVE  PhaseInv(i, runs[i])'
  <2>1. CASE i = n
    BY <1>7, <1>8, <1>9, <2>1 DEF PhaseInv, Expected
  <2>2. CASE i # n
    <3>1. i \in 1 .. Len(runs)
      BY <1>1, <1>9, <2>2 DEF n
    <3>2. PhaseInv(i, runs[i]) /\ runs'[i] = runs[i]
      BY <1>1, <1>9, <3>1
    <3> QED
      BY <1>10, <3>2 DEF PhaseInv, Captured, Expected
  <2> QED
    BY <2>1, <2>2
<1>12. QualificationType'
  BY <1>9, <1>10 DEF QualificationInv, QualificationType
<1>13. RunInv'
  <2>1. Len(runs') \in {1, 2} /\ (Len(runs') = 2 => runs'[1] = runs[1] /\ Len(runs) = 1)
    BY <1>1, <1>9 DEF n
  <2>2. Eligible'
    BY <1>1, <1>10 DEF Eligible
  <2> QED
    BY <1>1, <1>10, <1>11, <2>1, <2>2 DEF RunInv
<1>14. Backed(report)'
  BY <1>10, ReportKeeps, StoreUnchanged DEF QualificationInv
<1> QED
  BY <1>10, <1>12, <1>13, <1>14 DEF QualificationInv

(* The run goes on with the candidate, or is decided. *)
LEMMA EndPhaseKeeps ==
  ASSUME QualificationInv, EndPhase
  PROVE  QualificationInv'
<1>1. /\ stage = "storing" /\ Len(runs) \in {1, 2} /\ runs \in Seq(PhaseRuns) /\ Eligible
      /\ \A i \in 1 .. Len(runs) : PhaseInv(i, runs[i])
      /\ Len(runs) = 2 => runs[1].met /\ runs[1].todo = << >>
      /\ attempts >= 1 /\ attempts \in Nat
      /\ runs[Len(runs)].todo = << >>
      /\ UNCHANGED <<case, attempts, stored, report, runs>>
  BY DEF EndPhase, Last, QualificationInv, QualificationType, RunInv
<1>2. Backed(report)'
  BY <1>1, ReportKeeps, StoreUnchanged DEF QualificationInv
<1>3. CASE Len(runs) = 1 /\ Last.met
  <2>1. stage' = "running"
    BY <1>3 DEF EndPhase
  <2>2. QualificationType'
    BY <1>1, <2>1 DEF QualificationInv, QualificationType
  <2>3. \A i \in 1 .. Len(runs') : PhaseInv(i, runs[i])'
    BY <1>1 DEF PhaseInv, Captured, Expected
  <2>4. RunInv'
    BY <1>1, <1>3, <2>1, <2>3 DEF RunInv, Eligible, Last
  <2> QED
    BY <1>2, <2>1, <2>2, <2>4 DEF QualificationInv
<1>4. CASE ~(Len(runs) = 1 /\ Last.met)
  <2> DEFINE verdict == CASE Len(runs) = 1 \/ Last.exceeded -> "UNKNOWN"
                          [] Len(runs) = 2 /\ Last.met /\ ~Last.exceeded -> "PASS"
                          [] OTHER -> "FAIL"
             refs == UNION {runs[i].refs : i \in DOMAIN runs}
  <2>1. /\ stage' = "writing"
        /\ decision' = [result |-> verdict, by |-> attempts, refs |-> refs]
    BY <1>4, Zenon DEF EndPhase, Stop
  <2>2. verdict = "PASS" => Len(runs) = 2 /\ Last.met
    <3>1. CASE Len(runs) = 2 /\ Last.met /\ ~Last.exceeded
      BY <3>1
    <3>2. CASE ~(Len(runs) = 2 /\ Last.met /\ ~Last.exceeded) /\ (Len(runs) = 1 \/ Last.exceeded)
      <4>1. verdict = "UNKNOWN"
        BY <3>2, Zenon
      <4> HIDE DEF verdict
      <4> QED
        BY <4>1
    <3>3. CASE ~(Len(runs) = 2 /\ Last.met /\ ~Last.exceeded) /\ ~(Len(runs) = 1 \/ Last.exceeded)
      <4>1. verdict = "FAIL"
        BY <3>3, Zenon
      <4> HIDE DEF verdict
      <4> QED
        BY <4>1
    <3> QED
      BY <3>1, <3>2, <3>3
  <2> HIDE DEF verdict
  <2>3. /\ DOMAIN runs = 1 .. Len(runs)
        /\ \A i \in 1 .. Len(runs) : runs[i].refs \subseteq Artifacts
    <3>1. \A i \in 1 .. Len(runs) : runs[i] \in PhaseRuns
      BY <1>1
    <3> QED
      BY <1>1, <3>1 DEF PhaseRuns
  <2>4. refs \subseteq Artifacts /\ \A a \in refs : Captured(a, attempts)
    BY <1>1, <2>3 DEF PhaseInv
  <2>5. verdict = "PASS" => {Expected(1), Expected(2)} \subseteq refs
    <3>1. ASSUME Len(runs) = 2, runs[2].met, runs[2].todo = << >>
          PROVE  Expected(1) \in runs[1].refs /\ Expected(2) \in runs[2].refs
      BY <1>1, <3>1 DEF PhaseInv
    <3> QED
      BY <1>1, <2>2, <2>3, <3>1 DEF Last
  <2>6. Earned
    BY <1>1, EligibleEarns DEF QualificationInv, QualificationType
  <2> HIDE DEF refs
  <2>7. Backed(decision)' /\ decision'.by = attempts'
    BY <1>1, <2>1, <2>4, <2>5, <2>6 DEF Backed, Captured, Expected, Earned
  <2>8. QualificationType'
    BY <1>1, <2>1 DEF QualificationInv, QualificationType
  <2>9. RunInv'
    BY <1>1, <2>1 DEF RunInv
  <2> QED
    BY <1>2, <2>7, <2>8, <2>9 DEF QualificationInv
<1> QED
  BY <1>3, <1>4

(* A stream is stored and cited. *)
LEMMA PutKeeps ==
  ASSUME QualificationInv, PutStream
  PROVE  QualificationInv'
<1> DEFINE n == Len(runs)
           a == Head(Last.todo)
           capture == [object |-> TRUE,
                       by |-> IF stored[a].by = 0 THEN attempts ELSE stored[a].by]
           todo == Tail(Last.todo)
           refs == Last.refs \cup {a}
           r == [exceeded |-> Last.exceeded, met |-> Last.met, todo |-> todo, refs |-> refs]
<1>1. /\ stage = "storing" /\ n \in {1, 2} /\ runs \in Seq(PhaseRuns) /\ Eligible
      /\ \A i \in 1 .. n : PhaseInv(i, runs[i])
      /\ n = 2 => runs[1].met /\ runs[1].todo = << >>
      /\ attempts >= 1 /\ attempts \in Nat
      /\ stored \in [Artifacts -> Captures]
      /\ Last.todo # << >> /\ stored[a].by \in {0, attempts}
      /\ UNCHANGED <<case, attempts, stage, decision, report>>
  BY DEF PutStream, Conflicts, QualificationInv, QualificationType, RunInv
<1>2. /\ Last \in PhaseRuns /\ Last = runs[n]
      /\ Last.todo \in Seq(Artifacts) /\ Last.refs \subseteq Artifacts
  <2>1. Last \in PhaseRuns
    BY <1>1 DEF Last
  <2> QED
    BY <2>1 DEF PhaseRuns, Last
<1>3. a \in Artifacts /\ todo \in Seq(Artifacts)
  BY <1>1, <1>2, HeadTailProperties
<1>4. /\ stored' = [stored EXCEPT ![a] = capture]
      /\ runs' = [runs EXCEPT ![n] = [Last EXCEPT !.todo = todo, !.refs = refs]]
  <2>1. /\ stored' = [stored EXCEPT ![a] =
                        [object |-> TRUE, by |-> IF @.by = 0 THEN attempts ELSE @.by]]
        /\ runs' = [runs EXCEPT ![n].todo = Tail(@), ![n].refs = @ \cup {a}]
    BY DEF PutStream
  <2> QED
    BY <1>1, <1>2, <2>1
<1>5. [Last EXCEPT !.todo = todo, !.refs = refs] = r
  <2> DEFINE D == {"exceeded", "met", "todo", "refs"}
             f == [Last EXCEPT !.todo = todo, !.refs = refs]
  <2>1. DOMAIN Last = D
    BY <1>2 DEF PhaseRuns
  <2>2. DOMAIN f = D /\ DOMAIN r = D
    BY <2>1
  <2>3. f["todo"] = todo /\ f["refs"] = refs
    BY <2>1
  <2>4. f["exceeded"] = Last["exceeded"] /\ f["met"] = Last["met"]
    BY <2>1
  <2>5. /\ r["todo"] = todo /\ r["refs"] = refs
        /\ r["exceeded"] = Last["exceeded"] /\ r["met"] = Last["met"]
    BY Zenon
  <2>6. f = [x \in D |-> f[x]] /\ r = [x \in D |-> r[x]]
    BY <2>2
  <2> HIDE DEF f, r
  <2>7. ASSUME NEW x \in D
        PROVE  f[x] = r[x]
    BY <2>3, <2>4, <2>5, <2>7, Zenon
  <2>8. f = r
    <3> HIDE DEF D
    <3> QED
      BY <2>6, <2>7
  <2> QED
    BY <2>8 DEF f
<1>6. r \in PhaseRuns
  BY <1>2, <1>3 DEF PhaseRuns
<1>7. runs' = [runs EXCEPT ![n] = r]
  BY <1>4, <1>5
<1>8. /\ r.met <=> Last.met
      /\ r.exceeded <=> Last.exceeded
      /\ r.todo = todo /\ r.refs = refs
  BY Zenon
<1>9. capture \in Captures /\ capture.by = attempts /\ capture.object
  BY <1>1 DEF Captures
<1> HIDE DEF capture, r
<1>10. /\ stored' \in [Artifacts -> Captures]
       /\ stored'[a] = capture
       /\ \A b \in Artifacts : b # a => stored'[b] = stored[b]
  BY <1>1, <1>3, <1>4, <1>9
<1>11. StoreKeeps
  <2> SUFFICES ASSUME NEW b \in Artifacts, NEW by \in Nat, by >= 1,
                      stored[b].object, stored[b].by = by
               PROVE  stored'[b].object /\ stored'[b].by = by
    BY DEF StoreKeeps, Captured
  <2> QED
    BY <1>1, <1>9, <1>10
<1>12. \A b \in Artifacts : Captured(b, attempts) => stored'[b].object /\ stored'[b].by = attempts
  BY <1>1, <1>11 DEF StoreKeeps, Captured
<1>13. /\ runs' \in Seq(PhaseRuns) /\ Len(runs') = n /\ runs'[n] = r
       /\ \A i \in 1 .. n : i # n => runs'[i] = runs[i]
  <2> HIDE DEF todo, refs
  <2>1. /\ n \in 1 .. Len(runs) /\ Len(runs) = n
        /\ runs \in Seq(PhaseRuns)
    <3>1. Len(runs) \in {1, 2} /\ runs \in Seq(PhaseRuns)
      BY <1>1
    <3> QED
      BY <3>1
  <2> HIDE DEF n
  <2>2. /\ [runs EXCEPT ![n] = r] \in Seq(PhaseRuns)
        /\ Len([runs EXCEPT ![n] = r]) = Len(runs)
        /\ \A j \in 1 .. Len(runs) :
             [runs EXCEPT ![n] = r][j] = IF j = n THEN r ELSE runs[j]
    BY <1>6, <2>1, ExceptSeq
  <2> QED
    BY <1>7, <2>1, <2>2
<1>14. \A i \in 1 .. n : runs[i].refs \subseteq Artifacts
  <2>1. \A i \in 1 .. n : runs[i] \in PhaseRuns
    BY <1>1
  <2> QED
    BY <2>1 DEF PhaseRuns
<1>15. PhaseInv(n, Last)
  BY <1>1, <1>2
<1> HIDE DEF n
<1>16. ASSUME NEW i \in 1 .. n
       PROVE  (PhaseInv(i, runs[i]))'
  <2>1. CASE i = n
    <3>1. \A b \in refs : stored'[b].object /\ stored'[b].by = attempts
      <4>1. \A b \in Last.refs : Captured(b, attempts)
        BY <1>15 DEF PhaseInv
      <4> QED
        BY <1>2, <1>9, <1>10, <1>12, <4>1
    <3>2. Last.met => ~Last.exceeded /\ Expected(n) \in refs
      BY <1>15 DEF PhaseInv
    <3> HIDE DEF refs, todo
    <3> QED
      BY <1>1, <1>8, <1>13, <2>1, <3>1, <3>2 DEF PhaseInv, Captured, Expected
  <2>2. CASE i # n
    <3>1. /\ runs'[i] = runs[i] /\ PhaseInv(i, runs[i])
          /\ runs[i].refs \subseteq Artifacts
      BY <1>1, <1>13, <1>14, <2>2
    <3> QED
      BY <1>1, <1>12, <3>1 DEF PhaseInv, Captured, Expected
  <2> QED
    BY <2>1, <2>2
<1>17. QualificationType'
  BY <1>1, <1>10, <1>13 DEF QualificationInv, QualificationType
<1>18. RunInv'
  <2>1. Eligible'
    BY <1>1 DEF Eligible
  <2>2. Len(runs') \in {1, 2} /\ (Len(runs') = 2 => runs'[1] = runs[1])
    BY <1>1, <1>13
  <2> QED
    BY <1>1, <1>13, <1>16, <2>1, <2>2 DEF RunInv
<1>19. Backed(report)'
  BY <1>1, <1>11, ReportKeeps DEF QualificationInv
<1> QED
  BY <1>1, <1>17, <1>18, <1>19 DEF QualificationInv

(* Nothing has run at first, and there is no report. *)
LEMMA QualificationStarts ==
  ASSUME QualificationInit
  PROVE  QualificationInv
<1>1. QualificationType
  BY DEF QualificationInit, QualificationType, Captures
<1>2. RunInv
  BY DEF QualificationInit, RunInv
<1>3. Backed(report)
  BY DEF QualificationInit, NoReport, Backed
<1> QED
  BY <1>1, <1>2, <1>3 DEF QualificationInit, QualificationInv

(* Every step of the qualify command, its child and its deadline. *)
LEMMA QualificationSteps ==
  ASSUME QualificationInv, [QualificationNext]_qualificationVars
  PROVE  QualificationInv'
<1>1. CASE UNCHANGED qualificationVars
  BY <1>1, ChildKeeps DEF qualificationVars
<1>2. CASE \/ ExitChild \/ CloseStream \/ Fork \/ TimeRunsOut
           \/ ReadWithoutEvents \/ ReadChunk \/ ReadEnd \/ Deadline
  BY <1>2, ChildKeeps DEF ExitChild, CloseStream, Fork, TimeRunsOut, ReadWithoutEvents,
                          ReadChunk, ReadEnd, Deadline, ChildStep
<1>3. CASE DeadlinePasses
  BY <1>3, ChildKeeps DEF DeadlinePasses
<1> QED
  BY <1>1, <1>2, <1>3, BeginKeeps, WriteKeeps, ReapKeeps, EndPhaseKeeps, PutKeeps
  DEF QualificationNext, Runner

(* DecisionIsEarned: a PASS that was written rests on inputs that show it  *)
(* and on two phases that met their expectation, and a written decision    *)
(* cites what its own run captured, whatever earlier runs left in the      *)
(* store (evaluate_preflight, execute_qualification, put_bytes).           *)
THEOREM DecisionEarned == WorkSpec => []DecisionIsEarned
<1>1. WorkInit => QualificationInv
  BY QualificationStarts DEF WorkInit
<1>2. [WorkNext]_workVars => [QualificationNext]_qualificationVars
  BY DEF WorkNext, Commercial, Researching, Releasing, Qualifying, workVars
<1>3. QualificationInv /\ [WorkNext]_workVars => QualificationInv'
  BY <1>2, QualificationSteps
<1>4. QualificationInv => DecisionIsEarned
  <2>1. Expected(1) = <<"baseline", <<"stdout", "good">>>>
        /\ Expected(2) = <<"candidate", <<"stdout", "good">>>>
    BY DEF Expected, Phases
  <2> QED
    BY <2>1 DEF QualificationInv, Backed, Captured, Earned, DecisionIsEarned, PassIsEarned,
                ReportIsBacked
<1> QED
  BY <1>1, <1>3, <1>4, PTL DEF WorkSpec

=============================================================================
