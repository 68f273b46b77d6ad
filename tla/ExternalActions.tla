-------------------------- MODULE ExternalActions --------------------------
(***************************************************************************)
(* External actions and their responses (external_actions.py,              *)
(* phase6_runtime.py, the external part of the V3 controller's             *)
(* _promote_ready).  A commercial item sends one preregistered message to  *)
(* an outside party, waits, and passes when a signed response to exactly   *)
(* that delivery is in the trusted root.  The journal keeps one record of  *)
(* the message and one of its response for every action digest.            *)
(*                                                                         *)
(* The digest covers the candidate, which is main at the time of the       *)
(* request, so action n is the one requested for the n-th main.  The       *)
(* promotion follows backend recovery in the same cycle.                   *)
(***************************************************************************)
EXTENDS BackendRecovery

CONSTANTS
  MaxMain,      \* bound: values of main
  MaxAnswers    \* bound: signed responses of the outside party

ASSUME ExternalAssumption == MaxMain \in Nat \ {0} /\ MaxAnswers \in Nat

VARIABLES
  main,
  request,     \* the action the preregistered request names, 0 for none
  action,      \* journal record of each action
  messages,    \* number of times the message of each action has left
  answer,      \* the response receipt in the trusted root: its number and action
  answers,     \* number of responses so far
  response,    \* journal record of each action's response
  item         \* the commercial work item

actionVars == <<main, request, action, messages, answer, answers, response, item>>

externalVars == <<recoveryVars, actionVars, phase, faults>>

Actions == 1 .. MaxMain

NoAnswer == [id |-> 0, action |-> 0]

NoResponse == [state |-> "none", id |-> 0]

ActionsInit ==
  /\ RecoveryInit
  /\ phase = "recover" /\ faults = 0
  /\ main = 1 /\ request = 0
  /\ action = [a \in Actions |-> "none"]
  /\ messages = [a \in Actions |-> 0]
  /\ answer = NoAnswer /\ answers = 0
  /\ response = [a \in Actions |-> NoResponse]
  /\ item = [status |-> "PROPOSED", evidence |-> 0, completed |-> FALSE]

----------------------------------------------------------------------------
(* The outside world. *)

(* Another item is published. *)
MoveMain ==
  /\ main < MaxMain
  /\ main' = main + 1
  /\ UNCHANGED <<recoveryVars, phase, faults, request, action, messages, answer, answers,
                 response, item>>

(* A request, with an installation and a machine-policy receipt bound to   *)
(* it, is registered for the current main.                                 *)
RegisterRequest ==
  /\ request # main
  /\ request' = main
  /\ UNCHANGED <<recoveryVars, phase, faults, main, action, messages, answer, answers,
                 response, item>>

(* The recipient of a message answers, perhaps again; the receipt replaces *)
(* the one before it.  It expires after fifteen minutes.                   *)
Answer ==
  /\ answers < MaxAnswers
  /\ answers' = answers + 1
  /\ \E a \in {b \in Actions : messages[b] > 0} : answer' = [id |-> answers + 1, action |-> a]
  /\ UNCHANGED <<recoveryVars, phase, faults, main, request, action, messages, response, item>>

ExpireAnswer ==
  /\ answer # NoAnswer
  /\ answer' = NoAnswer
  /\ UNCHANGED <<recoveryVars, phase, faults, main, request, action, messages, answers,
                 response, item>>

----------------------------------------------------------------------------
(* ExternalActionJournal and ExternalActionAdapter.execute. *)

(* Fault variant of Reserve: an unfinished reservation is taken over. *)
ReserveAgain(a) ==
  CASE action[a] \in {"none", "PENDING"} -> "RESERVED"
    [] action[a] = "SENT" -> "RECOVERED"
    [] OTHER -> "corrupt"

(* Fault variant of Reserve: a delivered action is reported as pending. *)
ReserveForgetful(a) ==
  CASE action[a] = "none" -> "RESERVED"
    [] action[a] \in {"PENDING", "SENT"} -> "PENDING"
    [] OTHER -> "corrupt"

(* reserve: the record is created exclusively.  A PENDING one is never     *)
(* sent again, since the message may have left; a torn one raises.         *)
Reserve(a) ==
  CASE action[a] = "none" -> "RESERVED"
    [] action[a] = "PENDING" -> "PENDING"
    [] action[a] = "SENT" -> "RECOVERED"
    [] OTHER -> "corrupt"

(* What a send that is not answered leaves: the message may have left.  A  *)
(* receipt that does not match raises and leaves the same.                 *)
Unanswered(a) == {[record |-> "PENDING", sent |-> n] : n \in {0, 1}}

(* A death adds the reservation written in part, and the commit, which     *)
(* truncates the record in place before it writes SENT.                    *)
DeathsInExecute(a) ==
  Unanswered(a) \cup {[record |-> "torn", sent |-> 0], [record |-> "torn", sent |-> 1],
                      [record |-> "SENT", sent |-> 1]}

Wait(it) == [it EXCEPT !.status = "WAITING_EXTERNAL"]

Executed(a, left) ==
  /\ action' = [action EXCEPT ![a] = left.record]
  /\ messages' = [messages EXCEPT ![a] = @ + left.sent]

(* execute_commercial_action refuses a request for another main; execute   *)
(* waits while a prerequisite is missing (adapter, verifier, policies,     *)
(* channel), while the record is PENDING, and raises on a torn one.        *)
AwaitDelivery ==
  /\ \/ request # main /\ UNCHANGED faults
     \/ request = main /\ Reserve(main) \in {"PENDING", "corrupt"} /\ UNCHANGED faults
     \/ request = main /\ faults < MaxFaults /\ faults' = faults + 1
  /\ item' = Wait(item)
  /\ phase' = "recover"
  /\ UNCHANGED <<recoveryVars, main, request, action, messages, answer, answers, response>>

(* The send fails, or the process dies in execute. *)
SendFails ==
  /\ request = main /\ Reserve(main) = "RESERVED"
  /\ faults < MaxFaults /\ faults' = faults + 1
  /\ \/ \E left \in Unanswered(main) : Executed(main, left) /\ item' = Wait(item)
     \/ \E left \in DeathsInExecute(main) : Executed(main, left) /\ UNCHANGED item
  /\ phase' = "recover"
  /\ UNCHANGED <<recoveryVars, main, request, answer, answers, response>>

----------------------------------------------------------------------------
(* The response of a delivered action. *)

(* require_exact_action_response, against the outcome of the action.       *)
AnswersAction(a) == answer.action = a

(* reserve_response_consumption: the first response of a delivery, or the  *)
(* same one again while it is not applied.                                 *)
ReserveResponse(a) ==
  \/ response[a].state = "none"
  \/ response[a] = [state |-> "PENDING_TERMINAL_TRANSITION", id |-> answer.id]

(* The first k of the five writes: reserve the response, bind the          *)
(* evidence, PASSED_ENGINEERING, completion evidence, commit the response. *)
ApplyResponse(a, k) ==
  /\ response' = [response EXCEPT ![a] =
       IF k = 0 \/ (@.state # "none" /\ k < 5) THEN @
       ELSE [state |-> IF k = 5 THEN "APPLIED" ELSE "PENDING_TERMINAL_TRANSITION",
             id |-> answer.id]]
  /\ item' = [status    |-> IF k >= 3 THEN "PASSED_ENGINEERING" ELSE "WAITING_EXTERNAL",
              evidence  |-> IF k >= 2 THEN answer.id ELSE item.evidence,
              completed |-> k >= 4]

(* The message is sent, or was sent before; then the response, if there is *)
(* one the authority vouches for (EvidenceAuthority says when) and the     *)
(* delivery is not used up.  A delivery without a usable response waits.   *)
Delivered ==
  /\ request = main /\ Reserve(main) \in {"RESERVED", "RECOVERED"}
  /\ IF Reserve(main) = "RESERVED" THEN Executed(main, [record |-> "SENT", sent |-> 1])
                                   ELSE UNCHANGED <<action, messages>>

Usable == AnswersAction(main) /\ ReserveResponse(main)

AwaitResponse ==
  /\ Delivered
  /\ \/ ~Usable /\ UNCHANGED faults
     \/ Usable /\ faults < MaxFaults /\ faults' = faults + 1
  /\ item' = Wait(item)
  /\ UNCHANGED response

TakeResponse ==
  /\ Delivered /\ Usable
  /\ ApplyResponse(main, 5)
  /\ UNCHANGED faults

DieInResponse ==
  /\ Delivered /\ Usable
  /\ faults < MaxFaults /\ faults' = faults + 1
  /\ \/ \E k \in 0 .. 4 : ApplyResponse(main, k)
     \/ /\ response[main].state = "none"
        /\ response' = [response EXCEPT ![main] = [state |-> "torn", id |-> answer.id]]
        /\ item' = Wait(item)

(* The promotion of the item in a cycle. *)
Promote ==
  /\ phase = "promote" /\ item.status # "PASSED_ENGINEERING"
  /\ \/ AwaitDelivery
     \/ SendFails
     \/ /\ AwaitResponse \/ TakeResponse \/ DieInResponse
        /\ phase' = "recover"
        /\ UNCHANGED <<recoveryVars, main, request, answer, answers>>

(* _promote_ready leaves any other item alone. *)
EndCycle ==
  /\ phase = "promote" /\ item.status = "PASSED_ENGINEERING"
  /\ phase' = "recover"
  /\ UNCHANGED <<recoveryVars, actionVars, faults>>

Recover ==
  /\ RecoverBlocks \/ DieInRecovery \/ InstallSnapshot
  /\ UNCHANGED actionVars

ActionsNext ==
  \/ Recover \/ Promote \/ EndCycle
  \/ MoveMain \/ RegisterRequest \/ Answer \/ ExpireAnswer

----------------------------------------------------------------------------
(* The message of an action leaves at most once, although a send that      *)
(* failed, an answer that was lost and a death between the send and the    *)
(* journal's commit all look like a message that never left                *)
(* (ExternalActionJournal.reserve, ExternalActionAdapter.execute).         *)
MessageIsSentOnce == \A a \in Actions : messages[a] <= 1

(* An item that passed did so on the one response the journal keeps for    *)
(* the delivery, whichever responses replaced each other and whatever died *)
(* in between (_promote_ready, reserve_response_consumption).              *)
PassedOnOneResponse ==
  item.status = "PASSED_ENGINEERING" =>
    \E a \in Actions : /\ messages[a] = 1
                       /\ response[a].id = item.evidence
                       /\ response[a].state \in {"PENDING_TERMINAL_TRANSITION", "APPLIED"}

(* One action, one message, one response (ExternalActionJournal).          *)
OneMessageOneResponse == MessageIsSentOnce /\ PassedOnOneResponse

(* A reopened item starts afresh and loses nothing: its failed checkpoint  *)
(* is out of the way and every generation of it is archived, wherever a    *)
(* recovery died (recover_repaired_claude_sandbox_blocks).                 *)
FailedAttemptIsArchived ==
  /\ block.status = "READY" => block.files = {}
  /\ "active" \notin block.files => "active" \in block.archive \cup kept

(* A response that stays valid for a delivery that stays current is        *)
(* applied, unless an interrupted backend recovery raises in every cycle   *)
(* (_run_cycle_owned, _promote_ready).                                     *)
AnsweredIsApplied ==
  (request = main /\ action[main] = "SENT" /\ Usable /\ ~Wedged)
    ~> (item.status = "PASSED_ENGINEERING" \/ request # main \/ ~Usable \/ Wedged)
============================================================================
