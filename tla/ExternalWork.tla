---------------------------- MODULE ExternalWork ----------------------------
(***************************************************************************)
(* Work that depends on the outside world.  An episode is a commercial     *)
(* action (ExternalActions, after BackendRecovery in the same cycle), a    *)
(* research item (Research), a candidate released on external evidence     *)
(* (EvidenceAuthority), or a qualification, the product's own command on   *)
(* somebody else's training run (Qualification).  The first three take     *)
(* different branches of the controller, the last is a process of its own; *)
(* no two share a record, so a behaviour is one episode of one kind, with  *)
(* the other parts at rest.                                                *)
(***************************************************************************)
EXTENDS ExternalActions, Research, EvidenceAuthority, Qualification

VARIABLE kind   \* of episode: "commercial", "research", "release", "qualification"

workVars == <<kind, externalVars, researchVars, authorityVars, qualificationVars>>

(* A part at rest starts from one of its initial states. *)
WorkInit ==
  /\ kind \in {"commercial", "research", "release", "qualification"}
  /\ ActionsInit /\ ResearchInit /\ AuthorityInit /\ QualificationInit
  /\ kind # "commercial" => block.files = {"active"} /\ block.candidate = 1
  /\ kind # "release" => ledger = 1
  /\ kind # "qualification" => case = CHOOSE c \in Cases : TRUE

(* A step of an episode of each kind. *)
Commercial(step) ==
  /\ kind = "commercial" /\ step
  /\ UNCHANGED <<kind, researchVars, authorityVars, qualificationVars>>

Researching(step) ==
  /\ kind = "research" /\ step
  /\ UNCHANGED <<kind, externalVars, authorityVars, qualificationVars>>

Releasing(step) ==
  /\ kind = "release" /\ step
  /\ UNCHANGED <<kind, externalVars, researchVars, qualificationVars>>

Qualifying(step) ==
  /\ kind = "qualification" /\ step
  /\ UNCHANGED <<kind, externalVars, researchVars, authorityVars>>

WorkNext ==
  \/ Commercial(ActionsNext)
  \/ Researching(ResearchNext)
  \/ Releasing(AuthorityNext)
  \/ Qualifying(QualificationNext)

(* The supervisor restarts the controller and its cycles come for ever.    *)
(* The qualification's runner goes on with whatever it can do; its child   *)
(* promises nothing.                                                       *)
WorkFairness ==
  /\ WF_workVars(Commercial(RecoverBlocks /\ UNCHANGED actionVars))
  /\ WF_workVars(Commercial(Promote /\ UNCHANGED faults))
  /\ WF_workVars(Commercial(EndCycle))
  /\ WF_workVars(Researching(ResearchStep))
  /\ WF_workVars(Qualifying(TimeRunsOut))
  /\ WF_workVars(Qualifying(ReadWithoutEvents))
  /\ WF_workVars(Qualifying(ReadEnd))
  /\ WF_workVars(Qualifying(Deadline))
  /\ WF_workVars(Qualifying(Reap))
  /\ WF_workVars(Qualifying(PutStream \/ PutRefused \/ EndPhase))
  /\ WF_workVars(Qualifying(WriteReport))

WorkSpec == WorkInit /\ [][WorkNext]_workVars /\ WorkFairness

----------------------------------------------------------------------------
(* A ready item comes to an end, whatever the deaths: it is published or   *)
(* blocked, or it waits because a retrieval failed, which nothing promotes *)
(* again.  The exceptions need a death in the copy of the evidence:        *)
(* materialize_research_advisory does not take a directory that exists.    *)
ResearchEnds ==
  (kind = "research" /\ research = "READY") ~> (research # "READY" \/ Stranded)
=============================================================================
