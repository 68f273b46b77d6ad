--------------------------- MODULE MC_ExternalWork ---------------------------
(* An instance of ExternalWork for TLC: two sources, one asked about both  *)
(* claims; documents that agree, that conflict, and that leave a claim     *)
(* open.                                                                   *)
EXTENDS ExternalWork

TwoSources == <<{"c"}, {"c", "d"}>>
TwoClaims == {"c", "d"}
FiveDocuments ==
  {[c |-> "CLEAR"], [c |-> "CONFLICT"], [c |-> "CLEAR", d |-> "CLEAR"],
   [c |-> "UNKNOWN", d |-> "CLEAR"], [c |-> "CLEAR", d |-> "UNKNOWN"]}

(* Qualification: a sound case, every case with one defect, and each of    *)
(* these decided late, which is in the middle of the preflight's order.    *)
Agreeing == [r \in 0 .. 1 |-> <<<<"allreduce", "started">>, <<"allreduce", "completed">>>>]

Sound ==
  [trace |-> Agreeing, evidence |-> "intact", claim |-> "true", spec |-> "runnable",
   unsupported |-> {}, recipes |-> TRUE, cost |-> "less", late |-> FALSE,
   ids |-> [s \in {"workload", "baseline", "candidate"} |-> "FULLY_VERIFIED"]]

Defective(c) ==
  {[c EXCEPT !.trace = t] : t \in {[r \in {0} |-> Agreeing[0]],
                                   [r \in 0 .. 1 |-> << >>],
                                   [Agreeing EXCEPT ![1] = <<<<"allreduce", "started">>>>],
                                   [Agreeing EXCEPT ![1] = << >>]}}
  \cup {[c EXCEPT !.evidence = e] : e \in {"tampered", "rebound"}}
  \cup {[c EXCEPT !.claim = k] : k \in {"import", "completeness", "decision"}}
  \cup {[c EXCEPT !.spec = s] : s \in {"mismatched", "not runnable"}}
  \cup {[c EXCEPT !.unsupported = @ \cup {p}] : p \in {"pack", "privacy", "export", "source"}}
  \cup {[c EXCEPT !.recipes = FALSE], [c EXCEPT !.late = TRUE]}
  \cup {[c EXCEPT !.cost = k] : k \in {"more", "unknown"}}
  \cup {[c EXCEPT !.ids[s] = i] : s \in DOMAIN c.ids, i \in {"CONFLICTING", "CUSTOMER_ATTESTED"}}

SomeCases ==
  UNION {{c} \cup Defective(c) : c \in {Sound, [Sound EXCEPT !.late = TRUE]}}
=============================================================================
