---------------------------- MODULE MCAuditState ----------------------------
(***************************************************************************)
(* Instances of AuditState for TLC.                                        *)
(***************************************************************************)
EXTENDS AuditState, TLC

CONSTANTS u1, u2, u3, b1, b2

V(score, status, category) ==
    [score |-> score, status |-> status, category |-> category]

(* Two deviations of different scores, a review, a compliant file and one   *)
(* that belongs to no plan.                                                 *)
Bad      == V(20, "Non-Compliant", "coop")
Worse    == V(15, "Non-Compliant", "bcp")
Doubtful == V(57, "Under Review", "compliance")
Good     == V(95, "Compliant", "coop")
NoPlan   == V(95, "Compliant", "response")

SomeVerdicts == {Bad, Worse, Doubtful, Good, NoPlan}
TwoVerdicts  == {Doubtful, Good}
NewOrLegacy  == {<<>>, <<Doubtful, Good>>}
NewTenant    == {<<>>}

AllFaults == {"mongo", "openai"}
NoFaults  == {}

Symmetry == Permutations(Updates)
=============================================================================
