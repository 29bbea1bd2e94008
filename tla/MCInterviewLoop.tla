--------------------------- MODULE MCInterviewLoop ---------------------------
(***************************************************************************)
(* Small instances of the interview loop, with two shapes of plan, each    *)
(* with every choice of required and preferred technologies (the planner   *)
(* keeps the JD's order, whichever technologies it cuts):                  *)
(*   - a competency and three technologies, one more than the category's   *)
(*     budget, the last of which shares the competency's name;             *)
(*   - two competencies, two technologies and a task: one target more than *)
(*     the total budget.                                                   *)
(***************************************************************************)
EXTENDS InterviewLoop

MCNames == {"a", "b", "c", "d", "e"}

MCBudget == [competency |-> 1, technology |-> 2, task |-> 1]

Technologies(names, required) ==
    [k \in DOMAIN names |-> [name |-> names[k], required |-> required[k]]]

MCPlans ==
    {BuildCoverageTargets(<<"a">>, Technologies(<<"b", "c", "a">>, required), <<>>) :
        required \in [1..3 -> BOOLEAN]}
    \cup
    {BuildCoverageTargets(<<"a", "e">>, Technologies(<<"b", "c">>, required), <<"d">>) :
        required \in [1..2 -> BOOLEAN]}

(***************************************************************************)
(* Evidence about every name and about one the evaluator made up; hints,   *)
(* which only colour a later question's wording, about two names only.     *)
(***************************************************************************)
Item(name, type, mentioned) ==
    [target |-> name, evidence_type |-> type, mentioned |-> mentioned]

ItemSets ==
    {{}, {Item("z", "demonstrated", TRUE)}, {Item("c", "partial", TRUE)},
     {Item("b", "explicit_lack", FALSE)},
     {Item("b", "demonstrated", TRUE), Item("c", "partial", TRUE)},
     {Item("c", "demonstrated", TRUE), Item("c", "partial", TRUE)},
     {Item("b", "demonstrated", TRUE), Item("c", "demonstrated", TRUE)}}
      \cup {{Item(name, "demonstrated", TRUE)} : name \in MCNames}
      \cup {{Item(name, "explicit_lack", TRUE)} : name \in {"a", "d"}}

(***************************************************************************)
(* A thorough answer with and without a recorded weakness, a moderate one  *)
(* worth a follow-up, and one that leaves nothing to ask.                  *)
(***************************************************************************)
MCEvaluations ==
    [score : {80}, weaknesses : BOOLEAN, question : {TRUE}, cross_target_evidence : ItemSets]
      \cup [score : {79}, weaknesses : {FALSE}, question : {TRUE},
            cross_target_evidence : {{}, {Item("c", "demonstrated", TRUE)}}]
      \cup [score : {34}, weaknesses : {TRUE}, question : {FALSE},
            cross_target_evidence : {{}}]
=============================================================================
