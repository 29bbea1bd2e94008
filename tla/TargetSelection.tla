--------------------------- MODULE TargetSelection ---------------------------
(***************************************************************************)
(* The policy that picks the next coverage target to ask about             *)
(* (services/target_selection.py).  Pure operators over a plan and the set *)
(* of targets already assessed; the interview loop calls them each time it *)
(* needs a main question.                                                  *)
(***************************************************************************)
EXTENDS InterviewPlan, FiniteSets, FiniteSetsExt

CONSTANT Budget    \* main questions a category is nominally allowed

ASSUME BudgetAssumption == Budget \in [Categories -> Nat]

CategoryRank == [competency |-> 0, technology |-> 1, task |-> 2]

TotalBudget == Budget["competency"] + Budget["technology"] + Budget["task"]

AssessedIn(targets, assessed, category) ==
    {t \in assessed : targets[t].category = category}

RequiredIn(targets, category) ==
    {t \in DOMAIN targets : targets[t].required /\ targets[t].category = category}

\* Variant: the cap as it was before required targets could raise it.
NominalBudget(targets, category) == Budget[category]

(***************************************************************************)
(* A category's cap is raised to the number of its required targets.       *)
(***************************************************************************)
EffectiveBudget(targets, category) ==
    Max({Budget[category], Cardinality(RequiredIn(targets, category))})

\* Variant: assessed targets stay candidates.
CandidatesEvenAssessed(targets, assessed) ==
    {t \in DOMAIN targets :
        LET c == targets[t].category
        IN  Cardinality(AssessedIn(targets, assessed, c)) < EffectiveBudget(targets, c)}

Candidates(targets, assessed) ==
    {t \in DOMAIN targets \ assessed :
        LET c == targets[t].category
        IN  Cardinality(AssessedIn(targets, assessed, c)) < EffectiveBudget(targets, c)}

\* Variant: JD order decides before the requirement tier does.
PrecedesByCategory(a, b) ==
    \/ CategoryRank[a.category] < CategoryRank[b.category]
    \/ /\ a.category = b.category
       /\ a.priority % PreferredPriorityOffset < b.priority % PreferredPriorityOffset

(***************************************************************************)
(* The sort key: required before preferred, then category, then priority.  *)
(***************************************************************************)
Precedes(a, b) ==
    \/ a.required /\ ~b.required
    \/ /\ a.required = b.required
       /\ \/ CategoryRank[a.category] < CategoryRank[b.category]
          \/ a.category = b.category /\ a.priority < b.priority

(***************************************************************************)
(* The target to ask about next, as a set: empty when the interview has to *)
(* finish, otherwise the one candidate no other candidate precedes.        *)
(***************************************************************************)
SelectNextTarget(targets, assessed) ==
    {t \in Candidates(targets, assessed) :
        /\ Cardinality(assessed) < TotalBudget
        /\ \A u \in Candidates(targets, assessed) : ~Precedes(targets[u], targets[t])}
=============================================================================
