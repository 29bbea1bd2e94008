---------------------------- MODULE PlanBuilding ----------------------------
(***************************************************************************)
(* How a job description becomes an interview plan                         *)
(* (services/interview_planner.py, knowledge/onet_kb.py).  Pure operators: *)
(* the job description alone decides what is assessed, the matched O*NET   *)
(* occupation annotates what is there and may add context for wording      *)
(* questions.                                                              *)
(*                                                                         *)
(* Text is compared after normalize_name, so an entry of a job description *)
(* is a normalised name together with the spelling it was written in.      *)
(* Names the knowledge base lists are kept normalised.  TF-IDF similarity  *)
(* is an input: a match gives each occupation's score, and each core       *)
(* task's relevance to the job, in ten-thousandths.                        *)
(***************************************************************************)
EXTENDS InterviewPlan, Sorting, SequencesExt, FiniteSetsExt

CONSTANTS KnowledgeBase,        \* occupations: [competencies, technologies, tasks]
          MaxCompetencies, MaxTechnologies, MaxTasks,
          MaxContext,           \* _MAX_CONTEXT_TECHNOLOGIES and _MAX_CONTEXT_TASKS
          MinOccupations        \* _MIN_OCCUPATIONS_FOR_PREVALENCE_STAT

ASSUME PlanBuildingAssumption ==
    /\ KnowledgeBase \in Seq([competencies : Seq(STRING), technologies : Seq(STRING),
                              tasks : Seq(STRING)]) \ {<<>>}
    /\ {MaxCompetencies, MaxTechnologies, MaxTasks, MaxContext, MinOccupations} \subseteq Nat

Entry == [name : Names, spelling : Nat]

Skill == [name : Names, spelling : Nat, required : BOOLEAN]

IsJobSpec(spec) ==
    /\ spec.competencies \in Seq(Entry)
    /\ spec.skills \in Seq(Skill)
    /\ spec.responsibilities \in Seq(Entry)

CoreTasks == UNION {ToSet(KnowledgeBase[k].tasks) : k \in DOMAIN KnowledgeBase}

JobMatches == [scores : [DOMAIN KnowledgeBase -> Nat], relevance : [CoreTasks -> Nat]]

First(s, n) == SubSeq(s, 1, Min({n, Len(s)}))

NamesOf(entries) == {entries[k].name : k \in DOMAIN entries}

-----------------------------------------------------------------------------
(***************************************************************************)
(* match_jobspec: the occupations by falling score.                        *)
(***************************************************************************)
Outranks(scores) ==
    {p \in (DOMAIN scores) \X (DOMAIN scores) :
        scores[p[1]] > scores[p[2]] \/ (scores[p[1]] = scores[p[2]] /\ p[1] > p[2])}

Ranked(scores) == OrderedBy(DOMAIN scores, Outranks(scores))

Occupation(match) == KnowledgeBase[Head(Ranked(match.scores))]

TopScore(match) == match.scores[Head(Ranked(match.scores))]

(***************************************************************************)
(* _match_is_grounded: similar at all, and one of its duties like the job. *)
(***************************************************************************)
Grounded(match) ==
    /\ TopScore(match) >= 800
    /\ \E task \in ToSet(Occupation(match).tasks) : match.relevance[task] >= 1000

(***************************************************************************)
(* _match_is_reliable with the margins technologies need: clear of the     *)
(* runner-up by 0.03, or by a factor of 1.3.                               *)
(***************************************************************************)
ClearOfRunnerUp(match) ==
    LET ranked == Ranked(match.scores)
        second == match.scores[ranked[2]]
    IN  Len(ranked) > 1 =>
          \/ TopScore(match) - second >= 300
          \/ 10 * TopScore(match) >= 13 * second

(***************************************************************************)
(* technology_prevalence > 0.3, when there are enough occupations for a    *)
(* fraction to mean anything.                                              *)
(***************************************************************************)
Ubiquitous(technology) ==
    LET listing == {k \in DOMAIN KnowledgeBase :
                      technology \in ToSet(KnowledgeBase[k].technologies)}
    IN  /\ Len(KnowledgeBase) >= MinOccupations
        /\ 10 * Cardinality(listing) > 3 * Len(KnowledgeBase)

-----------------------------------------------------------------------------
FirstPlaces(entries) ==
    {k \in DOMAIN entries : \A j \in 1..k - 1 : entries[j].name # entries[k].name}

(***************************************************************************)
(* A Python dict keyed by normalised name: a name keeps its first place    *)
(* and takes its last value.                                               *)
(***************************************************************************)
Keyed(entries) ==
    LET last(k) == Max({j \in DOMAIN entries : entries[j].name = entries[k].name})
        order == InOrder(FirstPlaces(entries))
    IN  [i \in DOMAIN order |-> entries[last(order[i])]]

(***************************************************************************)
(* An O*NET name adds its source to an entry it equals, never an entry.    *)
(***************************************************************************)
Annotated(entries, names) ==
    [k \in DOMAIN entries |->
       [entry |-> entries[k], name |-> entries[k].name,
        source |-> IF entries[k].name \in names THEN "both" ELSE "jobspec"]]

OnetNames(names, reliable) == IF reliable THEN ToSet(names) ELSE {}

BuildCompetencies(spec, occupation, reliable) ==
    First(Annotated(Keyed(spec.competencies), OnetNames(occupation.competencies, reliable)),
          MaxCompetencies)

\* Variant: the cap falls in JD order.
SurvivingInJdOrder(technologies) == DOMAIN First(technologies, MaxTechnologies)

(***************************************************************************)
(* Which technologies, by place, the cap leaves: required ones first, JD   *)
(* order within a tier.                                                    *)
(***************************************************************************)
Surviving(technologies) ==
    LET required(k) == technologies[k].entry.required
        before(k) == {j \in DOMAIN technologies :
                        \/ required(j) /\ ~required(k)
                        \/ required(j) = required(k) /\ j < k}
    IN  {k \in DOMAIN technologies : Cardinality(before(k)) < MaxTechnologies}

(***************************************************************************)
(* The survivors keep the order of the job description.                    *)
(***************************************************************************)
BuildTechnologies(spec, occupation, reliable) ==
    LET technologies == Annotated(Keyed(spec.skills),
                                  OnetNames(occupation.technologies, reliable))
    IN  Sublist(technologies, Surviving(technologies))

(***************************************************************************)
(* Of responsibilities that normalise alike the first is kept.             *)
(***************************************************************************)
BuildTasks(spec, occupation, reliable) ==
    LET tasks == Sublist(spec.responsibilities, FirstPlaces(spec.responsibilities))
    IN  First(Annotated(tasks, OnetNames(occupation.tasks, reliable)), MaxTasks)

(***************************************************************************)
(* _build_onet_context: what the occupation says that the job description  *)
(* does not, technologies only of a match that is clear of the runner-up.  *)
(***************************************************************************)
BuildOnetContext(spec, match) ==
    LET occupation == Occupation(match)
        news == {k \in DOMAIN occupation.technologies :
                    LET t == occupation.technologies[k]
                    IN  t \notin NamesOf(spec.skills) /\ ~Ubiquitous(t)}
        duties == {k \in DOMAIN occupation.tasks :
                      LET t == occupation.tasks[k]
                      IN  t \notin NamesOf(spec.responsibilities) /\ match.relevance[t] >= 500}
    IN  [technologies |-> IF Grounded(match) /\ ClearOfRunnerUp(match)
                          THEN First(Sublist(occupation.technologies, news), MaxContext) ELSE <<>>,
         tasks |-> IF Grounded(match)
                   THEN First(Sublist(occupation.tasks, duties), MaxContext) ELSE <<>>]

-----------------------------------------------------------------------------
(***************************************************************************)
(* InterviewPlannerService.plan, with the coverage targets the interview   *)
(* works through.                                                          *)
(***************************************************************************)
Plan(spec, match) ==
    LET occupation == Occupation(match)
        competencies == BuildCompetencies(spec, occupation, Grounded(match))
        technologies == BuildTechnologies(spec, occupation, Grounded(match))
        tasks == BuildTasks(spec, occupation, Grounded(match))
        names(entries) == [k \in DOMAIN entries |-> entries[k].name]
    IN  [competencies |-> competencies, technologies |-> technologies, tasks |-> tasks,
         onet_context |-> BuildOnetContext(spec, match),
         coverage_targets |->
            BuildCoverageTargets(names(competencies),
                                 [k \in DOMAIN technologies |->
                                    [name |-> technologies[k].name,
                                     required |-> technologies[k].entry.required]],
                                 names(tasks))]

(***************************************************************************)
(* What the plan promises of a job description: nothing that is not in it, *)
(* nothing twice; of each part everything the cap has room for, and no     *)
(* required technology cut while a preferred one is kept.                  *)
(***************************************************************************)
FaithfulPlan(spec, plan) ==
    LET planned(category) == {plan.coverage_targets[t].name :
                                t \in {u \in DOMAIN plan.coverage_targets :
                                         plan.coverage_targets[u].category = category}}
        fills(category, entries, cap) ==
            /\ planned(category) \subseteq NamesOf(entries)
            /\ Cardinality(planned(category)) = Min({cap, Cardinality(NamesOf(entries))})
        kept == {k \in DOMAIN Keyed(spec.skills) : Keyed(spec.skills)[k].name \in planned("technology")}
    IN  /\ IsPlan(plan.coverage_targets)
        /\ fills("competency", spec.competencies, MaxCompetencies)
        /\ fills("technology", spec.skills, MaxTechnologies)
        /\ fills("task", spec.responsibilities, MaxTasks)
        /\ \A k \in kept, j \in DOMAIN Keyed(spec.skills) \ kept :
              Keyed(spec.skills)[j].required => Keyed(spec.skills)[k].required

(***************************************************************************)
(* The context never repeats a requirement and comes only from an          *)
(* occupation one of whose duties reads like the job's.                    *)
(***************************************************************************)
ContextIsSupplementary(spec, match, plan) ==
    LET context == plan.onet_context
    IN  /\ ToSet(context.technologies) \cap NamesOf(spec.skills) = {}
        /\ ToSet(context.tasks) \cap NamesOf(spec.responsibilities) = {}
        /\ context # [technologies |-> <<>>, tasks |-> <<>>] =>
              \E k \in DOMAIN KnowledgeBase : \E task \in ToSet(KnowledgeBase[k].tasks) :
                  match.scores[k] = TopScore(match) /\ match.relevance[task] >= 1000
=============================================================================
