---------------------------- MODULE InterviewPlan ----------------------------
(***************************************************************************)
(* The interview plan's coverage targets: the flat, ordered list the       *)
(* interview loop works through, as the planner builds it from the parts   *)
(* of a job description (services/interview_planner.py).                   *)
(*                                                                         *)
(* A target is known by its position in the list.  In the code its id is a *)
(* hash of its job, category and normalised name, and the planner keeps    *)
(* one target per category and name, so positions and ids correspond one   *)
(* to one.  Two targets of different categories may share a name.          *)
(***************************************************************************)
EXTENDS Naturals, Sequences

CONSTANT Names     \* normalised target names

(***************************************************************************)
(* Preferred technologies sort after every required one of their category. *)
(***************************************************************************)
PreferredPriorityOffset == 1000

Categories == {"competency", "technology", "task"}

Target == [category : Categories, name : Names, required : BOOLEAN, priority : Nat]

(***************************************************************************)
(* competencies and tasks are sequences of names, technologies a sequence  *)
(* of [name, required] records.  Competencies and tasks have no preferred  *)
(* tier: every one is required.                                            *)
(***************************************************************************)
BuildCoverageTargets(competencies, technologies, tasks) ==
    LET required(category, names) ==
            [k \in 1..Len(names) |->
                [category |-> category, name |-> names[k],
                 required |-> TRUE, priority |-> k - 1]]
        technology(k) ==
            [category |-> "technology", name |-> technologies[k].name,
             required |-> technologies[k].required,
             priority |-> IF technologies[k].required
                          THEN k - 1 ELSE k - 1 + PreferredPriorityOffset]
    IN  required("competency", competencies)
          \o [k \in 1..Len(technologies) |-> technology(k)]
          \o required("task", tasks)

(***************************************************************************)
(* What the loop may rely on: at most one target per category and name.    *)
(***************************************************************************)
IsPlan(targets) ==
    /\ targets \in Seq(Target)
    /\ \A t, u \in DOMAIN targets :
          (targets[t].category = targets[u].category /\ targets[t].name = targets[u].name)
             => t = u
=============================================================================
