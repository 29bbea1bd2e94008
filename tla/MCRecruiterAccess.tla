--------------------------- MODULE MCRecruiterAccess ---------------------------
(***************************************************************************)
(* Two recruiters with a session, a job and an interview each, one free    *)
(* address, and three calls: two that write and one that does anything     *)
(* before, between or after them.                                          *)
(***************************************************************************)
EXTENDS RecruiterAccess, TLC

CONSTANTS s1, s2, e1, c1, c2, c3

TwoSeeds == {s1, s2}
OneEmail == {e1}
ThreeCalls == {c1, c2, c3}
Writes == {"signup", "login", "logout", "create_plan"}
TwoWriters ==
    c1 :> Writes @@ c2 :> Writes
        @@ c3 :> Writes \cup {"create_job", "list_jobs", "job_detail", "get_plan", "interview"}
Symmetric == Permutations(TwoSeeds) \cup Permutations({c1, c2})
=============================================================================
