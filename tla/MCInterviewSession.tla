-------------------------- MODULE MCInterviewSession --------------------------
(***************************************************************************)
(* Small instances of InterviewSession.  Two processes and three requests  *)
(* let a submission, its retry in another process and a submission to      *)
(* another interview overlap; one permit makes them contend for it.        *)
(***************************************************************************)
EXTENDS InterviewSession, TLC

CONSTANTS i1, i2, r1, r2, r3, p1, p2

TwoInterviews == {i1, i2}
TwoRequests == {r1, r2}
ThreeRequests == {r1, r2, r3}
TwoProcesses == {p1, p2}

Symmetric ==
    Permutations(Interviews) \cup Permutations(Requests) \cup Permutations(Processes)
=============================================================================
