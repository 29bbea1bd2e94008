-------------------------- MODULE MCInterviewLifecycle --------------------------
(***************************************************************************)
(* One interview that may be started, running, completed or only a trace   *)
(* of an older version; a second one that is under way that nobody answers *)
(* or deletes, so that a listing has two rows and a sweep a choice.        *)
(***************************************************************************)
EXTENDS InterviewLifecycle, TLC

CONSTANTS i1, i2, c1, c2

TwoInterviews == {i1, i2}
TwoCalls == {c1, c2}
Symmetric == Permutations(TwoCalls)

MCInit ==
    /\ Init
    /\ sessions[i2] = Session(FALSE, 1)
    /\ \A c \in Calls : about[c] = i1

MCSpec == MCInit /\ [][Next]_vars
=============================================================================
