------------------------------ MODULE MCRateLimit ------------------------------
(***************************************************************************)
(* Two interviews whose answers have a short and a long window and share a *)
(* deployment-wide budget, and sign-in, which has only that.               *)
(***************************************************************************)
EXTENDS RateLimit, TLC

CONSTANTS i1, i2, r1, r2, r3, r4

TwoIdentities == {i1, i2}
FourRequests == {r1, r2, r3, r4}
Symmetric == Permutations(TwoIdentities) \cup Permutations(FourRequests)

MCLimits ==
    "answer_interview" :> (2 :> 1 @@ 3 :> 2)
        @@ "answer_global" :> (2 :> 2)
        @@ "login_global" :> (4 :> 1)
=============================================================================
