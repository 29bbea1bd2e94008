----------------------------- MODULE MCStagePage -----------------------------
(***************************************************************************)
(* The page listens and speaks, and gets credentials for both.  The three  *)
(* share no state - a new question starts a narration, an answer sent      *)
(* cancels it, and any may happen at any time - so they are explored one   *)
(* at a time: listening, speaking before a silent candidate, or asking for *)
(* credentials.  The browser's recognizer is given one utterance and one   *)
(* answer, Azure's all of them.                                            *)
(***************************************************************************)
EXTENDS StagePage, Narration, SpeechToken, TLC

CONSTANTS i1, i2, c1, c2

TwoInterviews == {i1, i2}
TwoCalls == {c1, c2}
Symmetric == Permutations(TwoInterviews) \cup Permutations(TwoCalls)

Unheard == provider = "azure" /\ Len(sessions) = 0 /\ typed.count = 0 /\ server.turn = 1 /\ ~page.left
Unspoken == narrator = "azure" /\ sound.narrations = <<>> /\ ~voice.gone
Unasked ==
    /\ mode = "key" /\ tab.narration = Nothing
    /\ clock = 0 /\ completed = {} /\ calls = [c \in Calls |-> NoCall]
    /\ ~entra.credential /\ cached = Nothing /\ connection = Nothing

MCInit == Init /\ NarrationInit /\ TokenInit

MCNext ==
    \/ /\ Unspoken /\ Unasked
       /\ Next
       /\ provider = "browser" => said' <= 1 /\ Len(requests') <= 1
       /\ UNCHANGED <<narrationVars, tokenVars>>
    \/ /\ Unheard /\ Unasked
       /\ NarrationNext
       /\ UNCHANGED <<vars, tokenVars>>
    \/ /\ Unheard /\ Unspoken
       /\ TokenNext
       /\ UNCHANGED <<vars, narrationVars>>

MCSpec == MCInit /\ [][MCNext]_<<vars, narrationVars, tokenVars>>
=============================================================================
