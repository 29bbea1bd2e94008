------------------------------- MODULE StagePage -------------------------------
(***************************************************************************)
(* The candidate's interview page                                          *)
(* (pages/candidate/InterviewStagePage.tsx): typing, dictating and sending *)
(* an answer, against a server that is slow, may lose a reply, and may     *)
(* have been answered from another tab.                                    *)
(*                                                                         *)
(* Words typed are numbered on from the utterances.  A turn is the         *)
(* question shown; turn Turns + 1 is the end of the interview.             *)
(***************************************************************************)
EXTENDS SpeechInput

CONSTANTS Turns,
          Keystrokes,    \* bound: words typed
          MaxRequests    \* bound: answers sent

VARIABLES page,      \* turn shown, where handleSubmit is, whether the page is left,
                     \* and the words it knows to be recorded
          typed,     \* words typed so far; those typed while a collect was pending
          requests,  \* answers sent
          server     \* the turn it is at, and what it recorded

pageVars == <<page, typed, requests, server>>
vars == <<inputVars, pageVars>>

Finished == Turns + 1

Init ==
    /\ InputInit
    /\ page = [turn |-> 1, at |-> "free", over |-> <<>>, next |-> 1, left |-> FALSE,
               delivered |-> {}]
    /\ typed = [count |-> 0, overtaken |-> {}]
    /\ requests = <<>>
    /\ server = [turn |-> 1, recorded |-> {}]

Free == page.at = "free"
Submitting == page.at \in {"sent", "reloading"}
Locked == Submitting \/ page.at = "beat"
Here == NextEvent /\ ~page.left

-----------------------------------------------------------------------------
(***************************************************************************)
(* The composer: text, microphone, send.                                   *)
(***************************************************************************)
Type ==
    /\ Here
    /\ ~Locked
    /\ typed.count < Keystrokes
    /\ LET word == Utterances + typed.count + 1
       IN  /\ answer' = Append(answer, word)
           /\ typed' = [count |-> typed.count + 1,
                        overtaken |-> IF Free THEN typed.overtaken
                                      ELSE typed.overtaken \cup {word}]
    /\ UNCHANGED <<provider, hook, sessions, said, shown, collected, page, requests, server>>

PressMicrophone ==
    /\ Here
    /\ ~Locked
    /\ hook.status # "unavailable"
    /\ Toggle
    /\ UNCHANGED pageVars

(***************************************************************************)
(* handleSubmit up to its first await: the answer it closed over.          *)
(***************************************************************************)
PressSend ==
    /\ Here
    /\ Free
    /\ answer # <<>> \/ hook.partial # None
    /\ StopAndCollect
    /\ page' = [page EXCEPT !.at = "collecting", !.over = answer]
    /\ UNCHANGED <<provider, said, shown, answer, typed, requests, server>>

Composed == page.over \o Word(collected)

(***************************************************************************)
(* And from there: the composed answer replaces the box and is sent.       *)
(***************************************************************************)
Send ==
    /\ collected # Pending
    /\ collected' = Pending
    /\ IF Composed = <<>>
       THEN /\ page' = [page EXCEPT !.at = "free", !.over = <<>>]
            /\ UNCHANGED <<answer, requests>>
       ELSE /\ Len(requests) < MaxRequests
            /\ answer' = Composed
            /\ requests' = Append(requests, [turn |-> page.turn, words |-> Composed,
                                             reply |-> "none", next |-> page.turn])
            /\ page' = [page EXCEPT !.at = "sent", !.over = <<>>]
    /\ UNCHANGED <<provider, hook, sessions, said, shown, typed, server>>

-----------------------------------------------------------------------------
(***************************************************************************)
(* The server: an answer for the turn it is at is recorded, one for        *)
(* another turn refused (412), as is one after the end (409).  What it     *)
(* does after the page is left is of no consequence here.                  *)
(***************************************************************************)
Receive(k) ==
    LET request == requests[k]
        current == request.turn = server.turn
    IN  /\ ~page.left
        /\ request.reply = "none"
        /\ server' = IF current
                     THEN [turn |-> server.turn + 1,
                           recorded |-> server.recorded \cup {<<request.turn, request.words>>}]
                     ELSE server
        /\ requests' = [requests EXCEPT
              ![k].reply = CASE current -> "ok"
                             [] server.turn = Finished -> "finished"
                             [] OTHER -> "stale",
              ![k].next = server'.turn]
        /\ UNCHANGED <<inputVars, page, typed>>

AnotherTab ==
    /\ ~page.left
    /\ server.turn < Finished
    /\ server' = [server EXCEPT !.turn = @ + 1]
    /\ UNCHANGED <<inputVars, page, typed, requests>>

-----------------------------------------------------------------------------
(***************************************************************************)
(* Leaving: the candidate navigates away, or the interview is over.        *)
(***************************************************************************)
Leave(p) ==
    /\ Unmount
    /\ page' = [p EXCEPT !.left = TRUE]
    /\ UNCHANGED <<provider, said, shown, typed, requests, server>>

Show(p, turn) ==
    LET shows == [p EXCEPT !.at = "free", !.turn = turn]
    IN  IF turn = Finished
        THEN Leave(shows)
        ELSE page' = shows /\ UNCHANGED <<provider, hook, sessions, said, shown, collected,
                                      typed, requests, server>>

WalkAway ==
    /\ Here
    /\ Leave(page)
    /\ UNCHANGED answer

(***************************************************************************)
(* The reply to the last request.  A follow-up question waits for a beat.  *)
(***************************************************************************)
Reply(reply) ==
    /\ Here
    /\ page.at = "sent"
    /\ Last(requests).reply = reply

Accepted ==
    /\ Reply("ok")
    /\ answer' = <<>>
    /\ LET next == Last(requests).next
           p == [page EXCEPT !.delivered = @ \cup ToSet(Last(requests).words)]
       IN  \/ Show(p, next)
           \/ /\ next # Finished
              /\ page' = [p EXCEPT !.at = "beat", !.next = next]
              /\ UNCHANGED <<provider, hook, sessions, said, shown, collected,
                             typed, requests, server>>

BeatOver ==
    /\ Here
    /\ page.at = "beat"
    /\ Show(page, page.next)
    /\ UNCHANGED answer

Stale ==
    /\ Reply("stale")
    /\ page' = [page EXCEPT !.at = "reloading"]
    /\ UNCHANGED <<inputVars, typed, requests, server>>

Reload ==
    /\ Here
    /\ page.at = "reloading"
    /\ Show(page, server.turn)
    /\ UNCHANGED answer

AlreadyFinished ==
    /\ Reply("finished")
    /\ Leave(page)
    /\ UNCHANGED answer

(***************************************************************************)
(* The request or the reload failed on the way: the draft stays.  The      *)
(* server may have the answer, or get it still.                            *)
(***************************************************************************)
ConnectionLost ==
    /\ Here
    /\ Submitting
    /\ page' = [page EXCEPT !.at = "free"]
    /\ UNCHANGED <<inputVars, typed, requests, server>>

HookNext ==
    /\ \/ RecognizerNext
       \/ Restart
       \/ GraceElapsed
    /\ UNCHANGED pageVars

Next ==
    \/ HookNext
    \/ Type
    \/ PressMicrophone
    \/ PressSend
    \/ Send
    \/ \E k \in DOMAIN requests : Receive(k)
    \/ AnotherTab
    \/ WalkAway
    \/ Accepted
    \/ BeatOver
    \/ Stale
    \/ Reload
    \/ AlreadyFinished
    \/ ConnectionLost

Spec == Init /\ [][Next]_vars

-----------------------------------------------------------------------------
(***************************************************************************)
(* At most one recognizer holds the microphone, and it is the one the hook *)
(* listens to and can stop; none does once the page is left.  And the      *)
(* microphone is never silently gone: while the candidate wants it, a      *)
(* session is open, opening or about to be opened again.                   *)
(***************************************************************************)
OneMicrophone ==
    /\ \A id \in Ids : sessions[id].state = "open" =>
          hook.current = id /\ hook.epoch = id /\ ~page.left
    /\ hook.retry => hook.wanted /\ hook.current = None
    /\ hook.wanted =>
          /\ ~page.left
          /\ \/ hook.retry
             \/ hook.current # None
             \/ hook.epoch # None /\ sessions[hook.epoch].state = "opening"

(***************************************************************************)
(* Every word the candidate typed, or saw being heard, is in exactly one   *)
(* place: the answer being composed, the utterance being heard, or an      *)
(* answer known to be recorded - and a recorded one never turns up again.  *)
(* Two exceptions: what is typed while the last utterance settles is       *)
(* overwritten; and a session that was still opening when an answer was    *)
(* sent, or whose opening was given up, has not been silenced, so that its *)
(* words turn up in the next answer.                                       *)
(***************************************************************************)
EveryWordOnce ==
    LET spared == UNION {sessions[id].said : id \in {i \in Ids : sessions[i].spared}}
        words == shown \cup (Utterances + 1..Utterances + typed.count)
        composing == ToSet(answer) \cup ToSet(page.over)
        heard == WordSet(hook.partial) \cup (WordSet(collected) \ {Pending})
    IN  ~page.left =>
          /\ \A i, k \in DOMAIN answer : answer[i] = answer[k] => i = k \/ answer[i] \in spared
          /\ ToSet(answer) \cap heard \subseteq spared
          /\ (composing \cup heard) \cap page.delivered \subseteq spared
          /\ words \ (spared \cup typed.overtaken)
                \subseteq composing \cup heard \cup page.delivered

(***************************************************************************)
(* What the page says of the microphone: it only says that it records, or  *)
(* is about to again, while the candidate wants it to or the last          *)
(* utterance is being waited for.                                          *)
(***************************************************************************)
RecordingNeverLies ==
    hook.status \in {"listening", "restarting"} =>
        hook.wanted \/ hook.collecting \/ page.left
=============================================================================
