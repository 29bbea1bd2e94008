------------------------------ MODULE SpeechInput ------------------------------
(***************************************************************************)
(* Dictating an answer: the hook that owns the microphone                  *)
(* (speech/useSpeechInput.ts) over recognizer sessions of one of the two   *)
(* providers (speech/azureSpeech.ts, speech/browserSpeech.ts).             *)
(*                                                                         *)
(* A recognizer is slow to open, may end at any time, and goes on          *)
(* delivering for a while after it was told to stop.  Every callback       *)
(* carries the epoch its session was opened in.  Here hook.epoch is the    *)
(* session whose epoch it still is, None once it has been retired.         *)
(*                                                                         *)
(* Words are numbers.  A session hears one utterance at a time: the        *)
(* interim of an utterance and its final are the same word.                *)
(***************************************************************************)
EXTENDS Integers, Sequences, SequencesExt, FiniteSetsExt

CONSTANTS Providers,           \* the builds considered: "azure", "browser"
          MaxSilentRestarts,   \* MAX_SILENT_RESTARTS
          MaxSessions,         \* bound: recognizers opened
          Utterances           \* bound: what the candidate says

ASSUME UtterancesAssumption == Utterances \in Nat

VARIABLES provider,    \* VITE_SPEECH_PROVIDER
          hook,        \* the refs and the status of useSpeechInput
          sessions,    \* recognizers, in the order they were opened
          said,        \* utterances so far
          shown,       \* those the candidate has seen on screen, for the properties
          answer,      \* the composer's text
          collected    \* what stopAndCollect returned, until the page goes on with it

inputVars == <<provider, hook, sessions, said, shown, answer, collected>>

None == 0
Pending == -1   \* no stopAndCollect has returned

Ids == DOMAIN sessions
Word(word) == IF word = None THEN <<>> ELSE <<word>>
WordSet(word) == ToSet(Word(word))

InputInit ==
    /\ provider \in Providers
    /\ hook = [wanted |-> FALSE, current |-> None, epoch |-> None, restarts |-> 0,
               retry |-> FALSE, partial |-> None, collecting |-> FALSE, status |-> "idle"]
    /\ sessions = <<>>
    /\ said = 0
    /\ shown = {}
    /\ answer = <<>>
    /\ collected = Pending

(***************************************************************************)
(* A promise's continuation runs before the next event.                    *)
(***************************************************************************)
NextEvent == collected = Pending

-----------------------------------------------------------------------------
(***************************************************************************)
(* Sessions.  opening: its start has not resolved; open; stopping: told to *)
(* stop; closed.  lost: its start timed out (browser), nobody holds it.    *)
(* spared: lost, or still opening when an answer was submitted: the hook   *)
(* listens to it and cannot stop it.                                       *)
(***************************************************************************)
NewSession == [state |-> "opening", ended |-> FALSE, hearing |-> None, said |-> {}, spared |-> FALSE]

Stop(session) ==
    IF session.state = "open"
    THEN [session EXCEPT !.state = IF session.ended THEN "closed" ELSE "stopping"]
    ELSE session

StopSession(all, id) == IF id = None THEN all ELSE [all EXCEPT ![id] = Stop(@)]

IsCurrent(id) == hook.epoch = id

(***************************************************************************)
(* openSession: closes a session still live and supersedes an open still   *)
(* in flight.                                                              *)
(***************************************************************************)
OpenSession(h) ==
    /\ Len(sessions) < MaxSessions
    /\ sessions' = Append(StopSession(sessions, h.current), NewSession)
    /\ hook' = [h EXCEPT !.current = None, !.epoch = Len(sessions) + 1]

Start ==
    /\ hook.current = None
    /\ ~hook.wanted
    /\ OpenSession([hook EXCEPT !.wanted = TRUE, !.restarts = 0])
    /\ UNCHANGED <<provider, said, shown, answer, collected>>

Restart ==
    /\ NextEvent
    /\ hook.retry
    /\ OpenSession([hook EXCEPT !.retry = FALSE])
    /\ UNCHANGED <<provider, said, shown, answer, collected>>

(***************************************************************************)
(* start() resolves or rejects; a session no longer wanted is stopped.     *)
(***************************************************************************)
\* Variant: any session is taken while the microphone is wanted.
StillWantedByNow(id) == hook.wanted

StillWanted(id) == hook.wanted /\ IsCurrent(id)

Opened(id) ==
    /\ NextEvent
    /\ sessions[id].state = "opening"
    /\ LET open == [sessions[id] EXCEPT !.state = "open"]
       IN  IF StillWanted(id)
           THEN /\ sessions' = [sessions EXCEPT ![id] = open]
                /\ hook' = [hook EXCEPT !.current = id, !.status = "listening"]
           ELSE /\ sessions' = [sessions EXCEPT ![id] = Stop(open)]
                /\ UNCHANGED hook
    /\ UNCHANGED <<provider, said, shown, answer, collected>>

Rejected(id) ==
    hook' = IF IsCurrent(id)
            THEN [hook EXCEPT !.wanted = FALSE, !.current = None, !.status = "unavailable"]
            ELSE hook

OpenFails(id) ==
    /\ NextEvent
    /\ sessions[id].state = "opening"
    /\ sessions' = [sessions EXCEPT ![id].state = "closed"]
    /\ Rejected(id)
    /\ UNCHANGED <<provider, said, shown, answer, collected>>

(***************************************************************************)
(* The browser's recognizer may start after its five seconds are over.     *)
(***************************************************************************)
OpenTimesOut(id) ==
    /\ NextEvent
    /\ provider = "browser"
    /\ sessions[id].state = "opening"
    /\ sessions' = [sessions EXCEPT ![id].state = "lost", ![id].spared = TRUE]
    /\ Rejected(id)
    /\ UNCHANGED <<provider, said, shown, answer, collected>>

-----------------------------------------------------------------------------
(***************************************************************************)
(* The callbacks.  With a collector waiting the words go to the caller of  *)
(* stopAndCollect, and the epoch is retired.                               *)
(***************************************************************************)
Quiet(status) == IF status = "unavailable" THEN status ELSE "idle"

FinishCollecting(h, word) ==
    /\ hook' = [h EXCEPT !.collecting = FALSE, !.epoch = None, !.current = None,
                         !.partial = None, !.status = Quiet(@)]
    /\ collected' = word
    /\ UNCHANGED answer

OnPartial(id, word) ==
    IF IsCurrent(id) /\ ~hook.collecting
    THEN /\ hook' = [hook EXCEPT !.restarts = 0, !.partial = word, !.status = "listening"]
         /\ shown' = shown \cup {word}
    ELSE UNCHANGED <<hook, shown>>

OnFinal(id, word) ==
    CASE ~IsCurrent(id) -> UNCHANGED <<hook, shown, answer, collected>>
      [] IsCurrent(id) /\ hook.collecting ->
            FinishCollecting(hook, word) /\ UNCHANGED shown
      [] OTHER ->
            /\ hook' = [hook EXCEPT !.restarts = 0, !.partial = None, !.status = "listening"]
            /\ answer' = Append(answer, word)
            /\ shown' = shown \cup {word}
            /\ UNCHANGED collected

OnError(id, fatal) ==
    IF IsCurrent(id) /\ fatal
    THEN [hook EXCEPT !.wanted = FALSE, !.status = "unavailable"]
    ELSE hook

\* Variant: the epoch goes on counting.
RetiredNever(h) == [h EXCEPT !.current = None, !.partial = None]

Retired(h) == [h EXCEPT !.epoch = None, !.current = None, !.partial = None]

AfterEnd(h) ==
    CASE ~h.wanted -> [h EXCEPT !.status = Quiet(@)]
      [] h.wanted /\ h.restarts >= MaxSilentRestarts ->
            [h EXCEPT !.wanted = FALSE, !.status = "unavailable"]
      [] OTHER -> [h EXCEPT !.restarts = @ + 1, !.retry = TRUE, !.status = "restarting"]

OnEnd(id, h) ==
    CASE ~IsCurrent(id) -> hook' = h /\ UNCHANGED <<answer, collected>>
      [] IsCurrent(id) /\ h.collecting -> FinishCollecting(h, h.partial)
      [] OTHER -> /\ answer' = answer \o Word(h.partial)
                  /\ hook' = AfterEnd(Retired(h))
                  /\ UNCHANGED collected

-----------------------------------------------------------------------------
(***************************************************************************)
(* What a recognizer does.  It may take up a new utterance at any time, as *)
(* a final at the earliest after stop: sound is captured from before start *)
(* resolves.                                                               *)
(***************************************************************************)
Heard(id) == IF sessions[id].hearing # None THEN sessions[id].hearing ELSE said + 1

Hears(id, hearing) ==
    /\ ~sessions[id].ended
    /\ Heard(id) <= Utterances
    /\ said' = IF Heard(id) > said THEN Heard(id) ELSE said
    /\ sessions' = [sessions EXCEPT ![id].hearing = hearing, ![id].said = @ \cup {Heard(id)}]

(***************************************************************************)
(* Interim text; Azure's is not passed on after stop.                      *)
(***************************************************************************)
Recognizing(id) ==
    /\ NextEvent
    /\ sessions[id].state \in {"open", "lost"} \cup
          (IF provider = "browser" THEN {"stopping"} ELSE {})
    /\ Hears(id, Heard(id))
    /\ OnPartial(id, Heard(id))
    /\ UNCHANGED <<provider, answer, collected>>

Recognized(id) ==
    /\ NextEvent
    /\ sessions[id].state \in {"open", "stopping", "lost"}
    /\ Hears(id, None)
    /\ OnFinal(id, Heard(id))
    /\ UNCHANGED provider

Ended(session) ==
    [session EXCEPT !.ended = TRUE, !.hearing = None,
                    !.state = IF @ = "opening" THEN @ ELSE "closed"]

(***************************************************************************)
(* Azure: canceled, with or without an error, and sessionStopped dispose   *)
(* of the recognizer and report the end, once; an opening session's start  *)
(* is still to settle.                                                     *)
(***************************************************************************)
Canceled(id, fatal) ==
    /\ NextEvent
    /\ provider = "azure"
    /\ ~sessions[id].ended
    /\ sessions[id].state \in {"opening", "open", "stopping"}
    /\ sessions' = [sessions EXCEPT ![id] = Ended(@)]
    /\ OnEnd(id, OnError(id, fatal))
    /\ UNCHANGED <<provider, said, shown>>

(***************************************************************************)
(* The callback of stopContinuousRecognitionAsync: closed, and no end.     *)
(***************************************************************************)
Disposed(id) ==
    /\ NextEvent
    /\ provider = "azure"
    /\ sessions[id].state = "stopping"
    /\ sessions' = [sessions EXCEPT ![id].state = "closed", ![id].hearing = None]
    /\ UNCHANGED <<provider, hook, said, shown, answer, collected>>

(***************************************************************************)
(* Browser: an error is an event, the end another.                         *)
(***************************************************************************)
Erred(id) ==
    /\ NextEvent
    /\ provider = "browser"
    /\ sessions[id].state \in {"open", "stopping", "lost"}
    /\ hook' = OnError(id, TRUE)
    /\ UNCHANGED <<provider, sessions, said, shown, answer, collected>>

BrowserEnded(id) ==
    /\ NextEvent
    /\ provider = "browser"
    /\ sessions[id].state \in {"open", "stopping", "lost"}
    /\ sessions' = [sessions EXCEPT ![id] = Ended(@)]
    /\ OnEnd(id, hook)
    /\ UNCHANGED <<provider, said, shown>>

-----------------------------------------------------------------------------
(***************************************************************************)
(* stop: flushes what is being heard.  (It settles a pending collect as    *)
(* well; the page only calls it by toggle, which then finds the microphone *)
(* no longer wanted and calls a start that is ignored.)                    *)
(***************************************************************************)
StopListening ==
    /\ sessions' = StopSession(sessions, hook.current)
    /\ answer' = answer \o Word(hook.partial)
    /\ hook' = Retired([hook EXCEPT !.wanted = FALSE, !.retry = FALSE, !.status = "idle"])
    /\ UNCHANGED collected

Toggle ==
    /\ NextEvent
    /\ IF hook.wanted
       THEN StopListening /\ UNCHANGED <<provider, said, shown>>
       ELSE Start

(***************************************************************************)
(* stopAndCollect: with a session, wait for its last final; without one -  *)
(* none was wanted, or it is opening - what is being heard is all there is.*)
(***************************************************************************)
StopAndCollect ==
    LET h == [hook EXCEPT !.wanted = FALSE, !.retry = FALSE]
    IN  IF hook.current = None
        THEN /\ collected' = h.partial
             /\ hook' = [h EXCEPT !.partial = None]
             /\ sessions' = [id \in Ids |->
                   [sessions[id] EXCEPT !.spared = @ \/ IsCurrent(id)]]
        ELSE /\ hook' = [h EXCEPT !.collecting = TRUE]
             /\ sessions' = StopSession(sessions, hook.current)
             /\ UNCHANGED collected

GraceElapsed ==
    /\ NextEvent
    /\ hook.collecting
    /\ FinishCollecting(hook, hook.partial)
    /\ UNCHANGED <<provider, sessions, said, shown>>

(***************************************************************************)
(* The page unmounts: a pending collect is settled, the session stopped.   *)
(***************************************************************************)
Unmount ==
    /\ hook' = [hook EXCEPT !.wanted = FALSE, !.retry = FALSE, !.collecting = FALSE,
                            !.epoch = None]
    /\ sessions' = StopSession(sessions, hook.current)
    /\ collected' = IF hook.collecting THEN hook.partial ELSE collected

RecognizerNext ==
    \E id \in Ids :
        \/ Opened(id)
        \/ OpenFails(id)
        \/ OpenTimesOut(id)
        \/ Recognizing(id)
        \/ Recognized(id)
        \/ \E fatal \in BOOLEAN : Canceled(id, fatal)
        \/ Disposed(id)
        \/ Erred(id)
        \/ BrowserEnded(id)
=============================================================================
