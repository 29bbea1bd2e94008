------------------------------- MODULE Narration -------------------------------
(***************************************************************************)
(* Reading the questions aloud: the hook (speech/useSpeechOutput.ts) over  *)
(* Azure synthesis played through one audio element                        *)
(* (speech/azureSpeechOutput.ts) with the browser's speech synthesis to    *)
(* fall back on (speech/index.ts, speech/browserSpeech.ts).                *)
(*                                                                         *)
(* Each provider calls back whenever it likes, or never: a browser may     *)
(* drop an utterance without a word.  A narration is known by its number;  *)
(* generation is the one whose callbacks still count, None if there is     *)
(* none.                                                                   *)
(***************************************************************************)
EXTENDS Integers, Sequences, SequencesExt

CONSTANTS Narrators,   \* the builds considered: "azure" with fallback, "browser"
          Questions    \* bound: questions shown

VARIABLES narrator,
          voice,   \* the refs and the state of useSpeechOutput
          sound    \* the providers: narrations, the audio element, speechSynthesis

narrationVars == <<narrator, voice, sound>>

Nobody == 0

(***************************************************************************)
(* azure: fetching, starting, playing, over; browser: voices, queued,      *)
(* speaking, over.                                                         *)
(***************************************************************************)
NewNarration == [azure |-> "none", browser |-> "none", cancelled |-> FALSE, started |-> FALSE]

NarrationInit ==
    /\ narrator \in Narrators
    /\ voice = [speaking |-> FALSE, watchdog |-> FALSE, generation |-> Nobody,
                session |-> Nobody, gone |-> FALSE]
    /\ sound = [narrations |-> <<>>, element |-> Nobody, playing |-> FALSE,
                generation |-> Nobody, utterance |-> Nobody, audible |-> FALSE]

Narration(id) == sound.narrations[id]

-----------------------------------------------------------------------------
(***************************************************************************)
(* The callbacks of the hook.                                              *)
(***************************************************************************)
Settle(v) == [v EXCEPT !.speaking = FALSE, !.watchdog = FALSE, !.session = Nobody]

OnStart(id) == IF voice.generation = id THEN [voice EXCEPT !.watchdog = FALSE] ELSE voice

OnOver(v, id) == IF v.generation = id THEN Settle(v) ELSE v

-----------------------------------------------------------------------------
(***************************************************************************)
(* Silencing: the element is paused and its callbacks are taken off; the   *)
(* browser's queue is emptied.                                             *)
(***************************************************************************)
Paused(s) == [s EXCEPT !.element = Nobody, !.playing = FALSE]

Emptied(s) == [s EXCEPT !.utterance = Nobody, !.audible = FALSE]

\* Variant: a fallback that has begun is left to go on.
SilencedPrimary(s, id) == Paused([s EXCEPT !.narrations[id].cancelled = TRUE])

Silenced(s, id) ==
    LET azure == [s EXCEPT !.narrations[id].cancelled = TRUE]
        primary == IF azure.narrations[id].azure = "none" THEN azure ELSE Paused(azure)
    IN  IF primary.narrations[id].browser = "none" THEN primary ELSE Emptied(primary)

CancelSession == IF voice.session = Nobody THEN sound ELSE Silenced(sound, voice.session)

(***************************************************************************)
(* browserSpeechOutput.speak: cancels what the browser was saying, and     *)
(* speaks at once, when the voices have loaded, or not at all.             *)
(***************************************************************************)
InBrowser(s, id, outcome) ==
    LET next == [Emptied(s) EXCEPT !.generation = id, !.narrations[id].browser = outcome]
    IN  IF outcome = "queued" THEN [next EXCEPT !.utterance = id] ELSE next

SpeakInBrowser(v, s, id) ==
    \E outcome \in {"queued", "voices", "over"} :
        /\ sound' = InBrowser(s, id, outcome)
        /\ voice' = IF outcome = "over" THEN OnOver(v, id) ELSE v

(***************************************************************************)
(* onError of the primary: one fallback for each narration.                *)
(***************************************************************************)
FallBack(s, id) ==
    IF s.narrations[id].cancelled \/ s.narrations[id].browser # "none"
    THEN sound' = s /\ UNCHANGED voice
    ELSE SpeakInBrowser(voice, s, id)

-----------------------------------------------------------------------------
(***************************************************************************)
(* The hook: speak, cancel, its watchdog, unmounting.                      *)
(***************************************************************************)
Speak ==
    /\ ~voice.gone
    /\ Len(sound.narrations) < Questions
    /\ LET id == Len(sound.narrations) + 1
           before == CancelSession
           fresh == [before EXCEPT !.narrations = Append(@, NewNarration)]
           v == [voice EXCEPT !.speaking = TRUE, !.watchdog = TRUE,
                              !.generation = id, !.session = id]
       IN  IF narrator = "azure"
           THEN /\ sound' = [Paused(fresh) EXCEPT !.narrations[id].azure = "fetching"]
                /\ voice' = v
           ELSE SpeakInBrowser(v, fresh, id)
    /\ UNCHANGED narrator

Cancel ==
    /\ sound' = CancelSession
    /\ voice' = [Settle(voice) EXCEPT !.generation = Nobody]
    /\ UNCHANGED narrator

CancelNarration == ~voice.gone /\ Cancel

Watchdog == voice.watchdog /\ Cancel

LeaveNarration ==
    /\ ~voice.gone
    /\ sound' = Paused(Emptied(CancelSession))
    /\ voice' = [voice EXCEPT !.generation = Nobody, !.watchdog = FALSE, !.gone = TRUE]
    /\ UNCHANGED narrator

-----------------------------------------------------------------------------
(***************************************************************************)
(* Azure: the audio arrives or not, playback is allowed or not, and ends   *)
(* or breaks off.                                                          *)
(***************************************************************************)
Synthesised(id) ==
    /\ Narration(id).azure = "fetching"
    /\ sound' = IF Narration(id).cancelled
                THEN [sound EXCEPT !.narrations[id].azure = "over"]
                ELSE [sound EXCEPT !.narrations[id].azure = "starting", !.element = id]
    /\ UNCHANGED <<narrator, voice>>

SynthesisFails(id) ==
    /\ Narration(id).azure = "fetching"
    /\ FallBack([sound EXCEPT !.narrations[id].azure = "over"], id)
    /\ UNCHANGED narrator

PlayStarts(id) ==
    /\ Narration(id).azure = "starting"
    /\ IF Narration(id).cancelled
       THEN /\ sound' = [sound EXCEPT !.narrations[id].azure = "over"]
            /\ UNCHANGED voice
       ELSE /\ sound' = [sound EXCEPT !.narrations[id].azure = "playing",
                                      !.narrations[id].started = TRUE, !.playing = TRUE]
            /\ voice' = OnStart(id)
    /\ UNCHANGED narrator

PlayBreaksOff(id) ==
    /\ sound.element = id
    /\ Narration(id).azure \in {"starting", "playing"}
    /\ FallBack([sound EXCEPT !.narrations[id].azure = "over", !.playing = FALSE], id)
    /\ UNCHANGED narrator

PlayEnds(id) ==
    /\ sound.element = id
    /\ Narration(id).azure = "playing"
    /\ sound' = [sound EXCEPT !.narrations[id].azure = "over", !.playing = FALSE]
    /\ voice' = OnOver(voice, id)
    /\ UNCHANGED narrator

-----------------------------------------------------------------------------
(***************************************************************************)
(* The browser.  An utterance it drops simply stays queued.                *)
(***************************************************************************)
Counts(id) == ~Narration(id).cancelled /\ sound.generation = id

VoicesLoaded(id) ==
    /\ Narration(id).browser = "voices"
    /\ sound' = IF Counts(id) THEN InBrowser(sound, id, "queued")
                ELSE [sound EXCEPT !.narrations[id].browser = "over"]
    /\ UNCHANGED <<narrator, voice>>

UtteranceStarts(id) ==
    /\ sound.utterance = id
    /\ Narration(id).browser = "queued"
    /\ sound' = [sound EXCEPT !.narrations[id].browser = "speaking", !.audible = TRUE]
    /\ voice' = IF Counts(id) THEN OnStart(id) ELSE voice
    /\ UNCHANGED narrator

UtteranceOver(id) ==
    /\ sound.utterance = id
    /\ sound' = [Emptied(sound) EXCEPT !.narrations[id].browser = "over"]
    /\ voice' = IF Counts(id) THEN OnOver(voice, id) ELSE voice
    /\ UNCHANGED narrator

NarrationNext ==
    \/ Speak
    \/ CancelNarration
    \/ Watchdog
    \/ LeaveNarration
    \/ \E id \in DOMAIN sound.narrations :
          \/ Synthesised(id)
          \/ SynthesisFails(id)
          \/ PlayStarts(id)
          \/ PlayBreaksOff(id)
          \/ PlayEnds(id)
          \/ VoicesLoaded(id)
          \/ UtteranceStarts(id)
          \/ UtteranceOver(id)

NarrationSpec == NarrationInit /\ [][NarrationNext]_narrationVars

-----------------------------------------------------------------------------
(***************************************************************************)
(* One voice at a time, and it is the present question's: nothing is heard *)
(* of a narration that was replaced, cancelled or left, and the page says  *)
(* that the interviewer is speaking while it is.  And it never goes on     *)
(* saying so: something is heard, or the watchdog is armed - unless Azure  *)
(* broke off in the middle, for then the fallback is without a watchdog.   *)
(***************************************************************************)
NarrationIsTheQuestions ==
    LET heard == {id \in DOMAIN sound.narrations :
                    \/ sound.playing /\ sound.element = id
                    \/ sound.audible /\ sound.utterance = id}
    IN  /\ ~(sound.playing /\ sound.audible)
        /\ heard # {} => ~voice.gone /\ voice.speaking /\ heard = {voice.generation}
        /\ voice.speaking /\ ~voice.gone =>
              \/ voice.watchdog
              \/ heard # {}
              \/ Narration(voice.generation).started
=============================================================================
