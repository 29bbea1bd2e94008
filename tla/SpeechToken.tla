------------------------------ MODULE SpeechToken ------------------------------
(***************************************************************************)
(* The Azure credentials the candidate's page speaks and listens with:     *)
(* issued for one interview (api/routes/speech.py,                         *)
(* services/speech_token.py), kept by the page for its next narrations     *)
(* (speech/azureSpeechOutput.ts), asked for anew by every press of the     *)
(* microphone (speech/azureSpeech.ts).                                     *)
(*                                                                         *)
(* Time is in minutes.  The server and the page have clocks of their own,  *)
(* but only tell each other durations: one clock, read by both, is enough. *)
(***************************************************************************)
EXTENDS Integers

CONSTANTS Interviews,
          Calls,          \* requests for a token, one record each
          Nothing,
          Modes,          \* AZURE_SPEECH_AUTH: "managed_identity", "key"
          KeyLife,        \* Azure's life of a token got with the resource key
          TokenLifetime,  \* what the page is told of it
          Margin,         \* the minute the server takes off an Entra token's life,
                          \* and the page off whatever it is told
          Delay,          \* bound: minutes from the issue of a token to its arrival
          MaxLife,        \* bound: life left to an Entra token
          MaxClock        \* bound: minutes

ASSUME TokenAssumption ==
    /\ Nothing \notin Interviews \cup Calls
    /\ {KeyLife, TokenLifetime, Margin, Delay, MaxLife, MaxClock} \subseteq Nat
    /\ TokenLifetime > 0
    /\ TokenLifetime + Margin <= KeyLife
    /\ Delay <= Margin
    /\ Margin > 0

VARIABLES clock,
          mode,
          completed,    \* interviews that are over
          entra,        \* the process' EntraTokenProvider
          calls,
          tab,          \* the page: the interview shown, the narration awaiting its token
          cached,       \* the token kept by the page
          connection    \* the last one opened to Azure: the token's interview, the
                        \* one it was opened for, and what was left of the token

tokenVars == <<clock, mode, completed, entra, calls, tab, cached, connection>>

NoCall == [at |-> "idle"]

TokenInit ==
    /\ clock = 0
    /\ mode \in Modes
    /\ completed = {}
    /\ entra = [credential |-> FALSE, lock |-> Nothing]
    /\ calls = [c \in Calls |-> NoCall]
    /\ tab \in [interview : Interviews, narration : {Nothing}]
    /\ cached = Nothing
    /\ connection = Nothing

-----------------------------------------------------------------------------
(***************************************************************************)
(* The page.                                                               *)
(***************************************************************************)
Token(interview, expires) == [interview |-> interview, expires |-> expires]

Open(token, i) ==
    connection' = [interview |-> token.interview, for |-> i, left |-> token.expires - clock]

\* Variant: the page trusts what it is told to the minute.
RetirementAsTold(told) == clock + told

Retirement(told) == clock + (IF told > Margin THEN told - Margin ELSE 0)

Reusable == /\ cached # Nothing
            /\ cached.token.interview = tab.interview
            /\ clock < cached.until

Ask(c, kind) ==
    /\ calls[c].at = "idle"
    /\ calls' = [calls EXCEPT ![c] = [at |-> "waiting", kind |-> kind,
                                      interview |-> tab.interview]]

(***************************************************************************)
(* A narration replaces the one before it, whose signal is aborted.        *)
(***************************************************************************)
Narrate(c) ==
    /\ IF Reusable
       THEN Open(cached.token, tab.interview) /\ tab' = [tab EXCEPT !.narration = Nothing] /\ UNCHANGED calls
       ELSE Ask(c, "voice") /\ tab' = [tab EXCEPT !.narration = c] /\ UNCHANGED connection
    /\ UNCHANGED <<clock, mode, completed, entra, cached>>

PressMicrophoneFor(c) ==
    /\ Ask(c, "microphone")
    /\ UNCHANGED <<clock, mode, completed, entra, tab, cached, connection>>

AbortNarration ==
    /\ tab.narration # Nothing
    /\ tab' = [tab EXCEPT !.narration = Nothing]
    /\ UNCHANGED <<clock, mode, completed, entra, calls, cached, connection>>

ShowInterview(i) ==
    /\ tab' = [interview |-> i, narration |-> Nothing]
    /\ UNCHANGED <<clock, mode, completed, entra, calls, cached, connection>>

(***************************************************************************)
(* clearSpeechTokenCache: the narration of the page, and no aborted one,   *)
(* found no token or no voice.                                             *)
(***************************************************************************)
SynthesisRejected ==
    /\ connection # Nothing
    /\ cached' = Nothing
    /\ UNCHANGED <<clock, mode, completed, entra, calls, tab, connection>>

(***************************************************************************)
(* credentialsFor caches the token even for a narration aborted meanwhile; *)
(* only then is the signal looked at.                                      *)
(***************************************************************************)
Arrive(c) ==
    /\ calls[c].at = "issued"
    /\ LET token == calls[c].token
           wanted == calls[c].kind = "microphone" \/ tab.narration = c
       IN  /\ IF wanted THEN Open(token, calls[c].interview) ELSE UNCHANGED connection
           /\ cached' = IF calls[c].kind = "voice"
                        THEN [token |-> token, until |-> Retirement(calls[c].told)]
                        ELSE cached
    /\ tab' = IF tab.narration = c THEN [tab EXCEPT !.narration = Nothing] ELSE tab
    /\ calls' = [calls EXCEPT ![c] = NoCall]
    /\ UNCHANGED <<clock, mode, completed, entra>>

-----------------------------------------------------------------------------
(***************************************************************************)
(* The route.  Completion takes the interview's lock, as the issue of a    *)
(* token does, so it finds no call inside.                                 *)
(***************************************************************************)
Inside(i) == {c \in Calls : calls[c].at \in {"inside", "entra"} /\ calls[c].interview = i}

(***************************************************************************)
(* The end of a call without a token: 409, 429, 503, the deadline, a lost  *)
(* reply.  The locks are released on the way out.                          *)
(***************************************************************************)
Fails(c) ==
    /\ calls' = [calls EXCEPT ![c] = NoCall]
    /\ entra' = IF entra.lock = c THEN [entra EXCEPT !.lock = Nothing] ELSE entra
    /\ cached' = IF tab.narration = c THEN Nothing ELSE cached
    /\ tab' = IF tab.narration = c THEN [tab EXCEPT !.narration = Nothing] ELSE tab
    /\ UNCHANGED <<clock, mode, completed, connection>>

FailsAnywhere(c) == calls[c].at # "idle" /\ Fails(c)

Enter(c) ==
    /\ calls[c].at = "waiting"
    /\ Inside(calls[c].interview) = {}
    /\ IF calls[c].interview \in completed
       THEN Fails(c)
       ELSE /\ calls' = [calls EXCEPT ![c].at = "inside"]
            /\ UNCHANGED <<clock, mode, completed, entra, tab, cached, connection>>

(***************************************************************************)
(* The reply, told the life the page may assume.                           *)
(***************************************************************************)
Issue(c, expires, told) ==
    /\ calls' = [calls EXCEPT ![c] = [at |-> "issued", kind |-> calls[c].kind,
                    interview |-> calls[c].interview, told |-> told, since |-> clock,
                    token |-> Token(calls[c].interview, expires)]]
    /\ UNCHANGED <<clock, mode, completed, tab, cached, connection>>

ExchangeKey(c) ==
    /\ mode = "key"
    /\ calls[c].at = "inside"
    /\ Issue(c, clock + KeyLife, TokenLifetime)
    /\ UNCHANGED entra

AcquireEntra(c) ==
    /\ mode = "managed_identity"
    /\ calls[c].at = "inside"
    /\ entra.lock = Nothing
    /\ entra' = [entra EXCEPT !.lock = c]
    /\ calls' = [calls EXCEPT ![c].at = "entra"]
    /\ UNCHANGED <<clock, mode, completed, tab, cached, connection>>

BuildCredential(c) ==
    /\ calls[c].at = "entra"
    /\ ~entra.credential
    /\ entra' = [entra EXCEPT !.credential = TRUE]
    /\ UNCHANGED <<clock, mode, completed, calls, tab, cached, connection>>

(***************************************************************************)
(* The credential answers from its own cache, so the life left is any.     *)
(***************************************************************************)
GetToken(c) ==
    /\ calls[c].at = "entra"
    /\ entra.credential
    /\ \E left \in 0..MaxLife :
          IF left <= Margin
          THEN Fails(c)
          ELSE /\ Issue(c, clock + left, left - Margin)
               /\ entra' = [entra EXCEPT !.lock = Nothing]

Complete(i) ==
    /\ Inside(i) = {}
    /\ completed' = completed \cup {i}
    /\ UNCHANGED <<clock, mode, entra, calls, tab, cached, connection>>

(***************************************************************************)
(* aclose, once no request is left.                                        *)
(***************************************************************************)
CloseCredential ==
    /\ \A c \in Calls : calls[c].at \in {"idle", "issued"}
    /\ entra' = [entra EXCEPT !.credential = FALSE]
    /\ UNCHANGED <<clock, mode, completed, calls, tab, cached, connection>>

Tick ==
    /\ clock < MaxClock
    /\ \A c \in Calls : calls[c].at = "issued" => clock < calls[c].since + Delay
    /\ clock' = clock + 1
    /\ UNCHANGED <<mode, completed, entra, calls, tab, cached, connection>>

TokenNext ==
    \/ \E c \in Calls :
          \/ Narrate(c)
          \/ PressMicrophoneFor(c)
          \/ Arrive(c)
          \/ Enter(c)
          \/ ExchangeKey(c)
          \/ AcquireEntra(c)
          \/ BuildCredential(c)
          \/ GetToken(c)
          \/ FailsAnywhere(c)
    \/ \E i \in Interviews : ShowInterview(i) \/ Complete(i)
    \/ AbortNarration
    \/ SynthesisRejected
    \/ CloseCredential
    \/ Tick

TokenSpec == TokenInit /\ [][TokenNext]_tokenVars

-----------------------------------------------------------------------------
(***************************************************************************)
(* A token is issued only while its interview goes on, whoever completes   *)
(* it meanwhile, and serves that interview alone: every connection is      *)
(* opened with a token of the interview it is opened for that is not       *)
(* expired, and the page lets go of a token before Azure does - although   *)
(* it counts the life it was told from the arrival of the reply, and keeps *)
(* the tokens of narrations that were replaced, cancelled or left.         *)
(***************************************************************************)
TokensServeTheInterview ==
    /\ \A i \in completed : Inside(i) = {}
    /\ connection # Nothing => connection.interview = connection.for /\ connection.left > 0
    /\ cached # Nothing => cached.until < cached.token.expires
=============================================================================
