--------------------------- MODULE StagePageProofs ---------------------------
(***************************************************************************)
(* For any number of recognizer sessions, utterances, words typed and      *)
(* answers, and for either provider: at most one recognizer holds the      *)
(* microphone, it is the one the hook can stop, and while the candidate    *)
(* wants to be heard one is open, opening or about to be opened again.     *)
(*                                                                         *)
(* The argument.  A session is only taken while its epoch is the hook's,   *)
(* and whatever gives the epoch up - a new session, a stop, a collector    *)
(* served, leaving the page - has stopped the session that had it          *)
(* (Settled).  So a session that opens late, ends twice or goes on         *)
(* talking finds an epoch that is not its own.                             *)
(*                                                                         *)
(* The words, next: none is lost, and none is sent twice (WordsOnce).  The *)
(* page hears a word from the one session it listens to.  It has got       *)
(* nowhere while that session still hears it (Fresh), and what is shown as *)
(* being heard is what that session hears (Heeded), so that a final adds   *)
(* what is not there yet.  Who collects takes it out of the hook and       *)
(* retires the epoch; what is sent is in the box until it is known to be   *)
(* recorded (Submitted).  Only a session that the hook listens to and      *)
(* cannot stop escapes this (Unattended): those are the spared ones.       *)
(*                                                                         *)
(* Further below, the voice that reads the questions - of all narrations   *)
(* only the one the hook can cancel is neither cancelled nor at its end    *)
(* (OneLive) - and the credentials of both: whatever token is kept or      *)
(* used was told to last a minute less than it does, and no answer is      *)
(* longer than that minute under way (Retires, OnItsWay).                  *)
(***************************************************************************)
EXTENDS StagePage, Narration, SpeechToken, TLAPS

States == {"opening", "open", "stopping", "closed", "lost"}
Session == [state: States, ended: BOOLEAN, hearing: Int, said: SUBSET Int, spared: BOOLEAN]

\* The fields of the hook that count here.
Shaped(h) ==
  /\ {"wanted", "current", "epoch", "retry", "collecting"} \subseteq DOMAIN h
  /\ h.wanted \in BOOLEAN /\ h.retry \in BOOLEAN /\ h.collecting \in BOOLEAN

\* g is h for the microphone.
Same(g, h) ==
  /\ Shaped(g)
  /\ g.wanted = h.wanted /\ g.retry = h.retry /\ g.collecting = h.collecting
  /\ g.current = h.current /\ g.epoch = h.epoch

\* The hook h, the recognizers s and whether the page is left fit together.
Settled(h, s, left) ==
  /\ h.epoch \in 0..Len(s) /\ h.current \in 0..Len(s)
  /\ \A id \in 1..Len(s) : s[id].state = "open" => h.current = id /\ h.epoch = id
  /\ h.current # 0 => s[h.current].state # "opening" /\ (h.current = h.epoch \/ left)
  /\ h.retry => h.wanted /\ h.current = 0 /\ h.epoch = 0
  /\ h.wanted => \/ h.retry \/ h.current # 0
                 \/ h.epoch # 0 /\ s[h.epoch].state = "opening"
  /\ h.collecting => ~ h.wanted /\ h.current # 0 /\ s[h.current].state # "open"
  /\ left => ~ h.wanted /\ ~ h.collecting /\ h.epoch = 0

IInv ==
  /\ said \in Int
  /\ sessions \in Seq(Session)
  /\ Shaped(hook)
  /\ "left" \in DOMAIN page /\ page.left \in BOOLEAN
  /\ Settled(hook, sessions, page.left)

----------------------------------------------------------------------------
(* What the hook's operators do to these fields.                           *)

LEMMA RetiredFields ==
  ASSUME NEW STATE h, Shaped(h)
  PROVE  LET g == Retired(h)
         IN  /\ Shaped(g)
             /\ g.epoch = 0 /\ g.current = 0
             /\ g.wanted = h.wanted /\ g.retry = h.retry /\ g.collecting = h.collecting
BY DEF Shaped, Retired, None

LEMMA AfterEndFields ==
  ASSUME NEW STATE h, Shaped(h)
  PROVE  LET g == AfterEnd(h)
         IN  /\ Shaped(g)
             /\ g.epoch = h.epoch /\ g.current = h.current /\ g.collecting = h.collecting
             /\ g.wanted => g.retry
             /\ g.retry => h.retry \/ g.wanted
<1>1. CASE ~ h.wanted
  <2>1. AfterEnd(h) = [h EXCEPT !.status = Quiet(@)]
    BY <1>1 DEF AfterEnd, Shaped
  <2> QED BY <1>1, <2>1 DEF Shaped
<1>2. CASE h.wanted /\ h.restarts >= MaxSilentRestarts
  <2>1. AfterEnd(h) = [h EXCEPT !.wanted = FALSE, !.status = "unavailable"]
    BY <1>2 DEF AfterEnd, Shaped
  <2> QED BY <2>1 DEF Shaped
<1>3. CASE h.wanted /\ ~ (h.restarts >= MaxSilentRestarts)
  <2>1. AfterEnd(h) = [h EXCEPT !.restarts = @ + 1, !.retry = TRUE, !.status = "restarting"]
    BY <1>3 DEF AfterEnd, Shaped
  <2> QED BY <1>3, <2>1 DEF Shaped
<1> QED BY <1>1, <1>2, <1>3 DEF Shaped

LEMMA OnErrorFields ==
  ASSUME NEW id, NEW fatal, Shaped(hook)
  PROVE  LET g == OnError(id, fatal)
         IN  /\ Shaped(g)
             /\ g.epoch = hook.epoch /\ g.current = hook.current
             /\ g.retry = hook.retry /\ g.collecting = hook.collecting
             /\ g.wanted => hook.wanted
             /\ ~ IsCurrent(id) => g = hook
BY DEF OnError, Shaped, IsCurrent

\* A session told to stop is not open.
LEMMA StopFields ==
  ASSUME NEW x \in Session
  PROVE  /\ Stop(x) \in Session /\ Stop(x).state # "open"
         /\ x.state # "opening" => Stop(x).state # "opening"
         /\ x.state # "open" => Stop(x) = x
BY DEF Stop, Session, States

LEMMA StopSessionFields ==
  ASSUME NEW STATE s, s \in Seq(Session), NEW STATE c, c \in 0..Len(s)
  PROVE  LET z == StopSession(s, c)
         IN  /\ z \in Seq(Session) /\ Len(z) = Len(s)
             /\ \A id \in 1..Len(s) : z[id] = IF id = c THEN Stop(s[id]) ELSE s[id]
<1>1. CASE c = 0
  BY <1>1 DEF StopSession, None
<1>2. CASE c # 0
  <2>1. c \in 1..Len(s) /\ s[c] \in Session
    BY <1>2
  <2>2. StopSession(s, c) = [s EXCEPT ![c] = Stop(s[c])]
    BY <1>2 DEF StopSession, None
  <2>3. Stop(s[c]) \in Session
    BY <2>1, StopFields
  <2> QED BY <2>1, <2>2, <2>3
<1> QED BY <1>1, <1>2

LEMMA OneSession ==
  ASSUME NEW STATE s, s \in Seq(Session), NEW id \in 1..Len(s), NEW STATE x, x \in Session
  PROVE  LET z == [s EXCEPT ![id] = x]
         IN  /\ z \in Seq(Session) /\ Len(z) = Len(s)
             /\ \A i \in 1..Len(s) : z[i] = IF i = id THEN x ELSE s[i]
OBVIOUS

----------------------------------------------------------------------------
(* The three ways in which a step leaves hook and recognizers fitting.     *)

\* A session no longer of interest changes, or one that the hook listens to
\* goes on as it was.
LEMMA StaysSettled ==
  ASSUME IInv, Same(hook', hook), page'.left = page.left,
         Len(sessions') = Len(sessions),
         \A x \in 1..Len(sessions) :
            \/ sessions'[x].state = sessions[x].state
            \/ /\ sessions'[x].state \notin {"open", "opening"}
               /\ \/ sessions[x].state # "opening"
                  \/ x # hook.epoch
                  \/ ~ hook.wanted
  PROVE  Settled(hook', sessions', page'.left)
<1>1. /\ hook.epoch \in 0..Len(sessions) /\ hook.current \in 0..Len(sessions)
      /\ Len(sessions) \in Nat
  BY DEF IInv, Settled
<1>2. \A x \in 1..Len(sessions) : sessions'[x].state = "open" => sessions[x].state = "open"
  OBVIOUS
<1>3. \A x \in 1..Len(sessions) : sessions'[x].state = "opening" => sessions[x].state = "opening"
  OBVIOUS
<1>4. hook.wanted /\ hook.epoch # 0 /\ sessions[hook.epoch].state = "opening"
        => sessions'[hook.epoch].state = "opening"
  BY <1>1
<1> QED BY <1>1, <1>2, <1>3, <1>4 DEF IInv, Settled, Same

\* The epoch is given up, with nothing open.
LEMMA SilencesOpen ==
  ASSUME IInv, Len(sessions') \in Nat,
         \A x \in 1..Len(sessions') : sessions'[x].state # "open",
         hook'.epoch = 0, hook'.current = 0, ~ hook'.collecting,
         hook'.wanted <=> hook'.retry, page'.left => ~ hook'.wanted
  PROVE  Settled(hook', sessions', page'.left)
BY DEF Settled

\* Only the session the hook can stop may be open.
LEMMA OnlyCurrentOpen ==
  ASSUME IInv
  PROVE  /\ \A x \in 1..Len(sessions) : x # hook.current => sessions[x].state # "open"
         /\ \A x \in 1..Len(sessions) : x # hook.epoch => sessions[x].state # "open"
         /\ hook.collecting => \A x \in 1..Len(sessions) : sessions[x].state # "open"
BY DEF IInv, Settled

----------------------------------------------------------------------------
(* The recognizers' callbacks.                                             *)

\* A step of the hook alone leaves the page where it is.
Rest == said' \in Int /\ page' = page

LEMMA FinishKeeps ==
  ASSUME IInv, NEW STATE h, Shaped(h), h.wanted => hook.wanted, h.retry = hook.retry,
         hook.collecting, NEW word, FinishCollecting(h, word), Rest,
         sessions' \in Seq(Session), Len(sessions') = Len(sessions),
         \A x \in 1..Len(sessions) : sessions'[x].state = "open" => sessions[x].state = "open"
  PROVE  IInv'
<1>1. /\ Shaped(hook') /\ hook'.epoch = 0 /\ hook'.current = 0 /\ ~ hook'.collecting
      /\ hook'.wanted = h.wanted /\ hook'.retry = h.retry
  BY DEF FinishCollecting, Shaped, None
<1>2. ~ hook.wanted /\ ~ hook.retry
  BY DEF IInv, Settled
<1>3. \A x \in 1..Len(sessions') : sessions'[x].state # "open"
  BY OnlyCurrentOpen
<1>4. Len(sessions') \in Nat
  BY DEF IInv
<1>5. Settled(hook', sessions', page'.left)
  BY <1>1, <1>2, <1>3, <1>4, SilencesOpen DEF Shaped
<1> QED BY <1>1, <1>5 DEF IInv, Rest

\* Words heard leave what the session is.
LEMMA HearsFields ==
  ASSUME IInv, NEW id \in Ids, NEW hearing \in Int, Hears(id, hearing)
  PROVE  /\ said' \in Int /\ Heard(id) \in Int
         /\ sessions' \in Seq(Session) /\ Len(sessions') = Len(sessions)
         /\ \A x \in 1..Len(sessions) : sessions'[x].state = sessions[x].state
<1>1. id \in 1..Len(sessions) /\ sessions[id] \in Session /\ sessions \in Seq(Session)
  BY DEF IInv, Ids
<1>2. Heard(id) \in Int /\ said' \in Int
  BY <1>1 DEF Heard, Session, IInv, Hears
<1> DEFINE x == [sessions[id] EXCEPT !.hearing = hearing, !.said = @ \cup {Heard(id)}]
<1>3. x \in Session /\ x.state = sessions[id].state
  BY <1>1, <1>2 DEF Session
<1>4. sessions' = [sessions EXCEPT ![id] = x]
  BY <1>1 DEF Hears
<1> HIDE DEF x
<1>5. /\ sessions' \in Seq(Session) /\ Len(sessions') = Len(sessions)
      /\ \A i \in 1..Len(sessions) : sessions'[i] = IF i = id THEN x ELSE sessions[i]
  BY <1>1, <1>3, <1>4, OneSession
<1> QED BY <1>2, <1>3, <1>5

LEMMA HearingKeeps ==
  ASSUME IInv, NEW id \in Ids, Recognizing(id) \/ Recognized(id), page' = page
  PROVE  IInv'
<1>1. CASE Recognizing(id)
  <2>0. id \in 1..Len(sessions) /\ sessions[id] \in Session
    BY DEF IInv, Ids
  <2>1. Heard(id) \in Int
    BY <2>0 DEF IInv, Heard, Session
  <2>2. /\ Rest /\ sessions' \in Seq(Session) /\ Len(sessions') = Len(sessions)
        /\ \A x \in 1..Len(sessions) : sessions'[x].state = sessions[x].state
    BY <1>1, <2>1, HearsFields DEF Recognizing, Rest
  <2>3. Same(hook', hook)
    BY <1>1 DEF Recognizing, OnPartial, Same, IInv, Shaped
  <2>4. Settled(hook', sessions', page'.left)
    BY <2>2, <2>3, StaysSettled DEF Rest
  <2> QED BY <2>2, <2>3, <2>4 DEF IInv, Same, Rest
<1>2. CASE Recognized(id)
  <2>1. None \in Int
    BY DEF None
  <2>2. /\ Rest /\ sessions' \in Seq(Session) /\ Len(sessions') = Len(sessions)
        /\ \A x \in 1..Len(sessions) : sessions'[x].state = sessions[x].state
    BY <1>2, <2>1, HearsFields DEF Recognized, Rest
  <2>3. CASE IsCurrent(id) /\ hook.collecting
    <3>1. FinishCollecting(hook, Heard(id))
      BY <1>2, <2>3 DEF Recognized, OnFinal
    <3> QED BY <2>2, <2>3, <3>1, FinishKeeps DEF IInv
  <2>4. CASE ~ (IsCurrent(id) /\ hook.collecting)
    <3>1. Same(hook', hook)
      BY <1>2, <2>4 DEF Recognized, OnFinal, Same, IInv, Shaped
    <3>2. Settled(hook', sessions', page'.left)
      BY <2>2, <3>1, StaysSettled DEF Rest
    <3> QED BY <2>2, <3>1, <3>2 DEF IInv, Same, Rest
  <2> QED BY <2>3, <2>4
<1> QED BY <1>1, <1>2

\* The hook hears that a session has ended.
LEMMA EndKeeps ==
  ASSUME IInv, NEW id \in Ids, NEW STATE h, Shaped(h),
         h.epoch = hook.epoch, h.current = hook.current, h.retry = hook.retry,
         h.collecting = hook.collecting, h.wanted => hook.wanted,
         ~ IsCurrent(id) => h = hook,
         OnEnd(id, h), Rest,
         sessions' \in Seq(Session), Len(sessions') = Len(sessions),
         \A x \in 1..Len(sessions) :
            /\ x # id => sessions'[x] = sessions[x]
            /\ x = id => \/ sessions'[x].state \notin {"open", "opening"}
                         \/ sessions[x].state = "opening" /\ sessions'[x].state = "opening"
  PROVE  IInv'
<1>1. id \in 1..Len(sessions) /\ id # 0
  BY DEF IInv, Ids
<1>2. CASE ~ IsCurrent(id)
  <2>1. hook' = hook
    BY <1>2 DEF OnEnd
  <2>2. id # hook.epoch
    BY <1>2 DEF IsCurrent
  <2>3. Same(hook', hook)
    BY <2>1 DEF Same, IInv
  <2>4. Settled(hook', sessions', page'.left)
    BY <2>2, <2>3, StaysSettled DEF Rest
  <2> QED BY <2>1, <2>4 DEF IInv, Rest
<1>3. CASE IsCurrent(id) /\ h.collecting
  <2>1. FinishCollecting(h, h.partial)
    BY <1>3 DEF OnEnd
  <2>2. \A x \in 1..Len(sessions) : sessions'[x].state = "open" => sessions[x].state = "open"
    OBVIOUS
  <2> QED BY <1>3, <2>1, <2>2, FinishKeeps
<1>4. CASE IsCurrent(id) /\ ~ h.collecting
  <2>1. hook' = AfterEnd(Retired(h))
    BY <1>4 DEF OnEnd
  <2> DEFINE r == Retired(h)
  <2>2. /\ Shaped(r) /\ r.epoch = 0 /\ r.current = 0
        /\ r.wanted = h.wanted /\ r.retry = h.retry /\ r.collecting = h.collecting
    BY RetiredFields
  <2> HIDE DEF r
  <2>3. ~ hook.retry
    BY <1>1, <1>4 DEF IsCurrent, IInv, Settled
  <2>4. /\ Shaped(hook') /\ hook'.epoch = 0 /\ hook'.current = 0 /\ ~ hook'.collecting
        /\ hook'.wanted <=> hook'.retry
    BY <1>4, <2>1, <2>2, <2>3, AfterEndFields DEF Shaped, r
  <2>5. \A x \in 1..Len(sessions') : sessions'[x].state # "open"
    BY <1>4, OnlyCurrentOpen DEF IsCurrent
  <2>6. ~ page.left
    BY <1>1, <1>4 DEF IsCurrent, IInv, Settled
  <2>7. Settled(hook', sessions', page'.left)
    BY <2>4, <2>5, <2>6, SilencesOpen DEF Rest, IInv
  <2> QED BY <2>4, <2>7 DEF IInv, Rest
<1> QED BY <1>2, <1>3, <1>4

\* A session ends, and the hook is told.
LEMMA EndedFields ==
  ASSUME NEW x \in Session
  PROVE  /\ Ended(x) \in Session
         /\ Ended(x).state = IF x.state = "opening" THEN "opening" ELSE "closed"
<1>1. Ended(x) = [x EXCEPT !.ended = TRUE, !.hearing = 0,
                            !.state = IF x.state = "opening" THEN x.state ELSE "closed"]
  BY DEF Ended, None
<1>2. "closed" \in States /\ 0 \in Int /\ TRUE \in BOOLEAN
  BY DEF States
<1> QED BY <1>1, <1>2 DEF Session

LEMMA EndingKeeps ==
  ASSUME IInv, NEW id \in Ids, page' = page,
         BrowserEnded(id) \/ \E fatal \in BOOLEAN : Canceled(id, fatal)
  PROVE  IInv'
<1>1. id \in 1..Len(sessions) /\ sessions[id] \in Session /\ sessions \in Seq(Session)
  BY DEF IInv, Ids
<1>2. sessions' = [sessions EXCEPT ![id] = Ended(sessions[id])] /\ said' = said
  BY DEF BrowserEnded, Canceled
<1> DEFINE x == Ended(sessions[id])
<1>3. x \in Session /\ x.state = IF sessions[id].state = "opening" THEN "opening" ELSE "closed"
  BY <1>1, EndedFields
<1> HIDE DEF x
<1>4. /\ sessions' \in Seq(Session) /\ Len(sessions') = Len(sessions)
      /\ \A i \in 1..Len(sessions) : sessions'[i] = IF i = id THEN x ELSE sessions[i]
  <2>1. sessions' = [sessions EXCEPT ![id] = x]
    BY <1>2 DEF x
  <2> QED BY <1>1, <1>3, <2>1, OneSession
<1>5. Rest
  BY <1>2 DEF Rest, IInv
<1>6. CASE BrowserEnded(id)
  <2>1. OnEnd(id, hook)
    BY <1>6 DEF BrowserEnded
  <2>2. Shaped(hook)
    BY DEF IInv
  <2> QED BY <1>3, <1>4, <1>5, <2>1, <2>2, EndKeeps
<1>7. ASSUME NEW fatal \in BOOLEAN, Canceled(id, fatal) PROVE IInv'
  <2>1. OnEnd(id, OnError(id, fatal))
    BY <1>7 DEF Canceled
  <2> DEFINE h == OnError(id, fatal)
  <2>2. /\ Shaped(h) /\ h.epoch = hook.epoch /\ h.current = hook.current
        /\ h.retry = hook.retry /\ h.collecting = hook.collecting
        /\ h.wanted => hook.wanted
        /\ ~ IsCurrent(id) => h = hook
    BY OnErrorFields DEF IInv
  <2>3. OnEnd(id, h)
    BY <2>1
  <2> HIDE DEF h
  <2> QED BY <1>3, <1>4, <1>5, <2>2, <2>3, EndKeeps
<1> QED BY <1>6, <1>7

\* The callback of a stop, and a browser's error before its end.
LEMMA LateKeeps ==
  ASSUME IInv, NEW id \in Ids, page' = page, Disposed(id) \/ Erred(id)
  PROVE  IInv'
<1>1. id \in 1..Len(sessions) /\ sessions[id] \in Session /\ sessions \in Seq(Session)
  BY DEF IInv, Ids
<1>2. CASE Disposed(id)
  <2> DEFINE x == [sessions[id] EXCEPT !.state = "closed", !.hearing = 0]
  <2>0. "closed" \in States /\ 0 \in Int
    BY DEF States
  <2>1. x \in Session /\ x.state = "closed"
    BY <1>1, <2>0 DEF Session
  <2>2. sessions' = [sessions EXCEPT ![id] = x] /\ sessions[id].state = "stopping"
    BY <1>1, <1>2 DEF Disposed, None
  <2> HIDE DEF x
  <2>3. /\ sessions' \in Seq(Session) /\ Len(sessions') = Len(sessions)
        /\ \A i \in 1..Len(sessions) : sessions'[i] = IF i = id THEN x ELSE sessions[i]
    BY <1>1, <2>1, <2>2, OneSession
  <2>4. Same(hook', hook) /\ hook' = hook /\ said' = said
    BY <1>2 DEF Disposed, Same, IInv
  <2>5. Settled(hook', sessions', page'.left)
    BY <2>1, <2>2, <2>3, <2>4, StaysSettled
  <2> QED BY <2>3, <2>4, <2>5 DEF IInv
<1>3. CASE Erred(id)
  <2>1. /\ hook' = OnError(id, TRUE) /\ sessions' = sessions /\ said' = said
        /\ id = hook.epoch => ~ hook.retry
    BY <1>1, <1>3 DEF Erred, IInv, Settled
  <2>2. /\ Shaped(hook')
        /\ hook'.epoch = hook.epoch /\ hook'.current = hook.current
        /\ hook'.retry = hook.retry /\ hook'.collecting = hook.collecting
        /\ hook'.wanted => hook.wanted
        /\ id # hook.epoch => hook' = hook
    BY <2>1, OnErrorFields DEF IInv, IsCurrent
  <2>3. Settled(hook', sessions', page'.left)
    BY <2>1, <2>2 DEF Settled, IInv
  <2> QED BY <2>1, <2>2, <2>3 DEF IInv
<1> QED BY <1>2, <1>3

\* start() rejects, or is not waited for any longer.
LEMMA RejectionKeeps ==
  ASSUME IInv, NEW id \in Ids, page' = page, OpenFails(id) \/ OpenTimesOut(id)
  PROVE  IInv'
<1>1. id \in 1..Len(sessions) /\ sessions[id] \in Session /\ sessions \in Seq(Session)
  BY DEF IInv, Ids
<1>2. {"closed", "lost"} \subseteq States
  BY DEF States
<1>3. PICK x \in Session : x.state \in {"closed", "lost"} /\ sessions' = [sessions EXCEPT ![id] = x]
  <2>1. CASE OpenFails(id)
    <3> DEFINE x == [sessions[id] EXCEPT !.state = "closed"]
    <3>1. x \in Session /\ x.state = "closed"
      BY <1>1, <1>2 DEF Session
    <3>2. sessions' = [sessions EXCEPT ![id] = x]
      BY <1>1, <2>1 DEF OpenFails
    <3> QED BY <3>1, <3>2
  <2>2. CASE OpenTimesOut(id)
    <3> DEFINE x == [sessions[id] EXCEPT !.state = "lost", !.spared = TRUE]
    <3>1. x \in Session /\ x.state = "lost"
      BY <1>1, <1>2 DEF Session
    <3>2. sessions' = [sessions EXCEPT ![id] = x]
      BY <1>1, <2>2 DEF OpenTimesOut
    <3> QED BY <3>1, <3>2
  <2> QED BY <2>1, <2>2
<1>4. /\ sessions' \in Seq(Session) /\ Len(sessions') = Len(sessions)
      /\ \A i \in 1..Len(sessions) : sessions'[i] = IF i = id THEN x ELSE sessions[i]
  BY <1>1, <1>3, OneSession
<1>5. Rejected(id) /\ said' = said /\ sessions[id].state = "opening"
  BY DEF OpenFails, OpenTimesOut
<1>6. CASE IsCurrent(id)
  <2>1. hook' = [hook EXCEPT !.wanted = FALSE, !.current = None, !.status = "unavailable"]
    BY <1>5, <1>6 DEF Rejected
  <2>2. /\ Shaped(hook') /\ ~ hook'.wanted /\ hook'.current = 0
        /\ hook'.epoch = hook.epoch /\ hook'.retry = hook.retry
        /\ hook'.collecting = hook.collecting
    BY <2>1 DEF IInv, Shaped, None
  <2>3. id = hook.epoch
    BY <1>6 DEF IsCurrent
  <2>4. ~ hook.retry /\ ~ hook.collecting
    BY <1>1, <1>5, <2>3 DEF IInv, Settled
  <2>5. \A i \in 1..Len(sessions') : sessions'[i].state # "open"
    BY <1>3, <1>4, <2>3, OnlyCurrentOpen
  <2>6. Settled(hook', sessions', page'.left)
    BY <1>1, <1>4, <2>2, <2>3, <2>4, <2>5 DEF IInv, Settled
  <2> QED BY <1>4, <1>5, <2>2, <2>6 DEF IInv
<1>7. CASE ~ IsCurrent(id)
  <2>1. hook' = hook /\ id # hook.epoch
    BY <1>5, <1>7 DEF Rejected, IsCurrent
  <2>2. Same(hook', hook)
    BY <2>1 DEF Same, IInv
  <2>3. Settled(hook', sessions', page'.left)
    BY <1>3, <1>4, <2>1, <2>2, StaysSettled
  <2> QED BY <1>4, <1>5, <2>1, <2>3 DEF IInv
<1> QED BY <1>6, <1>7

\* start() resolves: the session is taken, or stopped at once.
LEMMA OpenedKeeps ==
  ASSUME IInv, NEW id \in Ids, page' = page, Opened(id)
  PROVE  IInv'
<1>1. id \in 1..Len(sessions) /\ sessions[id] \in Session /\ sessions \in Seq(Session)
  BY DEF IInv, Ids
<1> DEFINE x == [sessions[id] EXCEPT !.state = "open"]
<1>2. x \in Session /\ x.state = "open"
  <2>1. "open" \in States
    BY DEF States
  <2> QED BY <1>1, <2>1 DEF Session
<1>3. said' = said /\ sessions[id].state = "opening"
  BY DEF Opened
<1>4. CASE StillWanted(id)
  <2>1. /\ sessions' = [sessions EXCEPT ![id] = x]
        /\ hook' = [hook EXCEPT !.current = id, !.status = "listening"]
    BY <1>4 DEF Opened
  <2> HIDE DEF x
  <2>2. /\ sessions' \in Seq(Session) /\ Len(sessions') = Len(sessions)
        /\ \A i \in 1..Len(sessions) : sessions'[i] = IF i = id THEN x ELSE sessions[i]
    BY <1>1, <1>2, <2>1, OneSession
  <2>3. /\ Shaped(hook') /\ hook'.current = id /\ hook'.wanted = hook.wanted
        /\ hook'.epoch = hook.epoch /\ hook'.retry = hook.retry
        /\ hook'.collecting = hook.collecting
    BY <2>1 DEF IInv, Shaped
  <2>4. hook.wanted /\ id = hook.epoch /\ id # 0
    BY <1>1, <1>4 DEF StillWanted, IsCurrent
  <2>5. ~ hook.retry /\ ~ hook.collecting /\ ~ page.left
    BY <2>4 DEF IInv, Settled
  <2>6. \A i \in 1..Len(sessions) : i # id => sessions'[i].state # "open"
    BY <2>2, <2>4, OnlyCurrentOpen
  <2>7. Settled(hook', sessions', page'.left)
    BY <1>1, <1>2, <2>2, <2>3, <2>4, <2>5, <2>6 DEF IInv, Settled
  <2> QED BY <1>3, <2>2, <2>3, <2>7 DEF IInv
<1>5. CASE ~ StillWanted(id)
  <2>1. hook' = hook /\ sessions' = [sessions EXCEPT ![id] = Stop(x)]
    BY <1>5 DEF Opened
  <2>2. Stop(x) \in Session /\ Stop(x).state \notin {"open", "opening"}
    BY <1>2, StopFields
  <2> HIDE DEF x
  <2>3. /\ sessions' \in Seq(Session) /\ Len(sessions') = Len(sessions)
        /\ \A i \in 1..Len(sessions) : sessions'[i] = IF i = id THEN Stop(x) ELSE sessions[i]
    BY <1>1, <2>1, <2>2, OneSession
  <2>4. id # hook.epoch \/ ~ hook.wanted
    BY <1>5 DEF StillWanted, IsCurrent
  <2>5. Same(hook', hook)
    BY <2>1 DEF Same, IInv
  <2>6. Settled(hook', sessions', page'.left)
    BY <2>2, <2>3, <2>4, <2>5, StaysSettled
  <2> QED BY <1>3, <2>1, <2>3, <2>6 DEF IInv
<1> QED BY <1>4, <1>5

----------------------------------------------------------------------------
(* What the hook is told to do.                                            *)

\* A new session: whatever had the microphone is stopped first.
LEMMA OpenSessionKeeps ==
  ASSUME IInv, NEW STATE h, Shaped(h), h.wanted, ~ h.retry, ~ h.collecting,
         h.current = hook.current, OpenSession(h), Rest, ~ page.left
  PROVE  IInv'
<1> DEFINE z == StopSession(sessions, h.current)
<1>1. /\ z \in Seq(Session) /\ Len(z) = Len(sessions)
      /\ \A id \in 1..Len(sessions) : z[id] = IF id = h.current THEN Stop(sessions[id])
                                              ELSE sessions[id]
  BY StopSessionFields DEF IInv, Settled
<1>2. \A id \in 1..Len(sessions) : z[id].state # "open"
  <2>1. \A id \in 1..Len(sessions) : sessions[id] \in Session
    BY DEF IInv
  <2> QED BY <1>1, <2>1, StopFields, OnlyCurrentOpen
<1>3. sessions' = Append(z, NewSession)
  BY DEF OpenSession
<1>4. NewSession \in Session /\ NewSession.state = "opening"
  BY DEF NewSession, Session, States, None
<1> HIDE DEF z
<1>5. /\ sessions' \in Seq(Session) /\ Len(sessions') = Len(sessions) + 1
      /\ sessions'[Len(sessions) + 1] = NewSession
      /\ \A id \in 1..Len(sessions) : sessions'[id] = z[id]
      /\ Len(sessions) \in Nat
  BY <1>1, <1>3, <1>4 DEF IInv
<1>6. /\ Shaped(hook') /\ hook'.current = 0 /\ hook'.epoch = Len(sessions) + 1
      /\ hook'.wanted /\ ~ hook'.retry /\ ~ hook'.collecting
  BY DEF OpenSession, Shaped, None
<1>7. \A id \in 1..Len(sessions') : sessions'[id].state # "open"
  BY <1>2, <1>4, <1>5
<1>8. Settled(hook', sessions', page'.left)
  BY <1>4, <1>5, <1>6, <1>7 DEF Settled, Rest
<1> QED BY <1>5, <1>6, <1>8 DEF IInv, Rest

LEMMA RestartKeeps ==
  ASSUME IInv, Restart, page' = page
  PROVE  IInv'
<1> DEFINE h == [hook EXCEPT !.retry = FALSE]
<1>1. hook.retry /\ OpenSession(h) /\ said' = said
  BY DEF Restart
<1>2. hook.wanted /\ ~ hook.collecting /\ ~ page.left
  BY <1>1 DEF IInv, Settled
<1>3. /\ Shaped(h) /\ h.wanted = hook.wanted /\ ~ h.retry
      /\ h.collecting = hook.collecting /\ h.current = hook.current
  BY DEF IInv, Shaped
<1>4. Rest
  BY <1>1 DEF Rest, IInv
<1> HIDE DEF h
<1> QED BY <1>1, <1>2, <1>3, <1>4, OpenSessionKeeps

LEMMA ToggleKeeps ==
  ASSUME IInv, Toggle, page' = page, ~ page.left
  PROVE  IInv'
<1>1. CASE hook.wanted
  <2>1. /\ sessions' = StopSession(sessions, hook.current) /\ said' = said
        /\ hook' = Retired([hook EXCEPT !.wanted = FALSE, !.retry = FALSE, !.status = "idle"])
    BY <1>1 DEF Toggle, StopListening
  <2> DEFINE h == [hook EXCEPT !.wanted = FALSE, !.retry = FALSE, !.status = "idle"]
  <2>2. Shaped(h) /\ ~ h.wanted /\ ~ h.retry /\ h.collecting = hook.collecting
    BY DEF IInv, Shaped
  <2>3. hook' = Retired(h)
    BY <2>1
  <2> HIDE DEF h
  <2>4. /\ Shaped(hook') /\ hook'.epoch = 0 /\ hook'.current = 0 /\ ~ hook'.wanted
        /\ ~ hook'.retry /\ hook'.collecting = hook.collecting
    BY <2>2, <2>3, RetiredFields
  <2>5. ~ hook.collecting
    BY <1>1 DEF IInv, Settled
  <2>6. /\ sessions' \in Seq(Session) /\ Len(sessions') = Len(sessions)
        /\ \A id \in 1..Len(sessions) :
             sessions'[id] = IF id = hook.current THEN Stop(sessions[id]) ELSE sessions[id]
    BY <2>1, StopSessionFields DEF IInv, Settled
  <2>7. \A id \in 1..Len(sessions) : sessions[id] \in Session
    BY DEF IInv
  <2>8. \A id \in 1..Len(sessions') : sessions'[id].state # "open"
    BY <2>6, <2>7, StopFields, OnlyCurrentOpen
  <2>9. Settled(hook', sessions', page'.left)
    BY <2>4, <2>5, <2>6, <2>8, SilencesOpen DEF IInv
  <2> QED BY <2>1, <2>4, <2>6, <2>9 DEF IInv
<1>2. CASE ~ hook.wanted
  <2> DEFINE h == [hook EXCEPT !.wanted = TRUE, !.restarts = 0]
  <2>1. hook.current = 0 /\ OpenSession(h) /\ said' = said
    BY <1>2 DEF Toggle, Start, None
  <2>2. ~ hook.retry /\ ~ hook.collecting
    BY <1>2, <2>1 DEF IInv, Settled
  <2>3. /\ Shaped(h) /\ h.wanted /\ h.retry = hook.retry
        /\ h.collecting = hook.collecting /\ h.current = hook.current
    BY DEF IInv, Shaped
  <2>4. Rest
    BY <2>1 DEF Rest, IInv
  <2> HIDE DEF h
  <2> QED BY <2>1, <2>2, <2>3, <2>4, OpenSessionKeeps
<1> QED BY <1>1, <1>2

LEMMA GraceKeeps ==
  ASSUME IInv, GraceElapsed, page' = page
  PROVE  IInv'
<1>1. /\ hook.collecting /\ FinishCollecting(hook, hook.partial)
      /\ sessions' = sessions /\ Rest
  BY DEF GraceElapsed, Rest, IInv
<1> QED BY <1>1, FinishKeeps DEF IInv

\* An answer is sent: the session is stopped and waited for, or there is none.
LEMMA CollectKeeps ==
  ASSUME IInv, StopAndCollect, said' = said, page'.left = page.left, ~ page.left,
         "left" \in DOMAIN page'
  PROVE  IInv'
<1> DEFINE h == [hook EXCEPT !.wanted = FALSE, !.retry = FALSE]
<1>1. /\ Shaped(h) /\ ~ h.wanted /\ ~ h.retry /\ h.collecting = hook.collecting
      /\ h.current = hook.current /\ h.epoch = hook.epoch
  BY DEF IInv, Shaped
<1>2. CASE hook.current = 0
  <2>1. /\ hook' = [h EXCEPT !.partial = None]
        /\ sessions' = [id \in Ids |->
             [sessions[id] EXCEPT !.spared = @ \/ IsCurrent(id)]]
    BY <1>2 DEF StopAndCollect, None
  <2> HIDE DEF h
  <2>2. /\ Shaped(hook') /\ ~ hook'.wanted /\ ~ hook'.retry
        /\ hook'.collecting = hook.collecting
        /\ hook'.current = hook.current /\ hook'.epoch = hook.epoch
    BY <1>1, <2>1 DEF Shaped
  <2>3. \A id \in 1..Len(sessions) :
          LET x == [sessions[id] EXCEPT !.spared = @ \/ IsCurrent(id)]
          IN  x \in Session /\ x.state = sessions[id].state
    <3>1. \A id \in 1..Len(sessions) : sessions[id] \in Session
      BY DEF IInv
    <3>2. \A id : IsCurrent(id) \in BOOLEAN
      BY DEF IsCurrent
    <3> QED BY <3>1, <3>2 DEF Session
  <2>4. Ids = 1..Len(sessions) /\ Len(sessions) \in Nat
    BY DEF Ids, IInv
  <2>5. /\ sessions' \in Seq(Session) /\ Len(sessions') = Len(sessions)
        /\ \A id \in 1..Len(sessions) : sessions'[id].state = sessions[id].state
    <3> DEFINE f == [id \in Ids |-> [sessions[id] EXCEPT !.spared = @ \/ IsCurrent(id)]]
    <3>1. \A id \in 1..Len(sessions) : f[id] \in Session /\ f[id].state = sessions[id].state
      BY <2>3, <2>4
    <3>2. f = [id \in 1..Len(sessions) |-> f[id]]
      BY <2>4
    <3>3. sessions' = f
      BY <2>1
    <3> HIDE DEF f
    <3>4. f \in Seq(Session) /\ Len(f) = Len(sessions)
      BY <2>4, <3>1, <3>2
    <3> QED BY <3>1, <3>3, <3>4
  <2>6. Settled(hook', sessions', page'.left)
    BY <1>2, <2>2, <2>5 DEF IInv, Settled
  <2> QED BY <2>2, <2>5, <2>6 DEF IInv
<1>3. CASE hook.current # 0
  <2>1. hook' = [h EXCEPT !.collecting = TRUE] /\ sessions' = StopSession(sessions, hook.current)
    BY <1>3 DEF StopAndCollect, None
  <2> HIDE DEF h
  <2>2. /\ Shaped(hook') /\ ~ hook'.wanted /\ ~ hook'.retry /\ hook'.collecting
        /\ hook'.current = hook.current /\ hook'.epoch = hook.epoch
    BY <1>1, <2>1 DEF Shaped
  <2>3. /\ sessions' \in Seq(Session) /\ Len(sessions') = Len(sessions)
        /\ \A id \in 1..Len(sessions) :
             sessions'[id] = IF id = hook.current THEN Stop(sessions[id]) ELSE sessions[id]
    BY <2>1, StopSessionFields DEF IInv, Settled
  <2>4. \A id \in 1..Len(sessions) : sessions[id] \in Session
    BY DEF IInv
  <2>5. \A id \in 1..Len(sessions') : sessions'[id].state # "open"
    BY <2>3, <2>4, StopFields, OnlyCurrentOpen
  <2>6. hook.current \in 1..Len(sessions) /\ sessions[hook.current].state # "opening"
    BY <1>3 DEF IInv, Settled
  <2>7. sessions'[hook.current].state # "opening"
    BY <2>3, <2>4, <2>6, StopFields
  <2>8. Settled(hook', sessions', page'.left)
    BY <1>3, <2>2, <2>3, <2>5, <2>6, <2>7 DEF IInv, Settled
  <2> QED BY <2>2, <2>3, <2>8 DEF IInv
<1> QED BY <1>2, <1>3

\* Leaving gives everything up.
LEMMA LeavingKeeps ==
  ASSUME IInv, Unmount, said' = said, page'.left = TRUE, "left" \in DOMAIN page'
  PROVE  IInv'
<1>1. /\ Shaped(hook') /\ ~ hook'.wanted /\ ~ hook'.retry /\ ~ hook'.collecting
      /\ hook'.epoch = 0 /\ hook'.current = hook.current
  BY DEF Unmount, IInv, Shaped, None
<1>2. /\ sessions' \in Seq(Session) /\ Len(sessions') = Len(sessions)
      /\ \A id \in 1..Len(sessions) :
           sessions'[id] = IF id = hook.current THEN Stop(sessions[id]) ELSE sessions[id]
  BY StopSessionFields DEF IInv, Settled, Unmount
<1>3. \A id \in 1..Len(sessions) : sessions[id] \in Session
  BY DEF IInv
<1>4. \A id \in 1..Len(sessions') : sessions'[id].state # "open"
  BY <1>2, <1>3, StopFields, OnlyCurrentOpen
<1>5. hook.current # 0 =>
        hook.current \in 1..Len(sessions) /\ sessions'[hook.current].state # "opening"
  BY <1>2, <1>3, StopFields DEF IInv, Settled
<1>6. Settled(hook', sessions', page'.left)
  BY <1>1, <1>2, <1>4, <1>5 DEF IInv, Settled
<1> QED BY <1>1, <1>2, <1>6 DEF IInv

----------------------------------------------------------------------------
(* The page.                                                               *)

\* Whatever the page does on its own.
LEMMA PageKeeps ==
  ASSUME IInv, UNCHANGED <<hook, sessions, said>>, page'.left = page.left,
         "left" \in DOMAIN page'
  PROVE  IInv'
BY DEF IInv

LEMMA ShowKeeps ==
  ASSUME IInv, NEW STATE p, "left" \in DOMAIN p, p.left = page.left, NEW STATE turn, Show(p, turn)
  PROVE  IInv'
<1> DEFINE shows == [p EXCEPT !.at = "free", !.turn = turn]
<1>1. "left" \in DOMAIN shows /\ shows.left = page.left
  OBVIOUS
<1>2. CASE turn = Finished
  <2>1. Unmount /\ page' = [shows EXCEPT !.left = TRUE] /\ said' = said
    BY <1>2 DEF Show, Leave
  <2> HIDE DEF shows
  <2>2. page'.left = TRUE /\ "left" \in DOMAIN page'
    BY <1>1, <2>1
  <2> QED BY <2>1, <2>2, LeavingKeeps
<1>3. CASE turn # Finished
  <2>1. page' = shows /\ UNCHANGED <<hook, sessions, said>>
    BY <1>3 DEF Show
  <2> QED BY <1>1, <2>1, PageKeeps
<1> QED BY <1>2, <1>3

LEMMA SubmissionKeeps ==
  ASSUME IInv, PressSend \/ Send \/ Stale \/ ConnectionLost
  PROVE  IInv'
<1>1. "left" \in DOMAIN page
  BY DEF IInv
<1>2. CASE PressSend
  <2>1. /\ StopAndCollect /\ said' = said /\ ~ page.left
        /\ page' = [page EXCEPT !.at = "collecting", !.over = answer]
    BY <1>2 DEF PressSend, Here
  <2>2. page'.left = page.left /\ "left" \in DOMAIN page'
    BY <1>1, <2>1
  <2> QED BY <2>1, <2>2, CollectKeeps
<1>3. CASE Send
  <2>1. page'.left = page.left /\ "left" \in DOMAIN page'
    BY <1>1, <1>3 DEF Send
  <2> QED BY <1>3, <2>1, PageKeeps DEF Send
<1>4. CASE Stale
  <2>1. page'.left = page.left /\ "left" \in DOMAIN page'
    BY <1>1, <1>4 DEF Stale
  <2> QED BY <1>4, <2>1, PageKeeps DEF Stale, inputVars
<1>5. CASE ConnectionLost
  <2>1. page'.left = page.left /\ "left" \in DOMAIN page'
    BY <1>1, <1>5 DEF ConnectionLost
  <2> QED BY <1>5, <2>1, PageKeeps DEF ConnectionLost, inputVars
<1> QED BY <1>2, <1>3, <1>4, <1>5

LEMMA ReplyKeeps ==
  ASSUME IInv, Accepted \/ BeatOver \/ Reload \/ AlreadyFinished \/ WalkAway
  PROVE  IInv'
<1>1. "left" \in DOMAIN page
  BY DEF IInv
<1>2. CASE Accepted
  <2> DEFINE p == [page EXCEPT !.delivered = @ \cup ToSet(Last(requests).words)]
  <2>1. "left" \in DOMAIN p /\ p.left = page.left
    BY <1>1
  <2>2. PICK next : \/ Show(p, next)
                    \/ /\ page' = [p EXCEPT !.at = "beat", !.next = next]
                       /\ UNCHANGED <<hook, sessions, said>>
    BY <1>2 DEF Accepted
  <2> HIDE DEF p
  <2>3. CASE Show(p, next)
    BY <2>1, <2>3, ShowKeeps
  <2>4. CASE page' = [p EXCEPT !.at = "beat", !.next = next] /\ UNCHANGED <<hook, sessions, said>>
    <3>1. page'.left = page.left /\ "left" \in DOMAIN page'
      BY <2>1, <2>4
    <3> QED BY <2>4, <3>1, PageKeeps
  <2> QED BY <2>2, <2>3, <2>4
<1>3. CASE BeatOver
  BY <1>1, <1>3, ShowKeeps DEF BeatOver
<1>4. CASE Reload
  BY <1>1, <1>4, ShowKeeps DEF Reload
<1>5. CASE AlreadyFinished \/ WalkAway
  <2>1. Unmount /\ page' = [page EXCEPT !.left = TRUE] /\ said' = said
    BY <1>5 DEF AlreadyFinished, WalkAway, Leave
  <2>2. page'.left = TRUE /\ "left" \in DOMAIN page'
    BY <1>1, <2>1
  <2> QED BY <2>1, <2>2, LeavingKeeps
<1> QED BY <1>2, <1>3, <1>4, <1>5

----------------------------------------------------------------------------
LEMMA InitEstablishes == Init => IInv
<1> SUFFICES ASSUME Init PROVE IInv
  OBVIOUS
<1>1. /\ hook = [wanted |-> FALSE, current |-> 0, epoch |-> 0, restarts |-> 0, retry |-> FALSE,
                 partial |-> 0, collecting |-> FALSE, status |-> "idle"]
      /\ sessions = <<>> /\ said = 0
      /\ page = [turn |-> 1, at |-> "free", over |-> <<>>, next |-> 1, left |-> FALSE,
                 delivered |-> {}]
  BY DEF Init, InputInit, None
<1>2. sessions \in Seq(Session) /\ Len(sessions) = 0 /\ said \in Int
  BY <1>1
<1>3. /\ Shaped(hook) /\ hook.epoch = 0 /\ hook.current = 0 /\ ~ hook.wanted
      /\ ~ hook.retry /\ ~ hook.collecting
  BY <1>1 DEF Shaped
<1>4. "left" \in DOMAIN page /\ page.left = FALSE
  BY <1>1
<1>5. Settled(hook, sessions, page.left)
  BY <1>2, <1>3, <1>4 DEF Settled
<1> QED BY <1>2, <1>3, <1>4, <1>5 DEF IInv

LEMMA StepPreserves == IInv /\ [Next]_vars => IInv'
<1> SUFFICES ASSUME IInv, [Next]_vars PROVE IInv'
  OBVIOUS
<1>1. CASE UNCHANGED vars
  BY <1>1, PageKeeps DEF vars, inputVars, pageVars, IInv
<1>2. CASE HookNext
  <2>1. page' = page
    BY <1>2 DEF HookNext, pageVars
  <2>2. ASSUME NEW id \in Ids,
               \/ Opened(id) \/ OpenFails(id) \/ OpenTimesOut(id) \/ Recognizing(id)
               \/ Recognized(id) \/ (\E fatal \in BOOLEAN : Canceled(id, fatal))
               \/ Disposed(id) \/ Erred(id) \/ BrowserEnded(id)
        PROVE  IInv'
    BY <2>1, <2>2, OpenedKeeps, RejectionKeeps, HearingKeeps, EndingKeeps, LateKeeps
  <2> QED BY <1>2, <2>1, <2>2, RestartKeeps, GraceKeeps DEF HookNext, RecognizerNext
<1>3. CASE Type \/ (\E k \in DOMAIN requests : Receive(k)) \/ AnotherTab
  <2>1. UNCHANGED <<hook, sessions, said, page>>
    BY <1>3 DEF Type, Receive, AnotherTab, inputVars
  <2> QED BY <2>1, PageKeeps DEF IInv
<1>4. CASE PressMicrophone
  <2>1. Toggle /\ page' = page /\ ~ page.left
    BY <1>4 DEF PressMicrophone, pageVars, Here
  <2> QED BY <2>1, ToggleKeeps
<1>5. CASE PressSend \/ Send \/ Stale \/ ConnectionLost
  BY <1>5, SubmissionKeeps
<1>6. CASE Accepted \/ BeatOver \/ Reload \/ AlreadyFinished \/ WalkAway
  BY <1>6, ReplyKeeps
<1> QED BY <1>1, <1>2, <1>3, <1>4, <1>5, <1>6 DEF Next

\* The inductive invariant: hook, recognizers and page fit together.
THEOREM Inductive == Spec => []IInv
BY InitEstablishes, StepPreserves, PTL DEF Spec

\* However late, often or never the recognizers' callbacks come: only the
\* session the hook can stop holds the microphone, and it is not silently gone.
THEOREM MicrophoneHolds == Spec => []OneMicrophone
<1>1. IInv => OneMicrophone
  <2> SUFFICES ASSUME IInv PROVE OneMicrophone
    OBVIOUS
  <2>1. Ids = 1..Len(sessions) /\ Len(sessions) \in Nat
    BY DEF IInv, Ids
  <2>2. \A id \in Ids : sessions[id].state = "open" =>
          hook.current = id /\ hook.epoch = id /\ ~ page.left
    BY <2>1 DEF IInv, Settled
  <2>3. hook.retry => hook.wanted /\ hook.current = None
    BY DEF IInv, Settled, None
  <2>4. hook.wanted =>
          /\ ~ page.left
          /\ \/ hook.retry
             \/ hook.current # None
             \/ hook.epoch # None /\ sessions[hook.epoch].state = "opening"
    BY DEF IInv, Settled, None
  <2> QED BY <2>2, <2>3, <2>4 DEF OneMicrophone
<1> QED BY <1>1, Inductive, PTL

-----------------------------------------------------------------------------
(* The words.                                                              *)

\* What the sessions nobody silenced have heard, and all words there are.
Spared == UNION {sessions[id].said : id \in {i \in Ids : sessions[i].spared}}
Words == (1..said) \cup (Utterances + 1..Utterances + typed.count)

\* No word of s is there twice, but for those in X.
Distinct(s, X) == \A i, k \in DOMAIN s : s[i] = s[k] => i = k \/ s[i] \in X

\* The answer a, the one submitted o, words delivered d, being heard p and collected c:
\* no word is in two of them, none of those wanted is missing, but for the ones excused.
Once(a, o, d, p, c, excused, wanted, overtaken) ==
  /\ Distinct(a, excused)
  /\ \A w \in ToSet(a) : w = p \/ w = c => w \in excused
  /\ \A w \in d : w \in ToSet(a) \/ w \in ToSet(o) \/ w = p \/ w = c => w \in excused
  /\ \A w \in wanted : \/ w \in ToSet(a) \/ w \in ToSet(o) \/ w = p \/ w = c
                       \/ w \in d \/ w \in excused \/ w \in overtaken

Wanted == shown \cup (Utterances + 1..Utterances + typed.count)
WordsOnce == Once(answer, page.over, page.delivered, hook.partial, collected, Spared, Wanted,
                  typed.overtaken)

\* The fields of the records that count here.
Listed ==
  /\ "partial" \in DOMAIN hook
  /\ DOMAIN page = {"turn", "at", "over", "next", "left", "delivered"}
  /\ DOMAIN typed = {"count", "overtaken"}
  /\ Len(requests) \in Nat
  /\ requests = [k \in 1..Len(requests) |-> requests[k]]
  /\ \A k \in 1..Len(requests) : DOMAIN requests[k] = {"turn", "words", "reply", "next"}

Known ==
  /\ said \in 0..Utterances /\ typed.count \in Nat /\ shown \subseteq 1..said
  /\ answer \in Seq(Words) /\ page.over \in Seq(Words)
  /\ hook.partial \in Words \cup {None} /\ collected \in Words \cup {None, Pending}
  /\ page.delivered \subseteq Words

\* An utterance is heard by one session.
Owned ==
  \A i \in Ids :
    /\ sessions[i].said \subseteq 1..said
    /\ sessions[i].hearing \in sessions[i].said \cup {None}
    /\ \A k \in Ids : i # k => sessions[i].said \cap sessions[k].said = {}

\* Where handleSubmit is, and what it has the hook do.
AtWork ==
  /\ page.at \in {"free", "collecting", "sent", "reloading", "beat"}
  /\ page.at # "free" => ~hook.wanted
  /\ page.at \in {"sent", "reloading", "beat"} => hook.current = None
  /\ page.at = "collecting" => hook.collecting \/ collected # Pending
  /\ page.at # "collecting" => ~hook.collecting /\ collected = Pending /\ page.over = <<>>
  /\ collected # Pending =>
       hook.current = None /\ (hook.epoch # None => sessions[hook.epoch].spared)

\* A session the hook listens to without being able to stop it.
Unattended ==
  hook.epoch # None /\ hook.current = None =>
     \/ sessions[hook.epoch].spared
     \/ sessions[hook.epoch].state = "closed"
     \/ sessions[hook.epoch].state = "opening" /\ hook.wanted

\* What is being heard has got nowhere yet.
Fresh ==
  hook.epoch # None =>
     \/ sessions[hook.epoch].spared
     \/ sessions[hook.epoch].hearing \notin ToSet(answer) \cup ToSet(page.over) \cup page.delivered

\* What the hook shows is what its session hears.
Heeded ==
  \/ hook.partial \in Spared \cup {None}
  \/ /\ hook.current # None
     /\ \/ sessions[hook.current].hearing = hook.partial
        \/ sessions[hook.current].state = "closed"

\* What is being submitted is the answer in the box.
Submitted ==
  /\ page.at = "collecting" =>
       /\ ToSet(page.over) \subseteq ToSet(answer)
       /\ ToSet(answer) \subseteq ToSet(page.over) \cup Spared \cup typed.overtaken
       /\ Distinct(page.over, Spared)
  /\ page.at = "sent" =>
       /\ requests # <<>>
       /\ ToSet(Last(requests).words) \subseteq ToSet(answer)
       /\ ToSet(answer) \subseteq ToSet(Last(requests).words) \cup Spared

WordsInv == Known /\ Owned /\ AtWork /\ Unattended /\ Fresh /\ Heeded /\ Submitted /\ WordsOnce

OnceIInv == IInv /\ Listed /\ (~page.left => WordsInv)

----------------------------------------------------------------------------
(* Sequences of words.                                                     *)

LEMMA Extended ==
  ASSUME NEW S, NEW a \in Seq(S), NEW w
  PROVE  /\ Append(a, w) \in Seq(S \cup {w})
         /\ ToSet(Append(a, w)) = ToSet(a) \cup {w}
         /\ \A X : Distinct(a, X) /\ (w \in ToSet(a) => w \in X) => Distinct(Append(a, w), X)
<1> DEFINE b == Append(a, w)
<1>1. /\ Len(a) \in Nat /\ DOMAIN a = 1..Len(a) /\ DOMAIN b = 1..Len(a) + 1
      /\ b[Len(a) + 1] = w /\ \A i \in 1..Len(a) : b[i] = a[i]
  OBVIOUS
<1>2. b \in Seq(S \cup {w})
  <2>1. a \in Seq(S \cup {w})
    OBVIOUS
  <2> QED BY <2>1
<1> HIDE DEF b
<1>3. ToSet(b) = ToSet(a) \cup {w}
  <2>1. \A x : x \in ToSet(b) => x \in ToSet(a) \cup {w}
    BY <1>1 DEF ToSet
  <2>2. \A x : x \in ToSet(a) \cup {w} => x \in ToSet(b)
    BY <1>1 DEF ToSet
  <2> QED BY <2>1, <2>2
<1>4. ASSUME NEW X, Distinct(a, X), w \in ToSet(a) => w \in X
      PROVE  Distinct(b, X)
  <2> SUFFICES ASSUME NEW i \in DOMAIN b, NEW k \in DOMAIN b, b[i] = b[k]
               PROVE  i = k \/ b[i] \in X
    BY DEF Distinct
  <2>1. CASE i \in 1..Len(a) /\ k \in 1..Len(a)
    BY <1>1, <1>4, <2>1 DEF Distinct
  <2>2. CASE i = Len(a) + 1 /\ k \in 1..Len(a)
    BY <1>1, <1>4, <2>2 DEF ToSet
  <2>3. CASE k = Len(a) + 1 /\ i \in 1..Len(a)
    BY <1>1, <1>4, <2>3 DEF ToSet
  <2> QED BY <1>1, <2>1, <2>2, <2>3
<1> QED BY <1>2, <1>3, <1>4 DEF b

LEMMA Joined ==
  ASSUME NEW S, NEW a \in Seq(S), NEW w \in S \cup {None}
  PROVE  LET b == a \o Word(w)
         IN  /\ b \in Seq(S)
             /\ w = None => b = a
             /\ \A x : x \in ToSet(b) <=> x \in ToSet(a) \/ (x = w /\ w # None)
             /\ \A X : Distinct(a, X) /\ (w # None /\ w \in ToSet(a) => w \in X)
                         => Distinct(b, X)
<1>1. CASE w = None
  <2>1. a \o <<>> = a
    OBVIOUS
  <2> QED BY <1>1, <2>1 DEF Word
<1>2. CASE w # None
  <2>1. a \o <<w>> = Append(a, w)
    OBVIOUS
  <2>2. S \cup {w} = S
    BY <1>2
  <2>3. a \o Word(w) = Append(a, w)
    BY <1>2, <2>1 DEF Word
  <2> QED BY <1>2, <2>2, <2>3, Extended
<1> QED BY <1>1, <1>2

LEMMA NoWords == ToSet(<<>>) = {} /\ (\A X : Distinct(<<>>, X)) /\ \A S : <<>> \in Seq(S)
BY DEF ToSet, Distinct

LEMMA Excused ==
  ASSUME NEW a, NEW X, NEW Y, Distinct(a, X), X \subseteq Y
  PROVE  Distinct(a, Y)
BY DEF Distinct

LEMMA WordsCount ==
  ASSUME Known
  PROVE  /\ None \notin Words /\ Pending \notin Words
         /\ Wanted \subseteq Words
         /\ said + 1 \notin 1..said
         /\ said < Utterances => said + 1 \notin Words
         /\ Utterances + typed.count + 1 \notin Words
         /\ \A x \in Words : x \in Int /\ x > 0
<1>1. Utterances \in Nat /\ said \in Nat /\ said <= Utterances /\ typed.count \in Nat
  BY UtterancesAssumption DEF Known
<1>2. \A x : x \in Words <=>
         (x \in Int /\ 1 <= x /\ x <= said)
           \/ (x \in Int /\ Utterances + 1 <= x /\ x <= Utterances + typed.count)
  BY <1>1 DEF Words
<1>3. None \notin Words /\ Pending \notin Words
  BY <1>1, <1>2 DEF None, Pending
<1>4. Wanted \subseteq Words
  BY <1>2 DEF Wanted, Words, Known
<1>5. said < Utterances => said + 1 \notin Words
  BY <1>1, <1>2
<1>6. Utterances + typed.count + 1 \notin Words
  BY <1>1, <1>2
<1>7. \A x \in Words : x \in Int /\ x > 0
  BY <1>1, <1>2
<1> QED BY <1>1, <1>3, <1>4, <1>5, <1>6, <1>7

LEMMA OnceShown == OnceIInv => EveryWordOnce
<1> SUFFICES ASSUME OnceIInv, ~page.left PROVE EveryWordOnce
  BY DEF EveryWordOnce
<1>1. /\ Known /\ WordsOnce
  BY DEF OnceIInv, WordsInv
<1>2. \A w : WordSet(w) = IF w = None THEN {} ELSE {w}
  BY DEF WordSet, Word, ToSet
<1>3. None \notin Words /\ Pending \notin Words /\ Wanted \subseteq Words
  BY <1>1, WordsCount
<1>4. \A i \in DOMAIN answer : answer[i] \in Words /\ answer[i] \in ToSet(answer)
  BY <1>1 DEF Known, ToSet
<1>5. ToSet(answer) \subseteq Words /\ ToSet(page.over) \subseteq Words
  BY <1>1 DEF Known, ToSet
<1> DEFINE heard == WordSet(hook.partial) \cup (WordSet(collected) \ {Pending})
<1>6. \A w : w \in heard <=> w # None /\ (w = hook.partial \/ (w = collected /\ w # Pending))
  <2>1. hook.partial # Pending
    BY <1>1, <1>3 DEF Known, None, Pending
  <2> QED BY <1>2, <2>1
<1> HIDE DEF heard
<1>7. \A w \in Words : w \in heard <=> w = hook.partial \/ w = collected
  BY <1>3, <1>6
<1>8. \A w \in heard : w \in Words
  BY <1>1, <1>6 DEF Known
<1>9. \A i, k \in DOMAIN answer : answer[i] = answer[k] => i = k \/ answer[i] \in Spared
  BY <1>1 DEF WordsOnce, Once, Distinct
<1>10. ToSet(answer) \cap heard \subseteq Spared
  BY <1>1, <1>5, <1>7 DEF WordsOnce, Once
<1>11. (ToSet(answer) \cup ToSet(page.over) \cup heard) \cap page.delivered \subseteq Spared
  BY <1>1, <1>5, <1>7, <1>8 DEF WordsOnce, Once
<1>12. Wanted \ (Spared \cup typed.overtaken)
         \subseteq ToSet(answer) \cup ToSet(page.over) \cup heard \cup page.delivered
  BY <1>1, <1>3, <1>7 DEF WordsOnce, Once
<1> QED BY <1>9, <1>10, <1>11, <1>12 DEF EveryWordOnce, Spared, Wanted, heard

LEMMA OnceInitial == Init => OnceIInv
<1> SUFFICES ASSUME Init PROVE OnceIInv
  OBVIOUS
<1>1. IInv
  BY InitEstablishes
<1>2. /\ hook.partial = 0 /\ "partial" \in DOMAIN hook /\ hook.epoch = 0 /\ hook.current = 0
      /\ hook.collecting = FALSE /\ hook.wanted = FALSE
      /\ sessions = <<>> /\ said = 0 /\ shown = {} /\ answer = <<>> /\ collected = Pending
  BY DEF Init, InputInit, None
<1>3. /\ page = [turn |-> 1, at |-> "free", over |-> <<>>, next |-> 1, left |-> FALSE,
                 delivered |-> {}]
      /\ typed = [count |-> 0, overtaken |-> {}]
      /\ requests = <<>>
  BY DEF Init
<1>4. Listed
  BY <1>2, <1>3 DEF Listed
<1>5. Known
  BY <1>2, <1>3, UtterancesAssumption DEF Known, None
<1>6. Owned /\ Spared = {}
  BY <1>2 DEF Owned, Spared, Ids
<1>7. AtWork /\ Unattended /\ Fresh /\ Heeded /\ Submitted
  BY <1>2, <1>3 DEF AtWork, Unattended, Fresh, Heeded, Submitted, None
<1>8. Wanted = {}
  BY <1>2, <1>3, UtterancesAssumption DEF Wanted
<1>9. WordsOnce
  <2>1. page.over = <<>> /\ page.delivered = {}
    BY <1>3
  <2> QED BY <1>2, <1>8, <2>1, NoWords DEF WordsOnce, Once
<1> QED BY <1>1, <1>4, <1>5, <1>6, <1>7, <1>9 DEF OnceIInv, WordsInv

----------------------------------------------------------------------------
(* The sessions.                                                           *)

LEMMA Counted == IInv => Ids = 1..Len(sessions) /\ Len(sessions) \in Nat
                         /\ \A id \in Ids : sessions[id] \in Session
BY DEF IInv, Ids

\* The hook can stop the session it hears, or it is one nobody silenced.
LEMMA Attended ==
  ASSUME OnceIInv, ~page.left, NEW id \in Ids, IsCurrent(id),
         sessions[id].state \in {"open", "stopping", "lost"}
  PROVE  hook.current = id \/ sessions[id].spared
<1>1. hook.epoch = id /\ id # 0
  BY Counted DEF OnceIInv, IsCurrent
<1>2. Settled(hook, sessions, page.left) /\ Unattended
  BY DEF OnceIInv, IInv, WordsInv
<1> QED BY <1>1, <1>2 DEF Settled, Unattended, None

LEMMA SparedWord ==
  ASSUME NEW id \in Ids, sessions[id].spared, NEW w \in sessions[id].said
  PROVE  w \in Spared
BY DEF Spared

\* Sessions go on, or are opened; nothing is heard.
Onwards ==
  /\ Len(sessions') \in Nat /\ Len(sessions) <= Len(sessions')
  /\ DOMAIN sessions' = 1..Len(sessions')
  /\ \A i \in 1..Len(sessions) :
        /\ sessions'[i].said = sessions[i].said
        /\ sessions[i].spared => sessions'[i].spared
        /\ sessions'[i].hearing \in {sessions[i].hearing, None}
  /\ \A i \in 1..Len(sessions') :
        i > Len(sessions) => sessions'[i].said = {} /\ sessions'[i].hearing = None

LEMMA OwnedOnwards ==
  ASSUME OnceIInv, ~page.left, Onwards, said' = said
  PROVE  Owned' /\ Spared \subseteq Spared'
<1>1. /\ Ids = 1..Len(sessions) /\ Len(sessions) \in Nat
      /\ Ids' = 1..Len(sessions')
  BY Counted DEF OnceIInv, Onwards, Ids
<1>2. Owned
  BY DEF OnceIInv, WordsInv
<1>3. \A i \in Ids' : \/ i \in Ids /\ sessions'[i].said = sessions[i].said
                      \/ i \notin Ids /\ sessions'[i].said = {}
  BY <1>1 DEF Onwards
<1>4. ASSUME NEW i \in Ids'
      PROVE  /\ sessions'[i].said \subseteq 1..said'
             /\ sessions'[i].hearing \in sessions'[i].said \cup {None}
             /\ \A k \in Ids' : i # k => sessions'[i].said \cap sessions'[k].said = {}
  <2>1. sessions'[i].said \subseteq 1..said'
    BY <1>2, <1>3 DEF Owned
  <2>2. sessions'[i].hearing \in sessions'[i].said \cup {None}
    BY <1>1, <1>2, <1>3 DEF Owned, Onwards
  <2>3. \A k \in Ids' : i # k => sessions'[i].said \cap sessions'[k].said = {}
    BY <1>2, <1>3 DEF Owned
  <2> QED BY <2>1, <2>2, <2>3
<1>5. Owned'
  BY <1>4 DEF Owned
<1>6. ASSUME NEW w \in Spared PROVE w \in Spared'
  <2>1. PICK i \in Ids : sessions[i].spared /\ w \in sessions[i].said
    BY DEF Spared
  <2>2. i \in Ids' /\ sessions'[i].spared /\ w \in sessions'[i].said
    BY <1>1, <2>1 DEF Onwards
  <2> QED BY <2>2 DEF Spared
<1> QED BY <1>5, <1>6

\* One session hears a word, w.
HearsWord(id, w) ==
  /\ w # None /\ w \in 1..said' /\ w \in Words'
  /\ w = sessions[id].hearing \/ w \notin Words
  /\ w \in sessions'[id].said
  /\ sessions[id].hearing # None => w = sessions[id].hearing
  /\ Ids' = Ids /\ Len(sessions') = Len(sessions)
  /\ \A x \in Ids : sessions'[x].spared = sessions[x].spared
                    /\ sessions'[x].state = sessions[x].state
                    /\ (x # id => sessions'[x] = sessions[x])
  /\ Owned' /\ Spared \subseteq Spared' /\ Words \subseteq Words' /\ said' \in said..Utterances

LEMMA WordHeard ==
  ASSUME OnceIInv, ~page.left, typed' = typed, NEW id \in Ids, NEW hearing \in {None, Heard(id)},
         Hears(id, hearing)
  PROVE  HearsWord(id, Heard(id)) /\ sessions'[id].hearing = hearing
<1>1. Ids = 1..Len(sessions) /\ Len(sessions) \in Nat /\ sessions[id] \in Session
  BY Counted DEF OnceIInv
<1>2. Known /\ Owned
  BY DEF OnceIInv, WordsInv
<1>3. said \in Nat /\ said <= Utterances /\ Utterances \in Nat
  BY <1>2, UtterancesAssumption DEF Known
<1> DEFINE w == Heard(id)
<1>4. /\ sessions[id].hearing # None => w = sessions[id].hearing
      /\ sessions[id].hearing = None => w = said + 1
  BY DEF Heard
<1>5. /\ w <= Utterances
      /\ said' = IF w > said THEN w ELSE said
      /\ sessions' = [sessions EXCEPT ![id].hearing = hearing, ![id].said = @ \cup {w}]
  BY DEF Hears
<1>6. sessions[id].hearing # None => w \in 1..said /\ w \in sessions[id].said
  BY <1>2, <1>4 DEF Owned
<1> HIDE DEF w
<1>7. w \in 1..said' /\ w # None /\ said' \in said..Utterances
  BY <1>3, <1>4, <1>5, <1>6 DEF None
<1>8. w = sessions[id].hearing \/ w \notin Words
  BY <1>2, <1>4, <1>5, WordsCount, <1>3
<1>9. Words \subseteq Words' /\ w \in Words'
  BY <1>3, <1>7 DEF Words
<1> DEFINE z == [sessions[id] EXCEPT !.hearing = hearing, !.said = @ \cup {w}]
<1>10. hearing \in Int
  BY <1>7, <1>3 DEF None, w
<1>11. /\ z \in Session /\ z.hearing = hearing /\ z.said = sessions[id].said \cup {w}
       /\ z.state = sessions[id].state /\ z.spared = sessions[id].spared
  <2>1. PICK s : s = sessions[id]
    OBVIOUS
  <2>2. PICK v : v = s.said \cup {w}
    OBVIOUS
  <2>3. s \in Session /\ v \in SUBSET Int
    BY <1>1, <1>3, <1>7, <2>1, <2>2 DEF Session
  <2>4. z = [s EXCEPT !.hearing = hearing, !.said = v]
    BY <2>1, <2>2
  <2>5. /\ z \in Session /\ z.hearing = hearing /\ z.said = v
        /\ z.state = s.state /\ z.spared = s.spared
    BY <1>10, <2>3, <2>4 DEF Session
  <2> QED BY <2>1, <2>2, <2>5
<1>12. sessions' = [sessions EXCEPT ![id] = z]
  BY <1>1, <1>5
<1> HIDE DEF z
<1>13. /\ Len(sessions') = Len(sessions) /\ Ids' = Ids
       /\ \A i \in Ids : sessions'[i] = IF i = id THEN z ELSE sessions[i]
  <2>1. sessions \in Seq(Session)
    BY DEF OnceIInv, IInv
  <2>2. /\ sessions' \in Seq(Session) /\ Len(sessions') = Len(sessions)
        /\ \A i \in 1..Len(sessions) : sessions'[i] = IF i = id THEN z ELSE sessions[i]
    BY <1>1, <1>11, <1>12, <2>1, OneSession
  <2> QED BY <1>1, <2>2 DEF Ids
<1>14. \A i \in Ids : i # id => w \notin sessions[i].said
  <2> SUFFICES ASSUME NEW i \in Ids, i # id, w \in sessions[i].said PROVE FALSE
    OBVIOUS
  <2>1. CASE sessions[id].hearing # None
    BY <1>2, <1>6, <2>1 DEF Owned
  <2>2. CASE sessions[id].hearing = None
    BY <1>2, <1>3, <1>4, <2>2 DEF Owned
  <2> QED BY <2>1, <2>2
<1>15. Owned'
  <2>1. ASSUME NEW i \in Ids
        PROVE  /\ sessions'[i].said \subseteq 1..said'
               /\ sessions'[i].hearing \in sessions'[i].said \cup {None}
               /\ \A k \in Ids : i # k => sessions'[i].said \cap sessions'[k].said = {}
    <3>1. sessions[i].said \subseteq 1..said'
      BY <1>2, <1>3, <1>7 DEF Owned
    <3>2. sessions'[i].said \subseteq 1..said'
      BY <1>7, <1>11, <1>13, <3>1
    <3>3. sessions'[i].hearing \in sessions'[i].said \cup {None}
      BY <1>2, <1>11, <1>13 DEF Owned, w
    <3>4. \A k \in Ids : i # k => sessions'[i].said \cap sessions'[k].said = {}
      BY <1>2, <1>11, <1>13, <1>14 DEF Owned
    <3> QED BY <3>2, <3>3, <3>4
  <2> QED BY <1>13, <2>1 DEF Owned
<1>16. \A v : v \in Spared => v \in Spared'
  <2> SUFFICES ASSUME NEW v \in Spared PROVE v \in Spared'
    OBVIOUS
  <2>1. PICK i \in Ids : sessions[i].spared /\ v \in sessions[i].said
    BY DEF Spared
  <2>2. i \in Ids' /\ sessions'[i].spared /\ v \in sessions'[i].said
    BY <1>11, <1>13, <2>1
  <2> QED BY <2>2 DEF Spared
<1> QED
  BY <1>4, <1>7, <1>8, <1>9, <1>11, <1>13, <1>15, <1>16 DEF HearsWord, w

----------------------------------------------------------------------------
(* The words in their places.                                              *)

LEMMA Places ==
  ASSUME Known
  PROVE  /\ ToSet(answer) \subseteq Words /\ ToSet(page.over) \subseteq Words
         /\ None \notin ToSet(answer) \cup ToSet(page.over) \cup page.delivered
BY WordsCount DEF Known, ToSet

LEMMA OnceGrows ==
  ASSUME NEW a, NEW o, NEW d, NEW p, NEW c, NEW X, NEW W, NEW T, Once(a, o, d, p, c, X, W, T),
         NEW Y, X \subseteq Y
  PROVE  Once(a, o, d, p, c, Y, W, T)
BY Excused DEF Once

LEMMA SeqGrows == ASSUME NEW S, NEW T, S \subseteq T, NEW a \in Seq(S) PROVE a \in Seq(T)
OBVIOUS

LEMMA ListedStays ==
  ASSUME OnceIInv, "partial" \in DOMAIN hook', UNCHANGED <<page, typed, requests>>
  PROVE  Listed'
BY DEF OnceIInv, Listed

LEMMA SubmittedStays ==
  ASSUME OnceIInv, ~page.left, UNCHANGED <<page, typed, requests>>,
         Spared \subseteq Spared', Words \subseteq Words',
         page.at = "collecting" => answer' = answer,
         page.at = "sent" => /\ ToSet(answer) \subseteq ToSet(answer')
                             /\ ToSet(answer') \subseteq ToSet(answer) \cup Spared'
  PROVE  Submitted'
<1>1. Submitted
  BY DEF OnceIInv, WordsInv
<1>2. CASE page.at = "collecting"
  <2>1. Distinct(page.over, Spared')
    BY <1>1, <1>2, Excused DEF Submitted
  <2> QED BY <1>1, <1>2, <2>1 DEF Submitted
<1>3. CASE page.at = "sent"
  BY <1>1, <1>3 DEF Submitted
<1>4. CASE page.at \notin {"collecting", "sent"}
  BY <1>4 DEF Submitted
<1> QED BY <1>2, <1>3, <1>4

\* A step that moves no word.
LEMMA QuietKeeps ==
  ASSUME OnceIInv, IInv', ~page.left, UNCHANGED <<page, typed, requests, said, shown, answer, collected>>,
         hook'.partial = hook.partial, "partial" \in DOMAIN hook', Onwards,
         AtWork', Unattended',
         hook'.epoch = hook.epoch \/ hook'.epoch > Len(sessions),
         hook.current # None =>
            /\ hook'.current = hook.current
            /\ \/ sessions'[hook.current].state = "closed"
               \/ /\ sessions'[hook.current].hearing = sessions[hook.current].hearing
                  /\ sessions[hook.current].state # "closed"
  PROVE  OnceIInv'
<1>1. WordsInv
  BY DEF OnceIInv
<1>2. Owned' /\ Spared \subseteq Spared' /\ Words' = Words
  BY OwnedOnwards DEF Words
<1>3. Known'
  BY <1>1, <1>2 DEF WordsInv, Known
<1>4. Submitted' /\ Listed'
  BY <1>2, ListedStays, SubmittedStays
<1>5. Settled(hook, sessions, page.left) /\ Settled(hook', sessions', page'.left) /\ Len(sessions) \in Nat
  BY Counted DEF OnceIInv, IInv
<1>6. Fresh'
  <2> SUFFICES ASSUME hook'.epoch # None
               PROVE  \/ sessions'[hook'.epoch].spared
                      \/ sessions'[hook'.epoch].hearing
                           \notin ToSet(answer) \cup ToSet(page.over) \cup page.delivered
    BY DEF Fresh
  <2>1. hook'.epoch \in 1..Len(sessions')
    BY <1>5 DEF Settled, None, Onwards
  <2>2. CASE hook'.epoch > Len(sessions)
    BY <1>1, <2>1, <2>2, Places DEF Onwards, WordsInv
  <2>3. CASE hook'.epoch = hook.epoch
    <3>1. hook.epoch \in 1..Len(sessions)
      BY <1>5, <2>3 DEF Settled, None
    <3> QED BY <1>1, <2>3, <3>1, Places DEF WordsInv, Onwards, Fresh
  <2> QED BY <2>2, <2>3
<1>7. Heeded'
  BY <1>1, <1>2 DEF WordsInv, Heeded
<1>8. WordsOnce'
  <2>1. Once(answer, page.over, page.delivered, hook.partial, collected, Spared', Wanted,
             typed.overtaken)
    BY <1>1, <1>2, OnceGrows DEF WordsInv, WordsOnce
  <2> QED BY <2>1 DEF WordsOnce, Wanted
<1>9. QED
  BY <1>2, <1>3, <1>4, <1>6, <1>7, <1>8 DEF OnceIInv, WordsInv

\* What the session the hook listens to hears has got nowhere yet.
LEMMA FreshWord ==
  ASSUME OnceIInv, ~page.left, NEW id \in Ids, IsCurrent(id), NEW w, HearsWord(id, w)
  PROVE  /\ w \in ToSet(answer) \cup ToSet(page.over) \cup page.delivered => sessions[id].spared
         /\ sessions[id].spared => w \in Spared'
<1>1. Known /\ Fresh /\ id # None
  BY Counted DEF OnceIInv, WordsInv, None
<1>2. ToSet(answer) \cup ToSet(page.over) \cup page.delivered \subseteq Words
  BY <1>1, Places DEF Known
<1>3. w \in ToSet(answer) \cup ToSet(page.over) \cup page.delivered => sessions[id].spared
  BY <1>1, <1>2 DEF HearsWord, Fresh, IsCurrent
<1>4. sessions[id].spared => w \in Spared'
  BY DEF HearsWord, Spared
<1> QED BY <1>3, <1>4

LEMMA HeededWord ==
  ASSUME OnceIInv, ~page.left, NEW id \in Ids, IsCurrent(id),
         sessions[id].state \in {"open", "stopping", "lost"}, NEW w, HearsWord(id, w)
  PROVE  hook.partial = w \/ hook.partial \in Spared \cup {None}
<1>1. Heeded /\ Settled(hook, sessions, page.left)
  BY DEF OnceIInv, WordsInv, IInv
<1>2. hook.current # None => hook.current = id
  BY <1>1 DEF Settled, IsCurrent, None
<1> QED BY <1>1, <1>2 DEF Heeded, HearsWord

LEMMA OnlyHeard ==
  ASSUME OnceIInv, ~page.left, typed' = typed, NEW id \in Ids, NEW w, HearsWord(id, w),
         answer' \in Seq(Words'), shown' \subseteq shown \cup {w},
         page' = page, hook'.partial \in Words' \cup {None},
         collected' \in Words' \cup {None, Pending}
  PROVE  Known'
<1>1. Known
  BY DEF OnceIInv, WordsInv
<1>2. page.over \in Seq(Words') /\ page.delivered \subseteq Words'
  BY <1>1, SeqGrows DEF Known, HearsWord
<1>3. said' \in 0..Utterances /\ shown' \subseteq 1..said'
  BY <1>1, UtterancesAssumption DEF Known, HearsWord
<1> QED BY <1>1, <1>2, <1>3 DEF Known

LEMMA PartialKeeps ==
  ASSUME OnceIInv, IInv', ~page.left, NEW id \in Ids, Recognizing(id),
         UNCHANGED <<page, typed, requests>>
  PROVE  OnceIInv'
<1> DEFINE w == Heard(id)
<1>1. HearsWord(id, w) /\ sessions'[id].hearing = w
  BY WordHeard DEF Recognizing
<1>2. /\ UNCHANGED <<answer, collected>>
      /\ OnPartial(id, w)
      /\ sessions[id].state \in {"open", "stopping", "lost"}
  BY DEF Recognizing
<1> HIDE DEF w
<1>3. WordsInv /\ Shaped(hook) /\ "partial" \in DOMAIN hook /\ Ids = 1..Len(sessions)
      /\ Settled(hook, sessions, page.left)
  BY Counted DEF OnceIInv, IInv, Listed
<1>4. /\ Same(hook', hook) /\ "partial" \in DOMAIN hook'
      /\ \/ hook'.partial = hook.partial /\ shown' = shown /\ (IsCurrent(id) => hook.collecting)
         \/ hook'.partial = w /\ shown' = shown \cup {w} /\ IsCurrent(id)
  BY <1>2, <1>3 DEF OnPartial, Same, Shaped
<1>5. /\ Owned' /\ Spared \subseteq Spared' /\ Words \subseteq Words'
      /\ answer' \in Seq(Words') /\ w \in Words'
  BY <1>1, <1>2, <1>3, SeqGrows DEF HearsWord, WordsInv, Known
<1>6. Known'
  <2>1. /\ hook'.partial \in Words' \cup {None} /\ collected' \in Words' \cup {None, Pending}
        /\ shown' \subseteq shown \cup {w}
    BY <1>2, <1>3, <1>4, <1>5 DEF WordsInv, Known
  <2> QED BY <1>1, <1>5, <2>1, OnlyHeard
<1>7. Submitted' /\ Listed'
  BY <1>2, <1>4, <1>5, ListedStays, SubmittedStays
<1>8. AtWork'
  BY <1>2, <1>3, <1>4 DEF WordsInv, AtWork, Same, Recognizing, NextEvent
<1>9. hook.epoch # None => hook.epoch \in Ids
  BY <1>3 DEF Settled, None
<1>10. Unattended'
  BY <1>1, <1>3, <1>4, <1>9 DEF WordsInv, Unattended, Same, HearsWord
<1>11. Fresh'
  <2>1. CASE hook.epoch = id
    BY <1>1, <1>2, <1>4, <2>1, FreshWord DEF Fresh, Same, IsCurrent, HearsWord
  <2>2. CASE hook.epoch # id
    BY <1>1, <1>2, <1>3, <1>4, <1>9, <2>2 DEF Fresh, Same, HearsWord, WordsInv
  <2> QED BY <2>1, <2>2
<1>12. Heeded'
  <2>1. CASE hook'.partial = w /\ IsCurrent(id)
    <3>1. hook.current = id \/ w \in Spared'
      BY <1>1, <1>2, <2>1, Attended, FreshWord
    <3>2. id # None
      BY <1>3 DEF None
    <3> QED BY <1>1, <1>4, <2>1, <3>1, <3>2 DEF Heeded, Same
  <2>2. CASE hook'.partial = hook.partial
    <3>1. CASE hook.partial \in Spared \cup {None}
      BY <1>5, <2>2, <3>1 DEF Heeded
    <3>2. CASE hook.partial \notin Spared \cup {None}
      <4>1. /\ hook.current # None /\ hook.current \in Ids
            /\ \/ sessions[hook.current].hearing = hook.partial
               \/ sessions[hook.current].state = "closed"
        BY <1>3, <3>2 DEF WordsInv, Heeded, Settled, None
      <4>2. CASE hook.current = id
        BY <1>1, <1>2, <1>4, <2>2, <3>2, <4>1, <4>2 DEF Heeded, HearsWord, Same
      <4>3. CASE hook.current # id
        BY <1>1, <1>4, <2>2, <4>1, <4>3 DEF Heeded, HearsWord, Same
      <4> QED BY <4>2, <4>3
    <3> QED BY <3>1, <3>2
  <2> QED BY <1>4, <2>1, <2>2
<1>13. WordsOnce'
  <2>1. Once(answer, page.over, page.delivered, hook.partial, collected, Spared', Wanted,
             typed.overtaken)
    BY <1>3, <1>5, OnceGrows DEF WordsInv, WordsOnce
  <2>2. CASE hook'.partial = hook.partial /\ shown' = shown
    BY <1>2, <2>1, <2>2 DEF WordsOnce, Wanted
  <2>3. CASE hook'.partial = w /\ shown' = shown \cup {w} /\ IsCurrent(id)
    <3>1. w \in ToSet(answer) \cup ToSet(page.over) \cup page.delivered => w \in Spared'
      BY <1>1, <2>3, FreshWord
    <3>2. hook.partial = w \/ hook.partial \in Spared \cup {None}
      BY <1>1, <1>2, <2>3, HeededWord
    <3>3. None \notin Wanted /\ Wanted' = Wanted \cup {w}
      BY <1>3, <2>3, WordsCount DEF WordsInv, Wanted
    <3>4. Once(answer, page.over, page.delivered, w, collected, Spared', Wanted \cup {w},
               typed.overtaken)
      BY <1>5, <2>1, <3>1, <3>2, <3>3 DEF Once
    <3> QED BY <1>2, <2>3, <3>3, <3>4 DEF WordsOnce
  <2> QED BY <1>4, <2>2, <2>3
<1> QED
  BY <1>5, <1>6, <1>7, <1>8, <1>10, <1>11, <1>12, <1>13 DEF OnceIInv, WordsInv

----------------------------------------------------------------------------
(* A collector is served, or the box is.                                   *)

\* The last words heard go to whoever collects.
LEMMA FinishWords ==
  ASSUME OnceIInv, IInv', ~page.left, UNCHANGED <<page, typed, requests, shown>>,
         hook.collecting, collected = Pending,
         NEW STATE h, "partial" \in DOMAIN h, Shaped(h), h.wanted => hook.wanted,
         NEW word, FinishCollecting(h, word),
         Owned', Spared \subseteq Spared', Words \subseteq Words', said' \in said..Utterances,
         word \in Words' \cup {None}, word # Pending,
         word \in ToSet(answer) \cup ToSet(page.over) \cup page.delivered => word \in Spared',
         hook.partial = word \/ hook.partial \in Spared \cup {None}
  PROVE  OnceIInv'
<1>1. WordsInv /\ Known /\ page.at = "collecting" /\ ~hook.wanted
  BY DEF OnceIInv, WordsInv, AtWork
<1>2. /\ "partial" \in DOMAIN hook' /\ hook'.partial = None /\ hook'.epoch = None
      /\ hook'.current = None /\ ~hook'.collecting /\ ~hook'.wanted
      /\ collected' = word /\ answer' = answer
  BY <1>1 DEF FinishCollecting, Shaped
<1>3. Known'
  <2>1. answer' \in Seq(Words') /\ page.over \in Seq(Words') /\ page.delivered \subseteq Words'
    BY <1>1, <1>2, SeqGrows DEF Known
  <2>2. said' \in 0..Utterances /\ shown' \subseteq 1..said'
    BY <1>1, UtterancesAssumption DEF Known
  <2> QED BY <1>1, <1>2, <2>1, <2>2 DEF Known
<1>4. Submitted' /\ Listed'
  BY <1>2, ListedStays, SubmittedStays
<1>5. AtWork' /\ Unattended' /\ Fresh' /\ Heeded'
  BY <1>1, <1>2 DEF AtWork, Unattended, Fresh, Heeded
<1>6. WordsOnce'
  <2>1. Once(answer, page.over, page.delivered, hook.partial, Pending, Spared', Wanted,
             typed.overtaken)
    BY <1>1, OnceGrows DEF WordsInv, WordsOnce
  <2>2. None \notin ToSet(answer) \cup ToSet(page.over) \cup page.delivered
    BY <1>1, Places
  <2>3. None \notin Wanted /\ Pending \notin Wanted
    BY <1>1, WordsCount
  <2>4. Once(answer, page.over, page.delivered, None, word, Spared', Wanted, typed.overtaken)
    BY <2>1, <2>2, <2>3 DEF Once
  <2> QED BY <1>2, <2>4 DEF WordsOnce, Wanted
<1> QED BY <1>3, <1>4, <1>5, <1>6 DEF OnceIInv, WordsInv

\* What is being heard goes into the box.
LEMMA FlushWords ==
  ASSUME OnceIInv, IInv', ~page.left, UNCHANGED <<page, typed, requests, said, shown, collected>>,
         ~hook.collecting, collected = Pending, Onwards,
         "partial" \in DOMAIN hook', hook'.partial = None, hook'.epoch = None, hook'.current = None,
         ~hook'.collecting, hook'.wanted => hook.wanted,
         answer' = answer \o Word(hook.partial)
  PROVE  OnceIInv'
<1>1. WordsInv /\ Known /\ page.at # "collecting"
  BY DEF OnceIInv, WordsInv, AtWork
<1>2. Owned' /\ Spared \subseteq Spared' /\ Words' = Words
  BY OwnedOnwards DEF Words
<1>3. answer \in Seq(Words) /\ hook.partial \in Words \cup {None}
  BY <1>1 DEF Known
<1>4. /\ answer' \in Seq(Words)
      /\ \A x : x \in ToSet(answer') <=> x \in ToSet(answer) \/ (x = hook.partial /\ x # None)
      /\ \A X : Distinct(answer, X)
                /\ (hook.partial # None /\ hook.partial \in ToSet(answer) => hook.partial \in X)
                => Distinct(answer', X)
  BY <1>3, Joined
<1>5. Known'
  BY <1>1, <1>2, <1>4 DEF Known
<1>6. page.at = "sent" => hook.partial \in Spared \cup {None}
  BY <1>1 DEF WordsInv, AtWork, Heeded
<1>7. Submitted' /\ Listed'
  BY <1>1, <1>2, <1>4, <1>6, ListedStays, SubmittedStays
<1>8. AtWork' /\ Unattended' /\ Fresh' /\ Heeded'
  BY <1>1 DEF WordsInv, AtWork, Unattended, Fresh, Heeded
<1>9. WordsOnce'
  <2>1. Once(answer, page.over, page.delivered, hook.partial, Pending, Spared', Wanted,
             typed.overtaken)
    BY <1>1, <1>2, OnceGrows DEF WordsInv, WordsOnce
  <2>2. None \notin ToSet(answer') \cup page.delivered /\ Pending \notin ToSet(answer')
        /\ Pending \notin page.delivered /\ None \notin Wanted /\ Pending \notin Wanted
    BY <1>1, <1>3, <1>4, Places, WordsCount DEF Known
  <2>3. Distinct(answer', Spared')
    BY <1>4, <2>1 DEF Once
  <2>4. Once(answer', page.over, page.delivered, None, Pending, Spared', Wanted, typed.overtaken)
    BY <1>4, <2>1, <2>2, <2>3 DEF Once
  <2> QED BY <2>4 DEF WordsOnce, Wanted
<1> QED BY <1>2, <1>5, <1>7, <1>8, <1>9 DEF OnceIInv, WordsInv

\* The final of an utterance, in the three cases of OnFinal.
LEMMA FinalKeeps ==
  ASSUME OnceIInv, IInv', ~page.left, NEW id \in Ids, Recognized(id),
         UNCHANGED <<page, typed, requests>>
  PROVE  OnceIInv'
<1> DEFINE w == Heard(id)
<1>1. HearsWord(id, w) /\ sessions'[id].hearing = None
  BY WordHeard DEF Recognized
<1>2. /\ OnFinal(id, w) /\ collected = Pending
      /\ sessions[id].state \in {"open", "stopping", "lost"}
  BY DEF Recognized, NextEvent
<1> HIDE DEF w
<1>3. WordsInv /\ Known /\ Shaped(hook) /\ "partial" \in DOMAIN hook /\ Ids = 1..Len(sessions)
      /\ Settled(hook, sessions, page.left)
  BY Counted DEF OnceIInv, IInv, Listed, WordsInv
<1>4. /\ Owned' /\ Spared \subseteq Spared' /\ Words \subseteq Words' /\ w \in Words'
      /\ said' \in said..Utterances
  BY <1>1 DEF HearsWord
<1>5. hook.epoch # None => hook.epoch \in Ids
  BY <1>3 DEF Settled, None
<1>6. w # Pending
  BY <1>1, <1>3, UtterancesAssumption DEF HearsWord, Known, Pending
<1>7. CASE ~IsCurrent(id)
  <2>1. UNCHANGED <<hook, shown, answer, collected>>
    BY <1>2, <1>7 DEF OnFinal
  <2>2. hook.current # id
    BY <1>3, <1>7 DEF Settled, IsCurrent
  <2>3. Known'
    BY <1>1, <1>3, <1>4, <2>1, SeqGrows, OnlyHeard DEF Known
  <2>4. Submitted' /\ Listed'
    BY <1>3, <1>4, <2>1, ListedStays, SubmittedStays
  <2>5. AtWork' /\ Unattended' /\ Fresh'
    BY <1>1, <1>2, <1>3, <1>5, <1>7, <2>1 DEF WordsInv, AtWork, Unattended, Fresh, HearsWord, IsCurrent
  <2>6. Heeded'
    <3>1. hook.current # None => hook.current \in Ids
      BY <1>3 DEF Settled, None
    <3> QED BY <1>1, <1>3, <1>4, <2>1, <2>2, <3>1 DEF WordsInv, Heeded, HearsWord
  <2>7. WordsOnce'
    BY <1>3, <1>4, <2>1, OnceGrows DEF WordsInv, WordsOnce, Wanted
  <2> QED BY <1>4, <2>3, <2>4, <2>5, <2>6, <2>7 DEF OnceIInv, WordsInv
<1>8. CASE IsCurrent(id) /\ hook.collecting
  <2>1. FinishCollecting(hook, w) /\ shown' = shown
    BY <1>2, <1>8 DEF OnFinal
  <2>2. w \in ToSet(answer) \cup ToSet(page.over) \cup page.delivered => w \in Spared'
    BY <1>1, <1>8, FreshWord
  <2>3. hook.partial = w \/ hook.partial \in Spared \cup {None}
    BY <1>1, <1>2, <1>8, HeededWord
  <2> QED BY <1>2, <1>3, <1>4, <1>8, <1>6, <2>1, <2>2, <2>3, FinishWords
<1>9. CASE IsCurrent(id) /\ ~hook.collecting
  <2>1. /\ hook' = [hook EXCEPT !.restarts = 0, !.partial = None, !.status = "listening"]
        /\ answer' = Append(answer, w) /\ shown' = shown \cup {w} /\ collected' = collected
    BY <1>2, <1>9 DEF OnFinal
  <2>2. Same(hook', hook) /\ "partial" \in DOMAIN hook' /\ hook'.partial = None
    BY <1>3, <2>1 DEF Same, Shaped
  <2>3. page.at # "collecting" /\ id # None /\ hook.epoch = id
    BY <1>2, <1>3, <1>9 DEF WordsInv, AtWork, IsCurrent, None
  <2>4. answer \in Seq(Words)
    BY <1>3 DEF Known
  <2>5. /\ ToSet(answer') = ToSet(answer) \cup {w}
        /\ \A X : Distinct(answer, X) /\ (w \in ToSet(answer) => w \in X) => Distinct(answer', X)
        /\ answer' \in Seq(Words \cup {w})
    BY <2>1, <2>4, Extended
  <2>6. answer' \in Seq(Words')
    BY <1>4, <2>5, SeqGrows
  <2>7. Known'
    <3>1. /\ hook'.partial \in Words' \cup {None} /\ collected' \in Words' \cup {None, Pending}
          /\ shown' \subseteq shown \cup {w}
      BY <1>2, <2>1, <2>2
    <3> QED BY <1>1, <2>6, <3>1, OnlyHeard
  <2>8. w \in ToSet(answer) \cup ToSet(page.over) \cup page.delivered => w \in Spared'
    BY <1>1, <1>9, FreshWord
  <2>9. hook.partial = w \/ hook.partial \in Spared \cup {None}
    BY <1>1, <1>2, <1>9, HeededWord
  <2>10. Submitted' /\ Listed'
    <3>1. page.at = "sent" => w \in Spared'
      <4>1. page.at = "sent" => sessions[id].spared
        BY <1>2, <1>3, <2>3 DEF WordsInv, AtWork, Unattended
      <4> QED BY <1>1, <1>9, <4>1, FreshWord
    <3>2. /\ ToSet(answer) \subseteq ToSet(answer')
          /\ page.at = "sent" => ToSet(answer') \subseteq ToSet(answer) \cup Spared'
      BY <2>5, <3>1
    <3> QED BY <1>4, <2>2, <2>3, <3>2, ListedStays, SubmittedStays
  <2>11. AtWork'
    BY <1>2, <1>3, <2>1, <2>2 DEF WordsInv, AtWork, Same
  <2>12. Unattended' /\ Heeded'
    BY <1>1, <1>3, <2>2, <2>3 DEF WordsInv, Unattended, Heeded, Same, HearsWord
  <2>13. Fresh'
    <3>1. None \notin ToSet(answer') \cup ToSet(page.over) \cup page.delivered
      BY <1>1, <1>3, <2>5, Places DEF HearsWord
    <3> QED BY <1>1, <2>2, <2>3, <3>1 DEF Fresh, Same
  <2>14. WordsOnce'
    <3>1. Once(answer, page.over, page.delivered, hook.partial, Pending, Spared', Wanted,
               typed.overtaken)
      BY <1>2, <1>3, <1>4, OnceGrows DEF WordsInv, WordsOnce
    <3>2. None \notin ToSet(answer) \cup page.delivered \cup {w} /\ None \notin Wanted
          /\ Pending \notin ToSet(answer) \cup page.delivered \cup {w} /\ Pending \notin Wanted
      BY <1>1, <1>3, <1>6, Places, WordsCount DEF Known, HearsWord
    <3>3. Distinct(answer', Spared')
      BY <2>5, <2>8, <3>1 DEF Once
    <3>4. Wanted' = Wanted \cup {w}
      BY <2>1 DEF Wanted
    <3>5. Once(answer', page.over, page.delivered, None, Pending, Spared', Wanted \cup {w},
               typed.overtaken)
      BY <1>4, <2>5, <2>8, <2>9, <3>1, <3>2, <3>3 DEF Once
    <3> QED BY <1>2, <2>1, <2>2, <3>4, <3>5 DEF WordsOnce
  <2> QED BY <1>4, <2>7, <2>10, <2>11, <2>12, <2>13, <2>14 DEF OnceIInv, WordsInv
<1> QED BY <1>7, <1>8, <1>9

\* One session changes, and hears nothing.
LEMMA OneOnwards ==
  ASSUME OnceIInv, NEW id \in Ids, NEW x \in Session, sessions' = [sessions EXCEPT ![id] = x],
         x.said = sessions[id].said, sessions[id].spared => x.spared,
         x.hearing \in {sessions[id].hearing, None}
  PROVE  /\ Onwards
         /\ \A i \in Ids : sessions'[i] = IF i = id THEN x ELSE sessions[i]
<1>1. Ids = 1..Len(sessions) /\ Len(sessions) \in Nat /\ sessions \in Seq(Session)
  BY Counted DEF OnceIInv, IInv
<1>2. /\ sessions' \in Seq(Session) /\ Len(sessions') = Len(sessions)
      /\ \A i \in 1..Len(sessions) : sessions'[i] = IF i = id THEN x ELSE sessions[i]
  BY <1>1, OneSession
<1>3. DOMAIN sessions' = 1..Len(sessions')
  BY <1>2
<1> QED BY <1>1, <1>2, <1>3 DEF Onwards

LEMMA StopOnwards ==
  ASSUME OnceIInv, sessions' = StopSession(sessions, hook.current)
  PROVE  Onwards
<1>1. /\ Ids = 1..Len(sessions) /\ Len(sessions) \in Nat /\ sessions \in Seq(Session)
      /\ hook.current \in 0..Len(sessions)
  BY Counted DEF OnceIInv, IInv, Settled
<1>2. CASE hook.current = 0
  BY <1>1, <1>2 DEF StopSession, Onwards, None
<1>3. CASE hook.current # 0
  <2> DEFINE x == Stop(sessions[hook.current])
  <2>1. hook.current \in Ids /\ sessions[hook.current] \in Session
    BY <1>1, <1>3
  <2>2. /\ x \in Session /\ x.said = sessions[hook.current].said
        /\ x.spared = sessions[hook.current].spared
        /\ x.hearing = sessions[hook.current].hearing
    BY <2>1 DEF Stop, Session, States
  <2>3. sessions' = [sessions EXCEPT ![hook.current] = x]
    BY <1>3 DEF StopSession, None
  <2> HIDE DEF x
  <2> QED BY <2>1, <2>2, <2>3, OneOnwards
<1> QED BY <1>1, <1>2, <1>3

\* A collector gets what is being heard.
LEMMA CollectedWords ==
  ASSUME OnceIInv, IInv', ~page.left, UNCHANGED <<page, typed, requests, said, shown>>,
         hook.collecting, collected = Pending, Onwards,
         NEW STATE h, "partial" \in DOMAIN h, Shaped(h), h.wanted => hook.wanted,
         FinishCollecting(h, hook.partial)
  PROVE  OnceIInv'
<1>1. WordsInv /\ Known /\ page.at = "collecting"
  BY DEF OnceIInv, WordsInv, AtWork
<1>2. Owned' /\ Spared \subseteq Spared' /\ Words' = Words
  BY OwnedOnwards DEF Words
<1>3. said' \in said..Utterances
  BY <1>1, UtterancesAssumption DEF Known
<1>4. ToSet(page.over) \subseteq ToSet(answer)
  BY <1>1 DEF WordsInv, Submitted
<1>5. hook.partial \in ToSet(answer) \cup ToSet(page.over) \cup page.delivered
        => hook.partial \in Spared'
  BY <1>1, <1>2, <1>4 DEF WordsInv, WordsOnce, Once
<1>6. hook.partial \in Words' \cup {None} /\ hook.partial # Pending
  BY <1>1, <1>2, WordsCount DEF Known, None, Pending
<1> QED BY <1>2, <1>3, <1>5, <1>6, FinishWords

LEMMA EndedOnwards ==
  ASSUME OnceIInv, NEW id \in Ids, sessions' = [sessions EXCEPT ![id] = Ended(@)]
  PROVE  Onwards /\ \A i \in Ids : i # id => sessions'[i] = sessions[i]
<1>1. sessions[id] \in Session
  BY Counted DEF OnceIInv
<1>2. PICK x : x = Ended(sessions[id])
  OBVIOUS
<1>3. x \in Session
  BY <1>1, <1>2, EndedFields
<1>4. x.said = sessions[id].said /\ (sessions[id].spared => x.spared) /\ x.hearing = None
  BY <1>1, <1>2 DEF Ended, Session
<1>5. sessions' = [sessions EXCEPT ![id] = x]
  BY <1>2
<1> QED BY <1>3, <1>4, <1>5, OneOnwards

LEMMA EndWords ==
  ASSUME OnceIInv, IInv', ~page.left, UNCHANGED <<page, typed, requests, said, shown>>,
         collected = Pending, NEW id \in Ids, sessions' = [sessions EXCEPT ![id] = Ended(@)],
         NEW STATE h, "partial" \in DOMAIN h, Shaped(h), h.wanted => hook.wanted,
         h.partial = hook.partial, h.collecting = hook.collecting, ~IsCurrent(id) => h = hook,
         OnEnd(id, h)
  PROVE  OnceIInv'
<1>1. Ids = 1..Len(sessions) /\ Len(sessions) \in Nat
  BY Counted DEF OnceIInv
<1>2. Onwards /\ \A i \in Ids : i # id => sessions'[i] = sessions[i]
  BY EndedOnwards
<1>3. CASE ~IsCurrent(id)
  <2>1. hook' = hook /\ UNCHANGED <<answer, collected>>
    BY <1>3 DEF OnEnd
  <2>2. WordsInv /\ Settled(hook, sessions, page.left) /\ "partial" \in DOMAIN hook
    BY DEF OnceIInv, IInv, Listed
  <2>3. hook.epoch # id /\ hook.current # id
    BY <1>1, <1>3, <2>2 DEF IsCurrent, Settled
  <2>4. (hook.epoch # None => hook.epoch \in Ids) /\ (hook.current # None => hook.current \in Ids)
    BY <1>1, <2>2 DEF Settled, None
  <2>5. AtWork' /\ Unattended'
    BY <1>2, <2>1, <2>2, <2>3, <2>4 DEF WordsInv, AtWork, Unattended
  <2> QED BY <1>2, <2>1, <2>2, <2>3, <2>4, <2>5, QuietKeeps
<1>4. CASE IsCurrent(id) /\ hook.collecting
  <2>1. FinishCollecting(h, hook.partial)
    BY <1>4 DEF OnEnd
  <2> QED BY <1>2, <1>4, <2>1, CollectedWords
<1>5. CASE IsCurrent(id) /\ ~hook.collecting
  <2>1. answer' = answer \o Word(hook.partial) /\ hook' = AfterEnd(Retired(h)) /\ UNCHANGED collected
    BY <1>5 DEF OnEnd
  <2>2. PICK r : r = Retired(h)
    OBVIOUS
  <2>3. /\ Shaped(r) /\ r.epoch = 0 /\ r.current = 0
        /\ r.wanted = h.wanted /\ r.retry = h.retry /\ r.collecting = h.collecting
    BY <2>2, RetiredFields
  <2>4. "partial" \in DOMAIN r /\ r.partial = None
    BY <2>2 DEF Retired
  <2>5. hook' = AfterEnd(r)
    BY <2>1, <2>2
  <2>6. /\ "partial" \in DOMAIN hook' /\ hook'.partial = None /\ hook'.epoch = None
        /\ hook'.current = None /\ ~hook'.collecting /\ (hook'.wanted => hook.wanted)
    <3>1. CASE ~r.wanted
      <4>1. hook' = [r EXCEPT !.status = Quiet(@)]
        BY <2>3, <2>5, <3>1 DEF AfterEnd, Shaped
      <4> QED BY <1>5, <2>3, <2>4, <4>1 DEF Shaped, None
    <3>2. CASE r.wanted /\ r.restarts >= MaxSilentRestarts
      <4>1. hook' = [r EXCEPT !.wanted = FALSE, !.status = "unavailable"]
        BY <2>3, <2>5, <3>2 DEF AfterEnd, Shaped
      <4> QED BY <1>5, <2>3, <2>4, <4>1 DEF Shaped, None
    <3>3. CASE r.wanted /\ ~(r.restarts >= MaxSilentRestarts)
      <4>1. hook' = [r EXCEPT !.restarts = @ + 1, !.retry = TRUE, !.status = "restarting"]
        BY <2>3, <2>5, <3>3 DEF AfterEnd, Shaped
      <4> QED BY <1>5, <2>3, <2>4, <4>1 DEF Shaped, None
    <3> QED BY <3>1, <3>2, <3>3
  <2> QED BY <1>2, <1>5, <2>1, <2>6, FlushWords
<1> QED BY <1>3, <1>4, <1>5

\* A session's end, and the grace period's.
LEMMA EndsKeep ==
  ASSUME OnceIInv, IInv', ~page.left, UNCHANGED <<page, typed, requests>>,
         \/ GraceElapsed
         \/ \E id \in Ids : BrowserEnded(id) \/ \E fatal \in BOOLEAN : Canceled(id, fatal)
  PROVE  OnceIInv'
<1>1. Shaped(hook) /\ "partial" \in DOMAIN hook
  BY DEF OnceIInv, IInv, Listed
<1>2. CASE GraceElapsed
  <2>1. Onwards
    BY <1>2, Counted DEF GraceElapsed, Onwards, OnceIInv, Ids
  <2> QED BY <1>1, <1>2, <2>1, CollectedWords DEF GraceElapsed, NextEvent
<1>3. ASSUME NEW id \in Ids, BrowserEnded(id) PROVE OnceIInv'
  BY <1>1, <1>3, EndWords DEF BrowserEnded, NextEvent
<1>4. ASSUME NEW id \in Ids, NEW fatal \in BOOLEAN, Canceled(id, fatal) PROVE OnceIInv'
  <2> DEFINE h == OnError(id, fatal)
  <2>1. /\ Shaped(h) /\ h.collecting = hook.collecting /\ (h.wanted => hook.wanted)
        /\ (~IsCurrent(id) => h = hook)
    BY <1>1, OnErrorFields
  <2>2. "partial" \in DOMAIN h /\ h.partial = hook.partial
    BY <1>1 DEF OnError
  <2>3. /\ OnEnd(id, h) /\ collected = Pending /\ UNCHANGED <<said, shown>>
        /\ sessions' = [sessions EXCEPT ![id] = Ended(@)]
    BY <1>4 DEF Canceled, NextEvent
  <2> HIDE DEF h
  <2> QED BY <2>1, <2>2, <2>3, EndWords
<1> QED BY <1>2, <1>3, <1>4

----------------------------------------------------------------------------
(* Steps of the microphone that move no word.                              *)

\* What these steps rest on.
Poised == /\ WordsInv /\ collected = Pending /\ Ids = 1..Len(sessions) /\ Len(sessions) \in Nat
          /\ Settled(hook, sessions, page.left) /\ Shaped(hook) /\ "partial" \in DOMAIN hook
          /\ (hook.epoch # None => hook.epoch \in Ids)
          /\ (hook.current # None => hook.current \in Ids)
          /\ \A id \in Ids : id # None

LEMMA PoisedHere == ASSUME OnceIInv, ~page.left, NextEvent PROVE Poised
<1>1. Ids = 1..Len(sessions) /\ Len(sessions) \in Nat
  BY Counted DEF OnceIInv
<1> QED BY <1>1 DEF OnceIInv, IInv, Listed, NextEvent, Settled, None, Poised

\* A session that is opening is not yet the one the hook can stop.
LEMMA OpeningOnes ==
  ASSUME Poised, ~page.left, NEW id \in Ids, sessions[id].state = "opening"
  PROVE  hook.current # id /\ (IsCurrent(id) => hook.current = None)
BY DEF Poised, Settled, IsCurrent, None

LEMMA OpenedWords ==
  ASSUME OnceIInv, IInv', ~page.left, UNCHANGED <<page, typed, requests>>,
         NEW id \in Ids, Opened(id)
  PROVE  OnceIInv'
<1>1. Poised /\ sessions[id] \in Session
  BY PoisedHere, Counted DEF Opened, OnceIInv
<1>2. /\ sessions[id].state = "opening" /\ UNCHANGED <<said, shown, answer, collected>>
  BY DEF Opened
<1>3. hook.current # id /\ (IsCurrent(id) => hook.current = None)
  BY <1>1, <1>2, OpeningOnes
<1>4. PICK open : open = [sessions[id] EXCEPT !.state = "open"]
  OBVIOUS
<1>5. /\ open \in Session /\ open.said = sessions[id].said
      /\ (sessions[id].spared => open.spared) /\ open.hearing = sessions[id].hearing
  BY <1>1, <1>4 DEF Session, States
<1>6. CASE StillWanted(id)
  <2>1. /\ sessions' = [sessions EXCEPT ![id] = open]
        /\ hook' = [hook EXCEPT !.current = id, !.status = "listening"]
    BY <1>4, <1>6 DEF Opened
  <2>2. Onwards /\ \A i \in Ids : i # id => sessions'[i] = sessions[i]
    <3>1. open.hearing \in {sessions[id].hearing, None}
      BY <1>5
    <3>2. Onwards /\ \A i \in Ids : sessions'[i] = IF i = id THEN open ELSE sessions[i]
      BY <1>5, <2>1, <3>1, OneOnwards
    <3> QED BY <3>2
  <2>3. /\ hook'.partial = hook.partial /\ "partial" \in DOMAIN hook'
        /\ hook'.epoch = hook.epoch /\ hook'.current = id /\ hook'.wanted = hook.wanted
        /\ hook'.collecting = hook.collecting
    BY <1>1, <2>1 DEF Poised, Shaped
  <2>4. hook.wanted /\ hook.current = None
    BY <1>3, <1>6 DEF StillWanted
  <2>5. AtWork' /\ Unattended'
    BY <1>1, <1>2, <2>3, <2>4 DEF Poised, WordsInv, AtWork, Unattended
  <2> QED BY <1>2, <2>2, <2>3, <2>4, <2>5, QuietKeeps
<1>7. CASE ~StillWanted(id)
  <2>1. PICK x : x = Stop(open)
    OBVIOUS
  <2>2. sessions' = [sessions EXCEPT ![id] = x] /\ hook' = hook
    BY <1>4, <1>7, <2>1 DEF Opened
  <2>3. /\ x \in Session /\ x.said = sessions[id].said
        /\ (sessions[id].spared => x.spared) /\ x.hearing = sessions[id].hearing
    BY <1>5, <2>1 DEF Stop, Session, States
  <2>4. Onwards /\ \A i \in Ids : sessions'[i] = IF i = id THEN x ELSE sessions[i]
    BY <2>2, <2>3, OneOnwards
  <2>5. AtWork'
    BY <1>1, <1>2, <2>2 DEF Poised, WordsInv, AtWork
  <2>6. Unattended'
    BY <1>1, <1>2, <1>7, <2>2, <2>3, <2>4
       DEF Poised, WordsInv, Unattended, StillWanted, IsCurrent
  <2> QED BY <1>1, <1>2, <1>3, <2>2, <2>4, <2>5, <2>6, QuietKeeps DEF Poised
<1> QED BY <1>6, <1>7

\* A session that will not open.
LEMMA RejectedWords ==
  ASSUME OnceIInv, IInv', ~page.left, UNCHANGED <<page, typed, requests>>,
         NEW id \in Ids, OpenFails(id) \/ OpenTimesOut(id)
  PROVE  OnceIInv'
<1>1. Poised /\ sessions[id] \in Session
  BY PoisedHere, Counted DEF OpenFails, OpenTimesOut, OnceIInv
<1>2. /\ sessions[id].state = "opening" /\ UNCHANGED <<said, shown, answer, collected>>
      /\ Rejected(id)
  BY DEF OpenFails, OpenTimesOut
<1>3. hook.current # id /\ (IsCurrent(id) => hook.current = None)
  BY <1>1, <1>2, OpeningOnes
<1>4. PICK x : /\ x \in Session /\ x.said = sessions[id].said
               /\ (sessions[id].spared => x.spared) /\ x.hearing = sessions[id].hearing
               /\ x.state = "closed" \/ x.spared
               /\ sessions' = [sessions EXCEPT ![id] = x]
  <2>1. CASE OpenFails(id)
    <3>1. PICK x : x = [sessions[id] EXCEPT !.state = "closed"]
      OBVIOUS
    <3>2. /\ x \in Session /\ x.said = sessions[id].said
          /\ (sessions[id].spared => x.spared) /\ x.hearing = sessions[id].hearing
          /\ x.state = "closed"
      BY <1>1, <3>1 DEF Session, States
    <3> QED BY <2>1, <3>1, <3>2 DEF OpenFails
  <2>2. CASE OpenTimesOut(id)
    <3>1. PICK x : x = [sessions[id] EXCEPT !.state = "lost", !.spared = TRUE]
      OBVIOUS
    <3>2. /\ x \in Session /\ x.said = sessions[id].said
          /\ x.spared /\ x.hearing = sessions[id].hearing
      BY <1>1, <3>1 DEF Session, States
    <3>3. sessions' = [sessions EXCEPT ![id] = x]
      BY <2>2, <3>1 DEF OpenTimesOut
    <3> QED BY <3>2, <3>3
  <2> QED BY <2>1, <2>2
<1>5. Onwards /\ \A i \in Ids : sessions'[i] = IF i = id THEN x ELSE sessions[i]
  BY <1>4, OneOnwards
<1>6. /\ hook'.partial = hook.partial /\ "partial" \in DOMAIN hook'
      /\ hook'.epoch = hook.epoch /\ hook'.current = hook.current
      /\ (hook'.wanted => hook.wanted) /\ (hook'.wanted # hook.wanted => IsCurrent(id))
      /\ hook'.collecting = hook.collecting
  BY <1>1, <1>2, <1>3 DEF Poised, Shaped, Rejected
<1>7. AtWork'
  BY <1>1, <1>2, <1>6 DEF Poised, WordsInv, AtWork
<1>8. Unattended'
  BY <1>1, <1>4, <1>5, <1>6 DEF Poised, WordsInv, Unattended, IsCurrent
<1> QED BY <1>1, <1>2, <1>3, <1>5, <1>6, <1>7, <1>8, QuietKeeps DEF Poised

LEMMA DisposedWords ==
  ASSUME OnceIInv, IInv', ~page.left, UNCHANGED <<page, typed, requests>>,
         NEW id \in Ids, Disposed(id)
  PROVE  OnceIInv'
<1>1. Poised /\ sessions[id] \in Session
  BY PoisedHere, Counted DEF Disposed, OnceIInv
<1>2. UNCHANGED <<hook, said, shown, answer, collected>> /\ sessions[id].state = "stopping"
  BY DEF Disposed
<1>3. PICK x : x = [sessions[id] EXCEPT !.state = "closed", !.hearing = None]
  OBVIOUS
<1>4. /\ x \in Session /\ x.said = sessions[id].said
      /\ (sessions[id].spared => x.spared) /\ x.hearing = None /\ x.state = "closed"
  <2>1. "closed" \in States /\ None \in Int
    BY DEF States, None
  <2> QED BY <1>1, <1>3, <2>1 DEF Session
<1>5. sessions' = [sessions EXCEPT ![id] = x]
  BY <1>3 DEF Disposed
<1>6. Onwards /\ \A i \in Ids : sessions'[i] = IF i = id THEN x ELSE sessions[i]
  BY <1>4, <1>5, OneOnwards
<1>7. AtWork' /\ Unattended'
  BY <1>1, <1>2, <1>4, <1>6 DEF Poised, WordsInv, AtWork, Unattended
<1> QED BY <1>1, <1>2, <1>4, <1>6, <1>7, QuietKeeps DEF Poised

LEMMA ErredWords ==
  ASSUME OnceIInv, IInv', ~page.left, UNCHANGED <<page, typed, requests>>,
         NEW id \in Ids, Erred(id)
  PROVE  OnceIInv'
<1>1. Poised
  BY PoisedHere DEF Erred
<1>2. /\ UNCHANGED <<sessions, said, shown, answer, collected>> /\ hook' = OnError(id, TRUE)
      /\ sessions[id].state \in {"open", "stopping", "lost"}
  BY DEF Erred
<1>3. /\ hook'.partial = hook.partial /\ "partial" \in DOMAIN hook'
      /\ hook'.epoch = hook.epoch /\ hook'.current = hook.current
      /\ (hook'.wanted => hook.wanted) /\ (hook'.wanted # hook.wanted => IsCurrent(id))
      /\ hook'.collecting = hook.collecting
  BY <1>1, <1>2 DEF Poised, Shaped, OnError
<1>4. Onwards
  BY <1>1, <1>2 DEF Poised, Onwards, Ids
<1>5. AtWork' /\ Unattended'
  BY <1>1, <1>2, <1>3 DEF Poised, WordsInv, AtWork, Unattended, IsCurrent
<1> QED BY <1>2, <1>3, <1>4, <1>5, QuietKeeps

\* A new session.
LEMMA OpenWords ==
  ASSUME OnceIInv, IInv', ~page.left, UNCHANGED <<page, typed, requests, said, shown, answer, collected>>,
         NextEvent, hook.current = None, page.at = "free",
         NEW STATE h, Shaped(h), h.wanted, "partial" \in DOMAIN h, h.partial = hook.partial,
         h.current = hook.current, h.collecting = hook.collecting, OpenSession(h)
  PROVE  OnceIInv'
<1>1. Poised
  BY PoisedHere
<1>2. sessions' = Append(sessions, NewSession)
  BY DEF OpenSession, StopSession
<1>3. /\ hook'.partial = hook.partial /\ "partial" \in DOMAIN hook' /\ hook'.current = None
      /\ hook'.epoch = Len(sessions) + 1 /\ hook'.wanted /\ hook'.collecting = hook.collecting
  BY DEF OpenSession, Shaped
<1>4. /\ Len(sessions') = Len(sessions) + 1 /\ DOMAIN sessions' = 1..Len(sessions')
      /\ \A i \in 1..Len(sessions) : sessions'[i] = sessions[i]
      /\ sessions'[Len(sessions) + 1] = NewSession
  <2>1. sessions \in Seq(Session) /\ Len(sessions) \in Nat
    BY <1>1 DEF OnceIInv, IInv, Poised
  <2> QED BY <1>2, <2>1
<1>5. NewSession.said = {} /\ NewSession.hearing = None /\ NewSession.state = "opening"
  BY DEF NewSession
<1>6. Onwards
  <2>1. \A i \in 1..Len(sessions') : i > Len(sessions) => i = Len(sessions) + 1
    BY <1>1, <1>4 DEF Poised
  <2> QED BY <1>1, <1>4, <1>5, <2>1 DEF Onwards, Poised
<1>7. AtWork'
  BY <1>1, <1>3 DEF Poised, WordsInv, AtWork
<1>8. Unattended'
  BY <1>3, <1>4, <1>5 DEF Unattended
<1> QED BY <1>1, <1>3, <1>6, <1>7, <1>8, QuietKeeps DEF Poised

LEMMA RestartWords ==
  ASSUME OnceIInv, IInv', ~page.left, UNCHANGED <<page, typed, requests>>, Restart
  PROVE  OnceIInv'
<1>1. Poised /\ hook.retry
  BY PoisedHere DEF Restart
<1>2. hook.wanted /\ hook.current = None
  BY <1>1 DEF Poised, Settled, None
<1>3. page.at = "free"
  BY <1>1, <1>2 DEF Poised, WordsInv, AtWork
<1> DEFINE h == [hook EXCEPT !.retry = FALSE]
<1>4. /\ Shaped(h) /\ h.wanted /\ "partial" \in DOMAIN h /\ h.partial = hook.partial
      /\ h.current = hook.current /\ h.collecting = hook.collecting
  BY <1>1, <1>2 DEF Poised, Shaped
<1>5. OpenSession(h) /\ NextEvent /\ UNCHANGED <<said, shown, answer, collected>>
  BY DEF Restart
<1> HIDE DEF h
<1> QED BY <1>2, <1>3, <1>4, <1>5, OpenWords

\* The microphone's button: what is being heard is flushed, or a session is opened.
LEMMA ToggleWords ==
  ASSUME OnceIInv, IInv', ~page.left, PressMicrophone
  PROVE  OnceIInv'
<1>1. Poised /\ Toggle /\ NextEvent /\ ~Locked /\ UNCHANGED <<page, typed, requests>>
  BY PoisedHere DEF PressMicrophone, Here, Toggle, pageVars
<1>2. CASE hook.wanted
  <2>1. StopListening /\ UNCHANGED <<said, shown>>
    BY <1>1, <1>2 DEF Toggle
  <2>2. ~hook.collecting
    BY <1>1, <1>2 DEF Poised, Settled
  <2> DEFINE h == [hook EXCEPT !.wanted = FALSE, !.retry = FALSE, !.status = "idle"]
  <2>3. Shaped(h) /\ ~h.wanted /\ h.collecting = hook.collecting /\ "partial" \in DOMAIN h
    BY <1>1 DEF Poised, Shaped
  <2>4. hook' = Retired(h)
    BY <2>1 DEF StopListening
  <2> HIDE DEF h
  <2>5. /\ "partial" \in DOMAIN hook' /\ hook'.partial = None /\ hook'.epoch = None
        /\ hook'.current = None /\ ~hook'.collecting /\ ~hook'.wanted
    BY <2>2, <2>3, <2>4 DEF Retired, Shaped
  <2>6. Onwards
    BY <2>1, StopOnwards DEF StopListening
  <2> QED BY <1>1, <2>1, <2>2, <2>5, <2>6, FlushWords DEF StopListening, Poised
<1>3. CASE ~hook.wanted
  <2>1. Start
    BY <1>1, <1>3 DEF Toggle
  <2>2. hook.current = None
    BY <2>1 DEF Start
  <2>3. page.at = "free"
    BY <1>1, <2>2 DEF Poised, WordsInv, AtWork, Locked, Submitting, Settled, None
  <2> DEFINE h == [hook EXCEPT !.wanted = TRUE, !.restarts = 0]
  <2>4. /\ Shaped(h) /\ h.wanted /\ "partial" \in DOMAIN h /\ h.partial = hook.partial
        /\ h.current = hook.current /\ h.collecting = hook.collecting
    BY <1>1 DEF Poised, Shaped
  <2>5. OpenSession(h) /\ UNCHANGED <<said, shown, answer, collected>>
    BY <2>1 DEF Start
  <2> HIDE DEF h
  <2> QED BY <1>1, <2>2, <2>3, <2>4, <2>5, OpenWords
<1> QED BY <1>2, <1>3

LEMMA HookKeeps ==
  ASSUME OnceIInv, IInv', ~page.left, HookNext
  PROVE  OnceIInv'
<1>1. UNCHANGED <<page, typed, requests>>
  BY DEF HookNext, pageVars
<1>2. \A id \in Ids : Recognizing(id) \/ Recognized(id) => OnceIInv'
  BY <1>1, PartialKeeps, FinalKeeps
<1>3. \A id \in Ids : Opened(id) \/ OpenFails(id) \/ OpenTimesOut(id) \/ Disposed(id) \/ Erred(id)
                        => OnceIInv'
  BY <1>1, OpenedWords, RejectedWords, DisposedWords, ErredWords
<1>4. \A id \in Ids : BrowserEnded(id) \/ (\E fatal \in BOOLEAN : Canceled(id, fatal)) => OnceIInv'
  BY <1>1, EndsKeep
<1>5. GraceElapsed \/ Restart => OnceIInv'
  BY <1>1, EndsKeep, RestartWords
<1> QED BY <1>2, <1>3, <1>4, <1>5 DEF HookNext, RecognizerNext

----------------------------------------------------------------------------
(* The page.                                                               *)

LEMMA TypeWords ==
  ASSUME OnceIInv, IInv', ~page.left, Type
  PROVE  OnceIInv'
<1>1. Poised /\ page.at \in {"free", "collecting"} /\ Known /\ Owned /\ Listed
  BY PoisedHere DEF Type, Here, Locked, Submitting, Poised, WordsInv, AtWork, OnceIInv
<1> DEFINE w == Utterances + typed.count + 1
<1>2. /\ answer' = Append(answer, w)
      /\ typed' = [count |-> typed.count + 1,
                   overtaken |-> IF Free THEN typed.overtaken ELSE typed.overtaken \cup {w}]
      /\ UNCHANGED <<hook, sessions, said, shown, collected, page, requests>>
  BY DEF Type
<1>3. w \notin Words /\ w # None /\ w # Pending
  BY <1>1, WordsCount, UtterancesAssumption DEF Known, None, Pending
<1>4. Words' = Words \cup {w} /\ Wanted' = Wanted \cup {w} /\ typed'.count \in Nat
  <2>1. PICK n \in Nat : n = typed.count
    BY <1>1 DEF Known
  <2>2. \A u \in Nat : u + 1..u + (n + 1) = (u + 1..u + n) \cup {u + n + 1}
    OBVIOUS
  <2>3. typed'.count = n + 1 /\ w = Utterances + n + 1
    BY <1>2, <2>1
  <2>4. Utterances + 1..Utterances + typed'.count
          = (Utterances + 1..Utterances + typed.count) \cup {w}
    BY <2>1, <2>2, <2>3, UtterancesAssumption
  <2> QED BY <1>2, <2>1, <2>3, <2>4 DEF Words, Wanted
<1>5. /\ DOMAIN typed' = {"count", "overtaken"} /\ typed.overtaken \subseteq typed'.overtaken
      /\ page.at = "collecting" => w \in typed'.overtaken
  BY <1>2 DEF Free
<1> HIDE DEF w
<1>6. /\ answer \in Seq(Words) /\ answer' \in Seq(Words') /\ ToSet(answer') = ToSet(answer) \cup {w}
      /\ \A X : Distinct(answer, X) /\ (w \in ToSet(answer) => w \in X) => Distinct(answer', X)
  BY <1>1, <1>2, <1>4, Extended DEF Known
<1>7. ToSet(answer) \subseteq Words /\ ToSet(page.over) \subseteq Words /\ page.delivered \subseteq Words
  BY <1>1, Places DEF Known
<1>8. Known'
  <2>1. page.over \in Seq(Words')
    BY <1>1, <1>4, SeqGrows DEF Known
  <2> QED BY <1>1, <1>2, <1>4, <1>6, <2>1 DEF Known
<1>9. Spared' = Spared /\ Owned' /\ AtWork' /\ Unattended' /\ Heeded'
  <2>1. Spared' = Spared
    BY <1>2 DEF Spared, Ids
  <2>2. Owned'
    BY <1>1, <1>2 DEF Owned, Ids
  <2> QED BY <1>1, <1>2, <2>1, <2>2 DEF Poised, WordsInv, AtWork, Unattended, Heeded
<1>10. Fresh'
  <2>1. hook.epoch # None => sessions[hook.epoch].hearing # w
    <3> SUFFICES ASSUME hook.epoch # None PROVE sessions[hook.epoch].hearing # w
      OBVIOUS
    <3>1. sessions[hook.epoch].hearing \in 1..said \cup {None}
      BY <1>1 DEF Poised, Owned
    <3> QED BY <1>3, <3>1 DEF Words
  <2> QED BY <1>1, <1>2, <1>6, <2>1 DEF Poised, WordsInv, Fresh
<1>11. Submitted'
  BY <1>1, <1>2, <1>5, <1>6, <1>9 DEF Poised, WordsInv, Submitted
<1>12. Listed'
  BY <1>1, <1>2, <1>5 DEF Listed
<1>13. WordsOnce'
  <2>1. Once(answer, page.over, page.delivered, hook.partial, collected, Spared, Wanted,
             typed.overtaken)
    BY <1>1 DEF Poised, WordsInv, WordsOnce
  <2>2. w # hook.partial /\ w # collected /\ w \notin page.delivered /\ w \notin ToSet(answer)
    BY <1>1, <1>3, <1>7 DEF Known
  <2>3. Distinct(answer', Spared)
    BY <1>6, <2>1, <2>2 DEF Once
  <2>4. Once(answer', page.over, page.delivered, hook.partial, collected, Spared, Wanted \cup {w},
             typed'.overtaken)
    BY <1>5, <1>6, <2>1, <2>2, <2>3 DEF Once
  <2> QED BY <1>2, <1>4, <1>9, <2>4 DEF WordsOnce
<1> QED
  BY <1>8, <1>9, <1>10, <1>11, <1>12, <1>13 DEF OnceIInv, WordsInv

\* The page changes, and what goes with no word.
LEMMA PageWords ==
  ASSUME OnceIInv, IInv', ~page.left, UNCHANGED <<hook, sessions, said, shown, answer, collected, typed>>,
         DOMAIN page' = {"turn", "at", "over", "next", "left", "delivered"},
         page'.over = page.over, page'.delivered = page.delivered,
         AtWork', Submitted', Listed'
  PROVE  OnceIInv'
<1>1. WordsInv
  BY DEF OnceIInv
<1>2. Spared' = Spared /\ Owned' /\ Words' = Words /\ Wanted' = Wanted
  BY <1>1 DEF WordsInv, Owned, Spared, Ids, Words, Wanted
<1>3. Known' /\ Unattended' /\ Fresh' /\ Heeded'
  BY <1>1, <1>2 DEF WordsInv, Known, Unattended, Fresh, Heeded
<1>4. WordsOnce'
  BY <1>1, <1>2 DEF WordsInv, WordsOnce
<1> QED BY <1>2, <1>3, <1>4 DEF OnceIInv, WordsInv

\* The server's steps.
LEMMA ServerWords ==
  ASSUME OnceIInv, IInv', AnotherTab \/ \E k \in DOMAIN requests : Receive(k)
  PROVE  OnceIInv'
<1>1. ~page.left /\ UNCHANGED <<hook, sessions, said, shown, answer, collected, typed, page>>
  BY DEF AnotherTab, Receive, inputVars
<1>2. WordsInv /\ Listed
  BY <1>1 DEF OnceIInv
<1>3. AtWork'
  BY <1>1, <1>2 DEF WordsInv, AtWork
<1>4. Len(requests') = Len(requests) /\ DOMAIN requests' = 1..Len(requests)
      /\ requests' = [k \in 1..Len(requests') |-> requests'[k]]
      /\ \A k \in 1..Len(requests) : DOMAIN requests'[k] = DOMAIN requests[k]
                                     /\ requests'[k].words = requests[k].words
  <2>0. DOMAIN requests = 1..Len(requests)
    BY <1>2 DEF Listed
  <2>1. CASE AnotherTab
    <3>1. requests' = requests
      BY <2>1 DEF AnotherTab
    <3> QED BY <1>2, <2>0, <3>1 DEF Listed
  <2>2. ASSUME NEW k \in DOMAIN requests, Receive(k)
        PROVE  /\ Len(requests') = Len(requests) /\ DOMAIN requests' = 1..Len(requests)
               /\ requests' = [i \in 1..Len(requests') |-> requests'[i]]
               /\ \A i \in 1..Len(requests) : DOMAIN requests'[i] = DOMAIN requests[i]
                                              /\ requests'[i].words = requests[i].words
    <3>1. PICK reply, next : requests' = [requests EXCEPT ![k].reply = reply, ![k].next = next]
      BY <2>2 DEF Receive
    <3>2. PICK x : x = [requests[k] EXCEPT !.reply = reply, !.next = next]
      OBVIOUS
    <3>3. DOMAIN x = DOMAIN requests[k] /\ x.words = requests[k].words
      BY <1>2, <2>0, <3>2 DEF Listed
    <3>4. requests' = [requests EXCEPT ![k] = x]
      BY <2>0, <3>1, <3>2
    <3>5. DOMAIN requests' = 1..Len(requests)
      BY <2>0, <3>4
    <3>6. Len(requests') = Len(requests)
      BY <1>2, <3>5 DEF Listed
    <3>7. \A i \in 1..Len(requests) : requests'[i] = IF i = k THEN x ELSE requests[i]
      BY <2>0, <3>4
    <3>8. requests' = [i \in DOMAIN requests' |-> requests'[i]]
      BY <3>4
    <3> QED BY <3>3, <3>5, <3>6, <3>7, <3>8
  <2> QED BY <2>1, <2>2
<1>5. Listed'
  BY <1>1, <1>2, <1>4 DEF Listed
<1>6. Submitted'
  <2>1. requests # <<>> => requests' # <<>> /\ Last(requests').words = Last(requests).words
    <3> SUFFICES ASSUME requests # <<>>
                 PROVE  requests' # <<>> /\ Last(requests').words = Last(requests).words
      OBVIOUS
    <3>1. Len(requests) \in Nat /\ Len(requests) # 0
      BY <1>2 DEF Listed
    <3>2. Len(requests) \in 1..Len(requests)
      BY <3>1
    <3> QED BY <1>4, <3>1, <3>2 DEF Last
  <2>2. Spared' = Spared
    BY <1>1 DEF Spared, Ids
  <2> QED BY <1>1, <1>2, <2>1, <2>2 DEF WordsInv, Submitted
<1> QED BY <1>1, <1>2, <1>3, <1>5, <1>6, PageWords DEF Listed

\* handleSubmit closes over the answer, and stops the microphone.
LEMMA PressSendWords ==
  ASSUME OnceIInv, IInv', ~page.left, PressSend
  PROVE  OnceIInv'
<1>1. Poised /\ Known /\ Listed
  BY PoisedHere DEF PressSend, Here, Poised, WordsInv, OnceIInv
<1>2. /\ page.at = "free" /\ page.over = <<>>
      /\ StopAndCollect /\ page' = [page EXCEPT !.at = "collecting", !.over = answer]
      /\ UNCHANGED <<said, shown, answer, typed, requests>>
  BY <1>1 DEF PressSend, Free, Poised, WordsInv, AtWork
<1>3. /\ DOMAIN page' = {"turn", "at", "over", "next", "left", "delivered"}
      /\ page'.at = "collecting" /\ page'.over = answer /\ page'.delivered = page.delivered
  BY <1>1, <1>2 DEF Listed
<1>4. PICK h : h = [hook EXCEPT !.wanted = FALSE, !.retry = FALSE]
  OBVIOUS
<1>5. /\ "partial" \in DOMAIN h /\ h.partial = hook.partial /\ ~h.wanted /\ h.current = hook.current
      /\ h.epoch = hook.epoch /\ DOMAIN h = DOMAIN hook
  BY <1>1, <1>4 DEF Poised, Shaped
<1>6. Listed' <=> "partial" \in DOMAIN hook'
  BY <1>1, <1>2, <1>3 DEF Listed
<1>7. None \notin ToSet(answer) \cup page.delivered /\ None \notin Wanted /\ Wanted' = Wanted
      /\ Pending \notin ToSet(answer) \cup page.delivered /\ Pending \notin Wanted /\ Words' = Words
  BY <1>1, <1>2, Places, WordsCount DEF Known, Words, Wanted
<1>8. Once(answer, <<>>, page.delivered, hook.partial, Pending, Spared, Wanted, typed.overtaken)
  BY <1>1, <1>2 DEF Poised, WordsInv, WordsOnce
<1>9. CASE hook.current = None
  <2>1. /\ collected' = h.partial /\ hook' = [h EXCEPT !.partial = None]
        /\ sessions' = [id \in Ids |-> [sessions[id] EXCEPT !.spared = @ \/ IsCurrent(id)]]
    BY <1>2, <1>4, <1>9 DEF StopAndCollect
  <2>2. /\ hook'.partial = None /\ "partial" \in DOMAIN hook' /\ ~hook'.wanted
        /\ hook'.current = None /\ hook'.epoch = hook.epoch
    BY <1>5, <1>9, <2>1 DEF Shaped
  <2>3. \A id \in Ids : /\ sessions'[id].said = sessions[id].said
                        /\ sessions'[id].hearing = sessions[id].hearing
                        /\ sessions[id].spared => sessions'[id].spared
                        /\ IsCurrent(id) => sessions'[id].spared
    <3> SUFFICES ASSUME NEW id \in Ids
                 PROVE  /\ sessions'[id].said = sessions[id].said
                        /\ sessions'[id].hearing = sessions[id].hearing
                        /\ sessions[id].spared => sessions'[id].spared
                        /\ IsCurrent(id) => sessions'[id].spared
      OBVIOUS
    <3>1. PICK s : s = sessions[id]
      OBVIOUS
    <3>2. s \in Session
      BY <3>1, Counted DEF OnceIInv
    <3>3. PICK v : v = (s.spared \/ IsCurrent(id))
      OBVIOUS
    <3>4. sessions'[id] = [s EXCEPT !.spared = v]
      BY <2>1, <3>1, <3>3
    <3>5. sessions'[id].said = s.said /\ sessions'[id].hearing = s.hearing /\ sessions'[id].spared = v
      BY <3>2, <3>4 DEF Session
    <3> QED BY <3>1, <3>3, <3>5
  <2>4. Len(sessions') = Len(sessions) /\ DOMAIN sessions' = Ids
    <3>1. DOMAIN sessions' = 1..Len(sessions)
      BY <1>1, <2>1 DEF Poised
    <3>2. sessions' \in Seq(Session)
      BY DEF IInv
    <3> QED BY <1>1, <3>1, <3>2 DEF Poised
  <2>5. Onwards
    BY <1>1, <2>3, <2>4 DEF Onwards, Poised
  <2>6. Owned' /\ Spared \subseteq Spared'
    BY <1>2, <2>5, OwnedOnwards
  <2>7. Known'
    BY <1>1, <1>2, <1>3, <1>5, <1>7, <2>1, <2>2 DEF Known
  <2>8. collected' # Pending
    BY <1>1, <1>5, <2>1, WordsCount DEF Known, None, Pending
  <2>9. hook.epoch # None => sessions'[hook.epoch].spared
    BY <1>1, <2>3 DEF Poised, IsCurrent
  <2>10. AtWork' /\ Unattended' /\ Fresh' /\ Heeded'
    BY <1>3, <2>2, <2>8, <2>9 DEF AtWork, Unattended, Fresh, Heeded
  <2>11. Distinct(answer, Spared')
    BY <1>8, <2>6, Excused DEF Once
  <2>12. Submitted'
    BY <1>2, <1>3, <2>11 DEF Submitted
  <2>13. Once(answer, answer, page.delivered, None, hook.partial, Spared', Wanted, typed.overtaken)
    BY <1>7, <1>8, <2>6, <2>11, NoWords DEF Once
  <2>14. WordsOnce'
    BY <1>2, <1>3, <1>5, <1>7, <2>1, <2>2, <2>13 DEF WordsOnce
  <2> QED BY <1>6, <2>2, <2>6, <2>7, <2>10, <2>12, <2>14 DEF OnceIInv, WordsInv
<1>10. CASE hook.current # None
  <2>1. /\ collected' = Pending /\ hook' = [h EXCEPT !.collecting = TRUE]
        /\ sessions' = StopSession(sessions, hook.current)
    BY <1>1, <1>2, <1>4, <1>10 DEF StopAndCollect, Poised
  <2>2. /\ hook'.partial = hook.partial /\ "partial" \in DOMAIN hook' /\ ~hook'.wanted
        /\ hook'.current = hook.current /\ hook'.epoch = hook.epoch /\ hook'.collecting
    <3>1. "collecting" \in DOMAIN h
      BY <1>1, <1>5 DEF Poised, Shaped
    <3> QED BY <1>5, <2>1, <3>1
  <2>3. Onwards
    BY <2>1, StopOnwards
  <2>4. Owned' /\ Spared \subseteq Spared'
    BY <1>2, <2>3, OwnedOnwards
  <2>5. Known'
    BY <1>1, <1>2, <1>3, <1>7, <2>1, <2>2 DEF Known
  <2>6. AtWork' /\ Unattended'
    BY <1>3, <1>10, <2>1, <2>2 DEF AtWork, Unattended
  <2>7. Fresh'
    BY <1>1, <1>2, <1>3, <1>7, <2>2, <2>3 DEF Fresh, Onwards, Poised, WordsInv
  <2>8. Heeded'
    <3>1. sessions'[hook.current] = Stop(sessions[hook.current]) /\ sessions[hook.current] \in Session
      BY <1>1, <1>10, <2>1, StopSessionFields, Counted DEF Poised, OnceIInv, IInv, Settled
    <3>2. /\ sessions'[hook.current].hearing = sessions[hook.current].hearing
          /\ sessions[hook.current].state = "closed" => sessions'[hook.current].state = "closed"
      BY <3>1 DEF Stop, Session, States
    <3> QED BY <1>1, <2>2, <2>4, <3>2 DEF Heeded, Poised, WordsInv
  <2>9. Distinct(answer, Spared')
    BY <1>8, <2>4, Excused DEF Once
  <2>10. Submitted'
    BY <1>2, <1>3, <2>9 DEF Submitted
  <2>11. Once(answer, answer, page.delivered, hook.partial, Pending, Spared', Wanted, typed.overtaken)
    BY <1>7, <1>8, <2>4, <2>9, NoWords DEF Once
  <2>12. WordsOnce'
    BY <1>2, <1>3, <1>7, <2>1, <2>2, <2>11 DEF WordsOnce
  <2> QED BY <1>6, <2>2, <2>4, <2>5, <2>6, <2>7, <2>8, <2>10, <2>12 DEF OnceIInv, WordsInv
<1> QED BY <1>9, <1>10

\* The composed answer replaces the box and is sent.
LEMMA SendWords ==
  ASSUME OnceIInv, IInv', ~page.left, Send
  PROVE  OnceIInv'
<1>1. WordsInv /\ Known /\ Listed
  BY DEF OnceIInv, WordsInv
<1>2. /\ collected # Pending /\ collected' = Pending
      /\ UNCHANGED <<hook, sessions, said, shown, typed>>
  BY DEF Send
<1>3. /\ page.at = "collecting" /\ ~hook.wanted /\ hook.current = None /\ ~hook.collecting
      /\ hook.partial \in Spared \cup {None}
      /\ (hook.epoch # None => sessions[hook.epoch].spared)
  <2>1. page.at = "collecting" /\ ~hook.wanted /\ hook.current = None
    BY <1>1, <1>2 DEF WordsInv, AtWork
  <2>2. ~hook.collecting
    BY <2>1 DEF OnceIInv, IInv, Settled, None
  <2>3. hook.partial \in Spared \cup {None}
    BY <1>1, <2>1 DEF WordsInv, Heeded
  <2> QED BY <1>1, <1>2, <2>1, <2>2, <2>3 DEF WordsInv, AtWork
<1>4. /\ Spared' = Spared /\ Owned' /\ Words' = Words /\ Wanted' = Wanted /\ Heeded'
      /\ Unattended'
  BY <1>1, <1>2 DEF WordsInv, Owned, Spared, Ids, Words, Wanted, Heeded, Unattended
<1>5. Fresh'
  BY <1>2, <1>3 DEF Fresh
<1>6. WordsOnce /\ Submitted
  BY <1>1 DEF WordsInv
<1>7. None \notin Wanted /\ Pending \notin Wanted
  BY <1>1, WordsCount
<1>8. page.over \in Seq(Words) /\ collected \in Words \cup {None}
  BY <1>1, <1>2 DEF Known
<1>9. CASE Composed = <<>>
  <2>1. /\ page' = [page EXCEPT !.at = "free", !.over = <<>>] /\ UNCHANGED <<answer, requests>>
    BY <1>9 DEF Send
  <2>2. /\ DOMAIN page' = {"turn", "at", "over", "next", "left", "delivered"}
        /\ page'.at = "free" /\ page'.over = <<>> /\ page'.delivered = page.delivered
    BY <1>1, <2>1 DEF Listed
  <2>3. page.over = <<>> /\ collected = None
    BY <1>8, <1>9 DEF Composed, Word
  <2>4. Known'
    BY <1>1, <1>2, <1>4, <2>1, <2>2, NoWords DEF Known
  <2>5. AtWork' /\ Submitted'
    BY <1>2, <1>3, <2>2 DEF AtWork, Submitted
  <2>6. Listed'
    BY <1>1, <1>2, <2>1, <2>2 DEF Listed
  <2>7. WordsOnce'
    <3>1. Once(answer, <<>>, page.delivered, hook.partial, None, Spared, Wanted, typed.overtaken)
      BY <1>6, <2>3 DEF WordsOnce
    <3>2. Pending \notin ToSet(answer) \cup page.delivered
      BY <1>1, Places, WordsCount DEF Known
    <3>3. Once(answer, <<>>, page.delivered, hook.partial, Pending, Spared, Wanted, typed.overtaken)
      BY <1>7, <3>1, <3>2 DEF Once
    <3> QED BY <1>2, <1>4, <2>1, <2>2, <3>3 DEF WordsOnce
  <2> QED BY <1>4, <1>5, <2>4, <2>5, <2>6, <2>7 DEF OnceIInv, WordsInv
<1>10. CASE Composed # <<>>
  <2>1. PICK c : c = Composed
    OBVIOUS
  <2>2. PICK r : r = [turn |-> page.turn, words |-> c, reply |-> "none", next |-> page.turn]
    OBVIOUS
  <2>3. /\ answer' = c /\ requests' = Append(requests, r)
        /\ page' = [page EXCEPT !.at = "sent", !.over = <<>>]
    BY <1>10, <2>1, <2>2 DEF Send
  <2>4. /\ DOMAIN page' = {"turn", "at", "over", "next", "left", "delivered"}
        /\ page'.at = "sent" /\ page'.over = <<>> /\ page'.delivered = page.delivered
    BY <1>1, <2>3 DEF Listed
  <2>5. /\ c \in Seq(Words)
        /\ \A x : x \in ToSet(c) <=> x \in ToSet(page.over) \/ (x = collected /\ x # None)
        /\ \A X : Distinct(page.over, X)
                  /\ (collected # None /\ collected \in ToSet(page.over) => collected \in X)
                  => Distinct(c, X)
    BY <1>8, <2>1, Joined DEF Composed
  <2>6. /\ Len(requests') = Len(requests) + 1 /\ requests'[Len(requests) + 1] = r
        /\ \A k \in 1..Len(requests) : requests'[k] = requests[k]
        /\ requests' = [k \in 1..Len(requests') |-> requests'[k]]
        /\ Len(requests') \in Nat /\ requests' # <<>>
    <3>1. PICK n \in Nat : n = Len(requests)
      BY <1>1 DEF Listed
    <3>2. PICK S : S = {requests[k] : k \in 1..n} \cup {r}
      OBVIOUS
    <3>3. requests \in Seq(S) /\ r \in S
      BY <1>1, <3>1, <3>2 DEF Listed
    <3>4. requests' \in Seq(S) /\ Len(requests') = n + 1
      BY <2>3, <3>1, <3>3
    <3>5. requests' = [k \in 1..Len(requests') |-> requests'[k]]
      BY <3>4
    <3>6. requests'[n + 1] = r /\ \A k \in 1..n : requests'[k] = requests[k]
      BY <2>3, <3>1, <3>3
    <3> QED BY <3>1, <3>4, <3>5, <3>6
  <2>7. Last(requests').words = c
    <3>1. Last(requests') = r
      BY <1>1, <2>6 DEF Last
    <3> QED BY <2>2, <3>1
  <2>8. Known'
    BY <1>1, <1>2, <1>4, <2>3, <2>4, <2>5, NoWords DEF Known
  <2>9. AtWork' /\ Submitted'
    BY <1>2, <1>3, <2>3, <2>4, <2>6, <2>7 DEF AtWork, Submitted
  <2>10. Listed'
    <3>1. DOMAIN r = {"turn", "words", "reply", "next"}
      BY <2>2
    <3>2. \A k \in 1..Len(requests') : DOMAIN requests'[k] = {"turn", "words", "reply", "next"}
      BY <1>1, <2>6, <3>1 DEF Listed
    <3> QED BY <1>1, <1>2, <2>4, <2>6, <3>2 DEF Listed
  <2>11. WordsOnce'
    <3>1. Once(answer, page.over, page.delivered, hook.partial, collected, Spared, Wanted,
               typed.overtaken)
      BY <1>6 DEF WordsOnce
    <3>2. /\ ToSet(page.over) \subseteq ToSet(answer) /\ Distinct(page.over, Spared)
          /\ ToSet(answer) \subseteq ToSet(page.over) \cup Spared \cup typed.overtaken
      BY <1>3, <1>6 DEF Submitted
    <3>3. Distinct(c, Spared)
      BY <2>5, <3>1, <3>2 DEF Once
    <3>4. Pending \notin ToSet(c) \cup page.delivered /\ None \notin ToSet(c) \cup page.delivered
      BY <1>1, <2>5, <1>8, Places, WordsCount DEF Known
    <3>5. \A x \in ToSet(c) : x = hook.partial \/ x = Pending => x \in Spared
      BY <1>3, <3>4
    <3>6. \A x \in page.delivered :
             x \in ToSet(c) \/ x \in ToSet(<<>>) \/ x = hook.partial \/ x = Pending => x \in Spared
      BY <1>3, <2>5, <3>1, <3>2, <3>4, NoWords DEF Once
    <3>7. \A x \in Wanted : \/ x \in ToSet(c) \/ x \in ToSet(<<>>) \/ x = hook.partial \/ x = Pending
                            \/ x \in page.delivered \/ x \in Spared \/ x \in typed.overtaken
      BY <1>7, <2>5, <3>1, <3>2 DEF Once
    <3>8. Once(c, <<>>, page.delivered, hook.partial, Pending, Spared, Wanted, typed.overtaken)
      BY <3>3, <3>5, <3>6, <3>7 DEF Once
    <3> QED BY <1>2, <1>4, <2>3, <2>4, <3>8 DEF WordsOnce
  <2> QED BY <1>4, <1>5, <2>8, <2>9, <2>10, <2>11 DEF OnceIInv, WordsInv
<1> QED BY <1>9, <1>10

\* The answer is known to be recorded: the box is emptied.
LEMMA AcceptedWords ==
  ASSUME OnceIInv, IInv', ~page.left, Accepted, ~page'.left
  PROVE  OnceIInv'
<1>1. WordsInv /\ Known /\ Listed
  BY DEF OnceIInv, WordsInv
<1>2. page.at = "sent" /\ answer' = <<>>
  BY DEF Accepted, Reply
<1>3. PICK r : r = ToSet(Last(requests).words)
  OBVIOUS
<1>4. PICK p : p = [page EXCEPT !.delivered = @ \cup r]
  OBVIOUS
<1>5. /\ DOMAIN p = {"turn", "at", "over", "next", "left", "delivered"}
      /\ p.over = page.over /\ p.delivered = page.delivered \cup r /\ p.left = page.left
  BY <1>1, <1>4 DEF Listed
<1>6. \/ Show(p, Last(requests).next)
      \/ /\ page' = [p EXCEPT !.at = "beat", !.next = Last(requests).next]
         /\ UNCHANGED <<hook, sessions, said, shown, collected, typed, requests>>
  BY <1>3, <1>4 DEF Accepted
<1>7. /\ UNCHANGED <<hook, sessions, said, shown, collected, typed, requests>>
      /\ DOMAIN page' = {"turn", "at", "over", "next", "left", "delivered"}
      /\ page'.at \in {"free", "beat"}
      /\ page'.over = page.over /\ page'.delivered = page.delivered \cup r
  <2>1. CASE page' = [p EXCEPT !.at = "beat", !.next = Last(requests).next]
             /\ UNCHANGED <<hook, sessions, said, shown, collected, typed, requests>>
    BY <1>5, <2>1
  <2>2. CASE Show(p, Last(requests).next)
    <3> DEFINE shows == [p EXCEPT !.at = "free", !.turn = Last(requests).next]
    <3>1. /\ DOMAIN shows = {"turn", "at", "over", "next", "left", "delivered"}
          /\ shows.at = "free" /\ shows.over = page.over /\ shows.delivered = page.delivered \cup r
      BY <1>5
    <3>2. CASE Last(requests).next = Finished
      <4>1. page' = [shows EXCEPT !.left = TRUE]
        BY <2>2, <3>2 DEF Show, Leave
      <4>2. page'.left = TRUE
        BY <3>1, <4>1
      <4> QED BY <4>2
    <3>3. CASE Last(requests).next # Finished
      <4>1. page' = shows /\ UNCHANGED <<hook, sessions, said, shown, collected, typed, requests>>
        BY <2>2, <3>3 DEF Show
      <4> QED BY <3>1, <4>1
    <3> QED BY <3>2, <3>3
  <2> QED BY <1>6, <2>1, <2>2
<1>8. /\ page.over = <<>> /\ ~hook.wanted /\ hook.current = None /\ ~hook.collecting
      /\ collected = Pending /\ hook.partial \in Spared \cup {None}
  BY <1>1, <1>2 DEF WordsInv, AtWork, Heeded
<1>9. r \subseteq ToSet(answer) /\ ToSet(answer) \subseteq r \cup Spared
  BY <1>1, <1>2, <1>3 DEF WordsInv, Submitted
<1>10. Spared' = Spared /\ Owned' /\ Words' = Words /\ Wanted' = Wanted /\ Heeded' /\ Unattended'
  BY <1>1, <1>7 DEF WordsInv, Owned, Spared, Ids, Words, Wanted, Heeded, Unattended
<1>11. Known'
  <2>1. r \subseteq Words
    BY <1>1, <1>9, Places
  <2> QED BY <1>1, <1>2, <1>7, <1>10, <2>1, NoWords DEF Known
<1>12. AtWork' /\ Submitted'
  BY <1>7, <1>8 DEF AtWork, Submitted
<1>13. Fresh'
  BY <1>1, <1>2, <1>7, <1>9, NoWords DEF WordsInv, Fresh
<1>14. Listed'
  BY <1>1, <1>7 DEF Listed
<1>15. WordsOnce'
  <2>1. Once(answer, <<>>, page.delivered, hook.partial, Pending, Spared, Wanted, typed.overtaken)
    BY <1>1, <1>8 DEF WordsInv, WordsOnce
  <2>2. None \notin ToSet(answer) \cup page.delivered /\ Pending \notin ToSet(answer) \cup page.delivered
    BY <1>1, Places, WordsCount DEF Known
  <2>3. \A x \in page.delivered \cup r :
           x \in ToSet(<<>>) \/ x = hook.partial \/ x = Pending => x \in Spared
    BY <1>8, <1>9, <2>2, NoWords
  <2>4. \A x \in Wanted : \/ x \in ToSet(<<>>) \/ x = hook.partial \/ x = Pending
                          \/ x \in page.delivered \cup r \/ x \in Spared \/ x \in typed.overtaken
    BY <1>9, <2>1 DEF Once
  <2>5. Once(<<>>, <<>>, page.delivered \cup r, hook.partial, Pending, Spared, Wanted,
             typed.overtaken)
    BY <2>3, <2>4, NoWords DEF Once
  <2> QED BY <1>2, <1>7, <1>8, <1>10, <2>5 DEF WordsOnce
<1> QED BY <1>10, <1>11, <1>12, <1>13, <1>14, <1>15 DEF OnceIInv, WordsInv

\* The other replies, the next question and the lost connection.
LEMMA MovesWords ==
  ASSUME OnceIInv, IInv', ~page.left, ~page'.left,
         BeatOver \/ Stale \/ Reload \/ ConnectionLost
  PROVE  OnceIInv'
<1>1. WordsInv /\ Listed
  BY DEF OnceIInv
<1>2. \A turn : Show(page, turn) =>
         /\ page' = [page EXCEPT !.at = "free", !.turn = turn]
         /\ UNCHANGED <<hook, sessions, said, shown, collected, typed, requests>>
  <2> SUFFICES ASSUME NEW turn, Show(page, turn)
               PROVE  /\ page' = [page EXCEPT !.at = "free", !.turn = turn]
                      /\ UNCHANGED <<hook, sessions, said, shown, collected, typed, requests>>
    OBVIOUS
  <2>1. CASE turn = Finished
    <3>1. PICK p : p = [page EXCEPT !.at = "free", !.turn = turn]
      OBVIOUS
    <3>2. page' = [p EXCEPT !.left = TRUE] /\ "left" \in DOMAIN p
      BY <1>1, <2>1, <3>1 DEF Show, Leave, Listed
    <3>3. page'.left = TRUE
      BY <3>2
    <3> QED BY <3>3
  <2>2. CASE turn # Finished
    BY <2>2 DEF Show
  <2> QED BY <2>1, <2>2
<1>3. /\ UNCHANGED <<hook, sessions, said, shown, answer, collected, typed, requests>>
      /\ DOMAIN page' = {"turn", "at", "over", "next", "left", "delivered"}
      /\ page.at \in {"sent", "reloading", "beat"} /\ page'.at \in {"free", "reloading"}
      /\ page'.over = page.over /\ page'.delivered = page.delivered
  <2>1. CASE BeatOver \/ Reload
    <3>1. PICK turn : Show(page, turn) /\ answer' = answer /\ page.at \in {"reloading", "beat"}
      BY <2>1 DEF BeatOver, Reload
    <3>2. /\ page' = [page EXCEPT !.at = "free", !.turn = turn]
          /\ UNCHANGED <<hook, sessions, said, shown, collected, typed, requests>>
      BY <1>2, <3>1
    <3> QED BY <1>1, <3>1, <3>2 DEF Listed
  <2>2. CASE Stale
    BY <1>1, <2>2 DEF Stale, Reply, inputVars, Listed
  <2>3. CASE ConnectionLost
    BY <1>1, <2>3 DEF ConnectionLost, Submitting, inputVars, Listed
  <2> QED BY <2>1, <2>2, <2>3
<1>4. AtWork' /\ Submitted' /\ Listed'
  BY <1>1, <1>3 DEF WordsInv, AtWork, Submitted, Listed
<1> QED BY <1>3, <1>4, PageWords

----------------------------------------------------------------------------
(* When the page is left the words are of no consequence.                  *)

LEMMA HookPartial ==
  ASSUME OnceIInv, HookNext
  PROVE  "partial" \in DOMAIN hook'
<1>1. Shaped(hook) /\ "partial" \in DOMAIN hook
  BY DEF OnceIInv, IInv, Listed
<1>2. ASSUME NEW STATE h, "partial" \in DOMAIN h, NEW word, FinishCollecting(h, word)
      PROVE  "partial" \in DOMAIN hook'
  BY <1>2 DEF FinishCollecting
<1>3. ASSUME NEW id, NEW STATE h, "partial" \in DOMAIN h, Shaped(h), OnEnd(id, h)
      PROVE  "partial" \in DOMAIN hook'
  <2>1. CASE ~IsCurrent(id)
    BY <1>3, <2>1 DEF OnEnd
  <2>2. CASE IsCurrent(id) /\ h.collecting
    <3>1. FinishCollecting(h, h.partial)
      BY <1>3, <2>2 DEF OnEnd
    <3> QED BY <1>2, <1>3, <3>1
  <2>3. CASE IsCurrent(id) /\ ~h.collecting
    <3>1. hook' = AfterEnd(Retired(h))
      BY <1>3, <2>3 DEF OnEnd
    <3>2. PICK r : r = Retired(h)
      OBVIOUS
    <3>3. "partial" \in DOMAIN r /\ Shaped(r)
      BY <1>3, <3>2, RetiredFields DEF Retired
    <3>4. CASE ~r.wanted
      BY <3>1, <3>2, <3>3, <3>4 DEF AfterEnd, Shaped
    <3>5. CASE r.wanted /\ r.restarts >= MaxSilentRestarts
      BY <3>1, <3>2, <3>3, <3>5 DEF AfterEnd, Shaped
    <3>6. CASE r.wanted /\ ~(r.restarts >= MaxSilentRestarts)
      <4>1. hook' = [r EXCEPT !.restarts = @ + 1, !.retry = TRUE, !.status = "restarting"]
        BY <3>1, <3>2, <3>3, <3>6 DEF AfterEnd, Shaped
      <4> QED BY <3>3, <4>1
    <3> QED BY <3>3, <3>4, <3>5, <3>6 DEF Shaped
  <2> QED BY <2>1, <2>2, <2>3
<1>4. CASE GraceElapsed \/ Restart
  BY <1>1, <1>2, <1>4 DEF GraceElapsed, Restart, OpenSession
<1>5. ASSUME NEW id \in Ids,
             Opened(id) \/ OpenFails(id) \/ OpenTimesOut(id) \/ Disposed(id) \/ Erred(id)
               \/ Recognizing(id)
      PROVE  "partial" \in DOMAIN hook'
  BY <1>1, <1>5 DEF Opened, OpenFails, OpenTimesOut, Rejected, Disposed, Erred, OnError, Recognizing,
     OnPartial
<1>6. ASSUME NEW id \in Ids, Recognized(id)
      PROVE  "partial" \in DOMAIN hook'
  <2>1. OnFinal(id, Heard(id))
    BY <1>6 DEF Recognized
  <2>2. CASE IsCurrent(id) /\ hook.collecting
    <3>1. FinishCollecting(hook, Heard(id))
      BY <2>1, <2>2 DEF OnFinal
    <3> QED BY <1>1, <1>2, <3>1
  <2>3. CASE ~(IsCurrent(id) /\ hook.collecting)
    BY <1>1, <2>1, <2>3 DEF OnFinal
  <2> QED BY <2>2, <2>3
<1>7. ASSUME NEW id \in Ids, BrowserEnded(id)
      PROVE  "partial" \in DOMAIN hook'
  <2>1. OnEnd(id, hook)
    BY <1>7 DEF BrowserEnded
  <2> QED BY <1>1, <1>3, <2>1
<1>8. ASSUME NEW id \in Ids, NEW fatal \in BOOLEAN, Canceled(id, fatal)
      PROVE  "partial" \in DOMAIN hook'
  <2> DEFINE h == OnError(id, fatal)
  <2>1. Shaped(h) /\ "partial" \in DOMAIN h
    BY <1>1, OnErrorFields DEF OnError
  <2>2. OnEnd(id, h)
    BY <1>8 DEF Canceled
  <2> HIDE DEF h
  <2> QED BY <1>3, <2>1, <2>2
<1> QED BY <1>4, <1>5, <1>6, <1>7, <1>8 DEF HookNext, RecognizerNext

\* What the page does as it is left, and what goes on afterwards.
LEMMA LeavingWords ==
  ASSUME OnceIInv, NEW p, DOMAIN p = DOMAIN page, Leave(p)
  PROVE  Listed' /\ page'.left
<1>1. Listed
  BY DEF OnceIInv
<1>2. DOMAIN page' = DOMAIN page /\ page'.left /\ UNCHANGED <<typed, requests>>
  BY <1>1 DEF Leave, Listed
<1>3. "partial" \in DOMAIN hook'
  BY <1>1 DEF Leave, Unmount, Listed
<1> QED BY <1>1, <1>2, <1>3 DEF Listed

LEMMA ShownWords ==
  ASSUME OnceIInv, ~page.left, NEW p, DOMAIN p = DOMAIN page, ~p.left, NEW turn, Show(p, turn)
  PROVE  page'.left => Listed'
<1>1. PICK shows : shows = [p EXCEPT !.at = "free", !.turn = turn]
  OBVIOUS
<1>2. DOMAIN shows = DOMAIN page /\ ~shows.left
  BY <1>1 DEF OnceIInv, Listed
<1>3. CASE turn = Finished
  BY <1>1, <1>2, <1>3, LeavingWords DEF Show
<1>4. CASE turn # Finished
  BY <1>1, <1>2, <1>4 DEF Show
<1> QED BY <1>3, <1>4

LEMMA LeftWords ==
  ASSUME OnceIInv, IInv', Next, page.left \/ page'.left
  PROVE  OnceIInv'
<1>1. Listed /\ page.left \in BOOLEAN
  BY DEF OnceIInv, IInv
<1>2. CASE page.left
  <2>1. CASE HookNext
    <3>1. UNCHANGED <<page, typed, requests>> /\ "partial" \in DOMAIN hook'
      BY <2>1, HookPartial DEF HookNext, pageVars
    <3> QED BY <1>2, <3>1, ListedStays DEF OnceIInv
  <2>2. CASE Send
    <3>1. /\ UNCHANGED <<hook, typed>> /\ DOMAIN page' = DOMAIN page /\ page'.left
      BY <1>1, <1>2, <2>2 DEF Send, Listed
    <3>2. /\ Len(requests') \in Nat /\ requests' = [k \in 1..Len(requests') |-> requests'[k]]
          /\ \A k \in 1..Len(requests') : DOMAIN requests'[k] = {"turn", "words", "reply", "next"}
      <4>1. CASE requests' = requests
        BY <1>1, <4>1 DEF Listed
      <4>2. CASE requests' # requests
        <5>1. PICK r : /\ r = [turn |-> page.turn, words |-> Composed, reply |-> "none",
                               next |-> page.turn]
                       /\ requests' = Append(requests, r)
          BY <2>2, <4>2 DEF Send
        <5>2. PICK n \in Nat : n = Len(requests)
          BY <1>1 DEF Listed
        <5>3. PICK S : S = {requests[k] : k \in 1..n} \cup {r}
          OBVIOUS
        <5>4. requests \in Seq(S) /\ r \in S
          BY <1>1, <5>2, <5>3 DEF Listed
        <5>5. requests' \in Seq(S)
          BY <5>1, <5>4
        <5>6. \A x \in S : DOMAIN x = {"turn", "words", "reply", "next"}
          BY <1>1, <5>1, <5>2, <5>3 DEF Listed
        <5> QED BY <5>5, <5>6
      <4> QED BY <4>1, <4>2
    <3>3. Listed'
      BY <1>1, <3>1, <3>2 DEF Listed
    <3> QED BY <3>1, <3>3 DEF OnceIInv
  <2> QED BY <1>2, <2>1, <2>2
       DEF Next, Type, PressMicrophone, PressSend, Receive, AnotherTab, WalkAway, Accepted, BeatOver,
           Stale, Reload, AlreadyFinished, ConnectionLost, Here, Reply
<1>3. CASE ~page.left /\ page'.left
  <2>1. WalkAway \/ AlreadyFinished => Listed'
    BY LeavingWords DEF WalkAway, AlreadyFinished
  <2>2. BeatOver \/ Reload => Listed'
    BY <1>3, ShownWords DEF BeatOver, Reload
  <2>3. Accepted => Listed'
    <3> SUFFICES ASSUME Accepted PROVE Listed'
      OBVIOUS
    <3>1. PICK p : p = [page EXCEPT !.delivered = @ \cup ToSet(Last(requests).words)]
      OBVIOUS
    <3>2. DOMAIN p = DOMAIN page /\ ~p.left
      BY <1>1, <1>3, <3>1 DEF Listed
    <3>3. \/ Show(p, Last(requests).next)
          \/ page' = [p EXCEPT !.at = "beat", !.next = Last(requests).next]
      BY <3>1 DEF Accepted
    <3>4. Show(p, Last(requests).next)
      BY <1>1, <1>3, <3>2, <3>3 DEF Listed
    <3> QED BY <1>3, <3>2, <3>4, ShownWords
  <2>4. ~(HookNext \/ Type \/ PressMicrophone \/ AnotherTab \/ \E k \in DOMAIN requests : Receive(k))
    BY <1>3 DEF HookNext, Type, PressMicrophone, AnotherTab, Receive, pageVars
  <2>5. ~(PressSend \/ Send \/ Stale \/ ConnectionLost)
    BY <1>1, <1>3 DEF PressSend, Send, Stale, ConnectionLost, Listed
  <2> QED BY <1>3, <2>1, <2>2, <2>3, <2>4, <2>5 DEF Next, OnceIInv
<1> QED BY <1>1, <1>2, <1>3

LEMMA OnceStep == OnceIInv /\ [Next]_vars => OnceIInv'
<1> SUFFICES ASSUME OnceIInv, [Next]_vars
             PROVE  OnceIInv'
  OBVIOUS
<1>1. IInv'
  BY StepPreserves DEF OnceIInv
<1>2. CASE UNCHANGED vars
  <2>1. UNCHANGED <<hook, sessions, said, shown, answer, collected, page, typed, requests>>
    BY <1>2 DEF vars, inputVars, pageVars
  <2>2. Spared' = Spared /\ Words' = Words /\ Wanted' = Wanted
    BY <2>1 DEF Spared, Ids, Words, Wanted
  <2>3. Known' = Known /\ Owned' = Owned /\ WordsOnce' = WordsOnce /\ Listed' = Listed
    BY <2>1, <2>2 DEF Known, Owned, Ids, WordsOnce, Listed
  <2>4. AtWork' = AtWork /\ Unattended' = Unattended /\ Fresh' = Fresh
    BY <2>1 DEF AtWork, Unattended, Fresh
  <2>5. Heeded' = Heeded /\ Submitted' = Submitted
    BY <2>1, <2>2 DEF Heeded, Submitted
  <2> QED BY <1>1, <2>1, <2>3, <2>4, <2>5 DEF OnceIInv, WordsInv
<1>3. CASE Next /\ (page.left \/ page'.left)
  BY <1>1, <1>3, LeftWords
<1>4. CASE Next /\ ~page.left /\ ~page'.left
  <2>1. ~WalkAway /\ ~AlreadyFinished
    <3>1. \A p : DOMAIN p = DOMAIN page /\ Leave(p) => page'.left
      BY LeavingWords
    <3> QED BY <1>4, <3>1 DEF WalkAway, AlreadyFinished
  <2> QED BY <1>1, <1>4, <2>1, HookKeeps, TypeWords, ToggleWords, PressSendWords, SendWords, ServerWords,
             AcceptedWords, MovesWords DEF Next
<1> QED BY <1>2, <1>3, <1>4

\* EveryWordOnce, for any number of sessions, utterances, keystrokes, turns and answers
\* and for either provider: no word typed, or seen being heard, is lost or sent twice, whatever
\* the recognizer delivers late and whichever reply is lost (useSpeechInput's epochs and
\* stopAndCollect, handleSubmit) - but for what is typed into the box while the last utterance
\* settles, and what sessions hear that nobody silenced.
THEOREM WordsHold == Spec => []EveryWordOnce
<1>1. Spec => []OnceIInv
  BY OnceInitial, OnceStep, PTL DEF Spec
<1> QED BY <1>1, OnceShown, PTL

-----------------------------------------------------------------------------
(* The voice that reads the questions.                                     *)

Over == {"none", "over"}
InTheBrowser == {"none", "voices", "queued", "speaking", "over"}
NarrationRecords ==
  [azure : {"none", "fetching", "starting", "playing", "over"},
   browser : InTheBrowser,
   cancelled : BOOLEAN, started : BOOLEAN]
Voices == [speaking : BOOLEAN, watchdog : BOOLEAN, generation : Nat, session : Nat, gone : BOOLEAN]
Sounds == [narrations : Seq(NarrationRecords), element : Nat, playing : BOOLEAN,
           generation : Nat, utterance : Nat, audible : BOOLEAN]

\* The state of the hook.
Attentive(v, s) ==
  /\ v \in Voices
  /\ v.session \in 0..Len(s.narrations)
  /\ v.session # Nobody /\ ~v.gone => v.generation = v.session /\ v.speaking
  /\ v.speaking /\ ~v.gone => v.session # Nobody
  /\ v.gone => v.generation = Nobody /\ ~v.watchdog

\* Only the narration the hook can cancel is neither cancelled nor at its end, and it is
\* with the browser only after Azure.
OneLive(v, s) ==
  \A id \in 1..Len(s.narrations) :
     LET n == s.narrations[id]
     IN  /\ n.cancelled \/ (v.session = id /\ ~v.gone) \/ (n.azure \in Over /\ n.browser \in Over)
         /\ n.browser # "none" => n.azure \in Over

\* What the element and the browser's queue hold.
Held(s) ==
  /\ \A id \in 1..Len(s.narrations) :
        ~s.narrations[id].cancelled /\ s.narrations[id].azure \in {"starting", "playing"}
           => s.element = id
  /\ s.element # Nobody =>
        /\ s.element \in 1..Len(s.narrations)
        /\ ~s.narrations[s.element].cancelled
        /\ s.narrations[s.element].azure \notin {"none", "fetching"}
  /\ s.playing => s.element # Nobody /\ s.narrations[s.element].azure = "playing"
  /\ s.utterance # Nobody =>
        /\ s.utterance \in 1..Len(s.narrations)
        /\ ~s.narrations[s.utterance].cancelled
        /\ s.narrations[s.utterance].browser \in {"queued", "speaking"}
        /\ s.generation = s.utterance
  /\ s.audible => s.utterance # Nobody /\ s.narrations[s.utterance].browser = "speaking"

Watched(v, s) ==
  v.speaking /\ ~v.gone => v.watchdog \/ s.audible \/ s.narrations[v.session].started

Fits(v, s) == s \in Sounds /\ Attentive(v, s) /\ OneLive(v, s) /\ Held(s) /\ Watched(v, s)

NarrationIInv == Fits(voice, sound)
LEMMA NarrationShown == NarrationIInv => NarrationIsTheQuestions
<1> SUFFICES ASSUME Fits(voice, sound)
             PROVE  NarrationIsTheQuestions
  BY DEF NarrationIInv
<1> DEFINE heard == {id \in DOMAIN sound.narrations :
                       \/ sound.playing /\ sound.element = id
                       \/ sound.audible /\ sound.utterance = id}
<1>1. DOMAIN sound.narrations = 1..Len(sound.narrations)
  BY DEF Fits, Sounds
<1>2. sound.playing => /\ sound.element \in 1..Len(sound.narrations)
                       /\ voice.session = sound.element /\ ~voice.gone
                       /\ sound.narrations[sound.element].browser = "none"
  BY DEF Fits, Held, OneLive, Over
<1>3. sound.audible => /\ sound.utterance \in 1..Len(sound.narrations)
                       /\ voice.session = sound.utterance /\ ~voice.gone
                       /\ sound.narrations[sound.utterance].browser = "speaking"
  BY DEF Fits, Held, OneLive, Over
<1>4. ~(sound.playing /\ sound.audible)
  BY <1>2, <1>3
<1>5. sound.playing \/ sound.audible => voice.generation = voice.session /\ voice.speaking /\ ~voice.gone
  BY <1>2, <1>3 DEF Fits, Attentive, Nobody
<1>6. heard # {} => ~voice.gone /\ voice.speaking /\ heard = {voice.generation}
  BY <1>1, <1>2, <1>3, <1>4, <1>5
<1>7. ASSUME voice.speaking, ~voice.gone
      PROVE  voice.watchdog \/ heard # {} \/ Narration(voice.generation).started
  BY <1>1, <1>3, <1>7 DEF Fits, Watched, Attentive, Narration
<1> QED BY <1>4, <1>6, <1>7 DEF NarrationIsTheQuestions

LEMMA NarrationInitial == NarrationInit => NarrationIInv
<1> SUFFICES ASSUME NarrationInit
             PROVE  Fits(voice, sound)
  BY DEF NarrationIInv
<1>1. voice \in Voices /\ ~voice.speaking /\ ~voice.gone /\ voice.session = Nobody
  BY DEF NarrationInit, Voices, Nobody
<1>2. /\ sound \in Sounds /\ sound.narrations = <<>>
      /\ sound.element = Nobody /\ sound.utterance = Nobody
      /\ ~sound.playing /\ ~sound.audible
  BY DEF NarrationInit, Sounds, Nobody
<1> QED BY <1>1, <1>2 DEF Fits, Attentive, OneLive, Held, Watched, Nobody

-----------------------------------------------------------------------------
(* Silence.                                                                *)

\* Nothing is heard, and nothing that is not cancelled goes on.
Hushed(s) ==
  /\ s \in Sounds
  /\ Held(s)
  /\ \A id \in 1..Len(s.narrations) :
        LET n == s.narrations[id]
        IN  /\ n.cancelled \/ (n.azure \in Over /\ n.browser \in Over)
            /\ n.browser # "none" => n.azure \in Over
  /\ s.utterance = Nobody /\ ~s.playing /\ ~s.audible

LEMMA NothingLive ==
  ASSUME NEW v, NEW s, Fits(v, s), v.session = Nobody
  PROVE  Hushed(s)
<1>1. \A id \in 1..Len(s.narrations) : v.session # id
  BY DEF Nobody
<1> QED BY <1>1 DEF Fits, OneLive, Held, Hushed, Over

LEMMA OneReplaced ==
  ASSUME NEW q \in Seq(NarrationRecords), NEW id \in 1..Len(q), NEW n \in NarrationRecords,
         NEW t, t = [q EXCEPT ![id] = n]
  PROVE  /\ t \in Seq(NarrationRecords) /\ Len(t) = Len(q) /\ t[id] = n
         /\ \A j \in 1..Len(q) : j # id => t[j] = q[j]
OBVIOUS

LEMMA SilencedIsQuiet ==
  ASSUME NEW v, NEW s, Fits(v, s), ~v.gone, v.session # Nobody
  PROVE  /\ Hushed(Silenced(s, v.session))
         /\ Len(Silenced(s, v.session).narrations) = Len(s.narrations)
<1>1. PICK id \in 1..Len(s.narrations) : id = v.session
  BY DEF Fits, Attentive, Nobody
<1>2. PICK q \in Seq(NarrationRecords), e \in Nat, p \in BOOLEAN, g \in Nat, u \in Nat, a \in BOOLEAN :
         s = [narrations |-> q, element |-> e, playing |-> p, generation |-> g,
              utterance |-> u, audible |-> a]
  BY DEF Fits, Sounds
<1>3. PICK n \in NarrationRecords : n = q[id]
  BY <1>1, <1>2
<1>4. PICK m : m = [n EXCEPT !.cancelled = TRUE]
  OBVIOUS
<1>41. m \in NarrationRecords
  BY <1>4 DEF NarrationRecords
<1>42. m.azure = n.azure /\ m.browser = n.browser
  BY <1>4 DEF NarrationRecords
<1>43. m.cancelled
  BY <1>4 DEF NarrationRecords
<1>40. m \in NarrationRecords /\ m.azure = n.azure /\ m.browser = n.browser /\ m.cancelled
  BY <1>41, <1>42, <1>43
<1>5. PICK t : t = [q EXCEPT ![id] = m]
  OBVIOUS
<1>6. /\ t \in Seq(NarrationRecords) /\ Len(t) = Len(q) /\ t[id] = m
      /\ \A j \in 1..Len(q) : j # id => t[j] = q[j]
  BY <1>1, <1>2, <1>40, <1>5, OneReplaced
<1>7. PICK w : w = [narrations |-> t, element |-> e, playing |-> p, generation |-> g,
                     utterance |-> u, audible |-> a]
  OBVIOUS
<1>70. [s EXCEPT !.narrations[id].cancelled = TRUE] = w
  <2>1. s.narrations = q /\ s.narrations[id] = n
    BY <1>2, <1>3
  <2>2. [s EXCEPT !.narrations[id].cancelled = TRUE] = [s EXCEPT !.narrations = t]
    BY <2>1, <1>4, <1>5
  <2> QED BY <1>2, <1>7, <2>2
<1>71. PICK x : x = IF m.azure = "none" THEN w ELSE Paused(w)
  OBVIOUS
<1>72. PICK y : y = IF m.browser = "none" THEN x ELSE Emptied(x)
  OBVIOUS
<1>73. Silenced(s, id) = y
  <2>1. w.narrations[id].azure = m.azure
    BY <1>6, <1>7
  <2>2. x.narrations[id].browser = m.browser
    BY <1>6, <1>7, <1>71 DEF Paused
  <2> QED BY <1>70, <1>71, <1>72, <2>1, <2>2 DEF Silenced
<1>74. PICK e2 \in Nat, p2 \in BOOLEAN :
        /\ x = [narrations |-> t, element |-> e2, playing |-> p2, generation |-> g,
                utterance |-> u, audible |-> a]
        /\ IF m.azure = "none" THEN e2 = e /\ (p2 <=> p) ELSE e2 = Nobody /\ ~p2
  <2>1. CASE m.azure = "none"
    BY <2>1, <1>2, <1>7, <1>71
  <2>2. CASE m.azure # "none"
    <3>1. x = [narrations |-> t, element |-> Nobody, playing |-> FALSE, generation |-> g,
               utterance |-> u, audible |-> a]
      BY <2>2, <1>7, <1>71 DEF Paused
    <3> QED BY <3>1, <2>2 DEF Nobody
  <2> QED BY <2>1, <2>2
<1>8. PICK u2 \in Nat, a2 \in BOOLEAN :
        /\ y = [narrations |-> t, element |-> e2, playing |-> p2, generation |-> g,
                utterance |-> u2, audible |-> a2]
        /\ IF m.browser = "none" THEN u2 = u /\ (a2 <=> a) ELSE u2 = Nobody /\ ~a2
  <2>1. CASE m.browser = "none"
    BY <2>1, <1>2, <1>72, <1>74
  <2>2. CASE m.browser # "none"
    <3>1. y = [narrations |-> t, element |-> e2, playing |-> p2, generation |-> g,
               utterance |-> Nobody, audible |-> FALSE]
      BY <2>2, <1>72, <1>74 DEF Emptied
    <3> QED BY <3>1, <2>2 DEF Nobody
  <2> QED BY <2>1, <2>2
<1>9. \A j \in 1..Len(q) : j # id =>
         q[j].cancelled \/ (q[j].azure \in Over /\ q[j].browser \in Over)
  BY <1>1, <1>2 DEF Fits, OneLive
<1>10. \A j \in 1..Len(q) : q[j].browser # "none" => q[j].azure \in Over
  BY <1>2 DEF Fits, OneLive
<1>11. /\ \A j \in 1..Len(q) : ~q[j].cancelled /\ q[j].azure \in {"starting", "playing"} => e = j
       /\ e # Nobody => e \in 1..Len(q) /\ ~q[e].cancelled /\ q[e].azure \notin {"none", "fetching"}
       /\ p => e # Nobody /\ q[e].azure = "playing"
  BY <1>2 DEF Fits, Held
<1>12. /\ u # Nobody => /\ u \in 1..Len(q) /\ ~q[u].cancelled
                        /\ q[u].browser \in {"queued", "speaking"} /\ g = u
       /\ a => u # Nobody /\ q[u].browser = "speaking"
  BY <1>2 DEF Fits, Held
<1>13. u2 = Nobody /\ ~a2
  BY <1>3, <1>40, <1>8, <1>9, <1>12 DEF Over
<1>14. ~p2 /\ e2 # id
  BY <1>3, <1>40, <1>74, <1>9, <1>11 DEF Over, Nobody
<1>15. Held(y)
  <2>1. \A j \in 1..Len(t) : ~t[j].cancelled => t[j].azure \notin {"starting", "playing"}
    BY <1>40, <1>6, <1>9 DEF Over
  <2>2. e2 # Nobody => e2 \in 1..Len(t) /\ ~t[e2].cancelled /\ t[e2].azure \notin {"none", "fetching"}
    BY <1>6, <1>74, <1>11, <1>14
  <2> QED BY <1>8, <1>13, <1>14, <2>1, <2>2 DEF Held
<1>16. y \in Sounds
  BY <1>6, <1>8 DEF Sounds
<1>17. \A j \in 1..Len(t) : /\ t[j].cancelled \/ (t[j].azure \in Over /\ t[j].browser \in Over)
                            /\ t[j].browser # "none" => t[j].azure \in Over
  BY <1>3, <1>40, <1>6, <1>9, <1>10
<1> QED BY <1>1, <1>2, <1>73, <1>6, <1>8, <1>13, <1>14, <1>15, <1>16, <1>17 DEF Hushed

LEMMA CancelledIsQuiet ==
  ASSUME NarrationIInv, ~voice.gone
  PROVE  /\ Hushed(CancelSession)
         /\ Len(CancelSession.narrations) = Len(sound.narrations)
BY NothingLive, SilencedIsQuiet DEF NarrationIInv, CancelSession

\* In silence the hook need only not be speaking.
LEMMA QuietFits ==
  ASSUME NEW v, NEW s, Hushed(s), Attentive(v, s), ~v.speaking \/ v.gone
  PROVE  Fits(v, s)
BY DEF Hushed, Fits, OneLive, Watched

LEMMA CancelKeeps ==
  ASSUME NarrationIInv, ~voice.gone, Cancel
  PROVE  NarrationIInv'
<1>1. /\ Hushed(sound') /\ Len(sound'.narrations) = Len(sound.narrations)
  BY CancelledIsQuiet DEF Cancel
<1>2. voice \in Voices
  BY DEF NarrationIInv, Fits, Attentive
<1>3. /\ voice' \in Voices /\ ~voice'.speaking /\ ~voice'.gone /\ voice'.session = Nobody
  BY <1>2 DEF Cancel, Settle, Voices, Nobody
<1>4. Attentive(voice', sound')
  BY <1>1, <1>3 DEF Attentive, Nobody, Hushed, Sounds
<1> QED BY <1>1, <1>3, <1>4, QuietFits DEF NarrationIInv

\* The page pauses and empties for good measure.
LEMMA PausedIsQuiet ==
  ASSUME NEW s, Hushed(s)
  PROVE  /\ Hushed(Paused(s)) /\ Hushed(Emptied(s))
         /\ Paused(s).narrations = s.narrations /\ Emptied(s).narrations = s.narrations
<1>1. PICK p : p = Paused(s)
  OBVIOUS
<1>2. PICK m : m = Emptied(s)
  OBVIOUS
<1>3. /\ p \in Sounds /\ p.narrations = s.narrations /\ p.element = Nobody /\ ~p.playing
      /\ p.utterance = s.utterance /\ p.audible = s.audible
  BY <1>1 DEF Paused, Hushed, Sounds, Nobody
<1>4. /\ m \in Sounds /\ m.narrations = s.narrations /\ m.element = s.element
      /\ m.playing = s.playing /\ m.utterance = Nobody /\ ~m.audible
  BY <1>2 DEF Emptied, Hushed, Sounds, Nobody
<1>5. Hushed(p)
  BY <1>3 DEF Hushed, Held, Over
<1>6. Hushed(m)
  BY <1>4 DEF Hushed, Held, Over
<1> QED BY <1>1, <1>2, <1>3, <1>4, <1>5, <1>6

LEMMA LeaveKeeps ==
  ASSUME NarrationIInv, LeaveNarration
  PROVE  NarrationIInv'
<1>1. Hushed(sound') /\ Len(sound'.narrations) = Len(sound.narrations)
  BY CancelledIsQuiet, PausedIsQuiet DEF LeaveNarration
<1>2. voice \in Voices /\ voice.session \in 0..Len(sound.narrations)
  BY DEF NarrationIInv, Fits, Attentive
<1>3. /\ voice' \in Voices /\ voice'.session = voice.session /\ voice'.gone
      /\ ~voice'.watchdog /\ voice'.generation = Nobody
  BY <1>2 DEF LeaveNarration, Voices, Nobody
<1>4. Attentive(voice', sound')
  BY <1>1, <1>2, <1>3 DEF Attentive
<1> QED BY <1>1, <1>3, <1>4, QuietFits DEF NarrationIInv
-----------------------------------------------------------------------------
(* One narration goes on.                                                  *)

Moved(s, t, id) ==
  /\ t \in Sounds /\ Len(t.narrations) = Len(s.narrations)
  /\ \A j \in 1..Len(s.narrations) : j # id => t.narrations[j] = s.narrations[j]

LEMMA AzureMoves ==
  ASSUME NEW s \in Sounds, NEW id \in 1..Len(s.narrations),
         NEW to \in {"none", "fetching", "starting", "playing", "over"},
         NEW t, t = [s EXCEPT !.narrations[id].azure = to]
  PROVE  /\ Moved(s, t, id)
         /\ t.narrations[id].azure = to
         /\ t.narrations[id].browser = s.narrations[id].browser
         /\ t.narrations[id].cancelled <=> s.narrations[id].cancelled
         /\ t.narrations[id].started <=> s.narrations[id].started
         /\ t.element = s.element /\ (t.playing <=> s.playing)
         /\ t.generation = s.generation /\ t.utterance = s.utterance /\ (t.audible <=> s.audible)
<1>1. PICK n \in NarrationRecords : n = s.narrations[id]
  BY DEF Sounds
<1>2. PICK m : m = [n EXCEPT !.azure = to]
  OBVIOUS
<1>3. m \in NarrationRecords
  BY <1>2 DEF NarrationRecords
<1>4. m.azure = to /\ m.browser = n.browser /\ (m.cancelled <=> n.cancelled) /\ (m.started <=> n.started)
  BY <1>2 DEF NarrationRecords
<1>5. PICK q : q = [s.narrations EXCEPT ![id] = m]
  OBVIOUS
<1>6. s.narrations \in Seq(NarrationRecords)
  BY DEF Sounds
<1>7. /\ q \in Seq(NarrationRecords) /\ Len(q) = Len(s.narrations) /\ q[id] = m
      /\ \A j \in 1..Len(s.narrations) : j # id => q[j] = s.narrations[j]
  BY <1>3, <1>5, <1>6, OneReplaced
<1>8. t = [s EXCEPT !.narrations = q]
  BY <1>1, <1>2, <1>5
<1>9. t \in Sounds /\ t.narrations = q
  BY <1>7, <1>8 DEF Sounds
<1>10. /\ t.element = s.element /\ (t.playing <=> s.playing)
       /\ t.generation = s.generation /\ t.utterance = s.utterance /\ (t.audible <=> s.audible)
  BY <1>8 DEF Sounds
<1> QED BY <1>1, <1>4, <1>7, <1>9, <1>10 DEF Moved

LEMMA BrowserMoves ==
  ASSUME NEW s \in Sounds, NEW id \in 1..Len(s.narrations),
         NEW to \in InTheBrowser,
         NEW t, t = [s EXCEPT !.narrations[id].browser = to]
  PROVE  /\ Moved(s, t, id)
         /\ t.narrations[id].browser = to
         /\ t.narrations[id].azure = s.narrations[id].azure
         /\ t.narrations[id].cancelled <=> s.narrations[id].cancelled
         /\ t.narrations[id].started <=> s.narrations[id].started
         /\ t.element = s.element /\ (t.playing <=> s.playing)
         /\ t.generation = s.generation /\ t.utterance = s.utterance /\ (t.audible <=> s.audible)
<1>1. PICK n \in NarrationRecords : n = s.narrations[id]
  BY DEF Sounds
<1>2. PICK m : m = [n EXCEPT !.browser = to]
  OBVIOUS
<1>3. m \in NarrationRecords
  BY <1>2 DEF NarrationRecords
<1>4. m.browser = to /\ m.azure = n.azure /\ (m.cancelled <=> n.cancelled) /\ (m.started <=> n.started)
  BY <1>2 DEF NarrationRecords
<1>5. PICK q : q = [s.narrations EXCEPT ![id] = m]
  OBVIOUS
<1>6. s.narrations \in Seq(NarrationRecords)
  BY DEF Sounds
<1>7. /\ q \in Seq(NarrationRecords) /\ Len(q) = Len(s.narrations) /\ q[id] = m
      /\ \A j \in 1..Len(s.narrations) : j # id => q[j] = s.narrations[j]
  BY <1>3, <1>5, <1>6, OneReplaced
<1>8. t = [s EXCEPT !.narrations = q]
  BY <1>1, <1>2, <1>5
<1>9. t \in Sounds /\ t.narrations = q
  BY <1>7, <1>8 DEF Sounds
<1>10. /\ t.element = s.element /\ (t.playing <=> s.playing)
       /\ t.generation = s.generation /\ t.utterance = s.utterance /\ (t.audible <=> s.audible)
  BY <1>8 DEF Sounds
<1> QED BY <1>1, <1>4, <1>7, <1>9, <1>10 DEF Moved

\* The narration on its way, if any, and the record of it.
LiveIn(v, s, id) == id \in 1..Len(s.narrations) /\ v.session = id /\ ~v.gone

\* The sound of the one narration, m being its record.
HeldAt(s, id, m) ==
  /\ ~m.cancelled
  /\ m.azure \in {"starting", "playing"} => s.element = id
  /\ s.element = id => m.azure \notin {"none", "fetching"}
  /\ s.playing => s.element = id /\ m.azure = "playing"
  /\ s.utterance \in {Nobody, id}
  /\ s.utterance = id => m.browser \in {"queued", "speaking"} /\ s.generation = id
  /\ s.audible => s.utterance = id /\ m.browser = "speaking"
  /\ m.browser # "none" => m.azure \in Over

LEMMA LiveHeld ==
  ASSUME NEW v, NEW s, Fits(v, s), NEW id, LiveIn(v, s, id), ~s.narrations[id].cancelled
  PROVE  /\ HeldAt(s, id, s.narrations[id])
         /\ v.generation = id /\ v.speaking
         /\ v.watchdog \/ s.audible \/ s.narrations[id].started
<1>1. /\ v.session = id /\ ~v.gone /\ id \in 1..Len(s.narrations) /\ id # Nobody
  BY DEF LiveIn, Nobody
<1>2. \A j \in 1..Len(s.narrations) : j # id =>
         s.narrations[j].cancelled \/ (s.narrations[j].azure \in Over /\ s.narrations[j].browser \in Over)
  BY <1>1 DEF Fits, OneLive
<1>3. s.narrations[id].browser # "none" => s.narrations[id].azure \in Over
  BY <1>1 DEF Fits, OneLive
<1>4. HeldAt(s, id, s.narrations[id])
  BY <1>1, <1>2, <1>3 DEF Fits, Held, HeldAt, Over
<1>5. v.generation = id /\ v.speaking
  BY <1>1 DEF Fits, Attentive
<1> QED BY <1>1, <1>4, <1>5 DEF Fits, Watched

\* Whoever moves the live narration answers for it alone.
LEMMA LiveMoves ==
  ASSUME NEW v, NEW s, Fits(v, s), NEW id, LiveIn(v, s, id),
         NEW w, NEW t, Moved(s, t, id),
         t.element = s.element \/ t.element = id,
         HeldAt(t, id, t.narrations[id]),
         Attentive(w, t),
         \/ w.session = id /\ ~w.gone
         \/ t.narrations[id].azure \in Over /\ t.narrations[id].browser \in Over,
         w.speaking /\ ~w.gone => w.session = id /\ (w.watchdog \/ t.audible \/ t.narrations[id].started)
  PROVE  Fits(w, t)
<1>1. /\ v.session = id /\ ~v.gone /\ id \in 1..Len(s.narrations) /\ id # Nobody
  BY DEF LiveIn, Nobody
<1>2. \A j \in 1..Len(t.narrations) : j # id =>
         LET n == t.narrations[j]
         IN  /\ n.cancelled \/ (n.azure \in Over /\ n.browser \in Over)
             /\ n.browser # "none" => n.azure \in Over
  BY <1>1 DEF Fits, OneLive, Moved
<1>3. t.narrations[id].browser # "none" => t.narrations[id].azure \in Over
  BY DEF HeldAt
<1>4. OneLive(w, t)
  BY <1>2, <1>3 DEF OneLive
<1>5. t.element # Nobody /\ t.element # id =>
        /\ t.element \in 1..Len(t.narrations)
        /\ ~t.narrations[t.element].cancelled
        /\ t.narrations[t.element].azure \notin {"none", "fetching"}
  BY DEF Fits, Held, Moved
<1>6. Held(t)
  BY <1>1, <1>2, <1>5 DEF Held, HeldAt, Moved, Over
<1>7. Watched(w, t)
  BY DEF Watched
<1> QED BY <1>4, <1>6, <1>7 DEF Fits, Moved
SameAir(s, t) ==
  /\ t.element = s.element /\ (t.playing <=> s.playing)
  /\ t.generation = s.generation /\ t.utterance = s.utterance /\ (t.audible <=> s.audible)

\* A cancelled narration goes on unheard.
LEMMA CancelledMoves ==
  ASSUME NEW v, NEW s, Fits(v, s), NEW id \in 1..Len(s.narrations), s.narrations[id].cancelled,
         NEW t, Moved(s, t, id), SameAir(s, t), t.narrations[id].cancelled,
         t.narrations[id].started <=> s.narrations[id].started,
         t.narrations[id].browser # "none" => t.narrations[id].azure \in Over
  PROVE  Fits(v, t)
<1>1. \A j \in 1..Len(t.narrations) :
         LET n == t.narrations[j]
         IN  /\ n.cancelled \/ (v.session = j /\ ~v.gone) \/ (n.azure \in Over /\ n.browser \in Over)
             /\ n.browser # "none" => n.azure \in Over
  BY DEF Fits, OneLive, Moved
<1>2. OneLive(v, t)
  BY <1>1 DEF OneLive
<1>3. Held(t)
  BY DEF Fits, Held, Moved, SameAir
<1>4. Attentive(v, t)
  BY DEF Fits, Attentive, Moved
<1>5. Watched(v, t)
  BY <1>4 DEF Fits, Watched, Attentive, Moved, SameAir, Nobody
<1> QED BY <1>2, <1>3, <1>4, <1>5 DEF Fits, Moved

\* A narration that is neither cancelled nor over is the one the hook can cancel.
LEMMA UncancelledIsLive ==
  ASSUME NEW v, NEW s, Fits(v, s), NEW id \in 1..Len(s.narrations), ~s.narrations[id].cancelled,
         ~(s.narrations[id].azure \in Over /\ s.narrations[id].browser \in Over)
  PROVE  LiveIn(v, s, id)
BY DEF Fits, OneLive, LiveIn

LEMMA SynthesisedKeeps ==
  ASSUME NarrationIInv, NEW id \in DOMAIN sound.narrations, Synthesised(id)
  PROVE  NarrationIInv'
<1>1. id \in 1..Len(sound.narrations) /\ Fits(voice, sound) /\ sound \in Sounds /\ voice' = voice
  BY DEF NarrationIInv, Fits, Sounds, Synthesised
<1>2. sound.narrations[id].azure = "fetching"
  BY DEF Synthesised, Narration
<1>3. sound.narrations[id].browser = "none"
  BY <1>1, <1>2 DEF Fits, OneLive, Over
<1>4. CASE sound.narrations[id].cancelled
  <2>1. PICK t : t = [sound EXCEPT !.narrations[id].azure = "over"]
    OBVIOUS
  <2>2. sound' = t
    BY <1>4, <2>1 DEF Synthesised, Narration
  <2>3. /\ Moved(sound, t, id) /\ t.narrations[id].azure = "over"
        /\ t.narrations[id].cancelled
        /\ t.narrations[id].started <=> sound.narrations[id].started
        /\ SameAir(sound, t)
    BY <1>1, <1>4, <2>1, AzureMoves DEF SameAir
  <2>4. Fits(voice, t)
    BY <1>1, <1>4, <2>3, CancelledMoves DEF Over
  <2> QED BY <1>1, <2>2, <2>4 DEF NarrationIInv
<1>5. CASE ~sound.narrations[id].cancelled
  <2>1. PICK t : t = [sound EXCEPT !.narrations[id].azure = "starting"]
    OBVIOUS
  <2>2. PICK u : u = [t EXCEPT !.element = id]
    OBVIOUS
  <2>3. sound' = u
    BY <1>5, <2>1, <2>2 DEF Synthesised, Narration
  <2>4. /\ Moved(sound, t, id) /\ t.narrations[id].azure = "starting"
        /\ t.narrations[id].browser = "none"
        /\ ~t.narrations[id].cancelled
        /\ t.narrations[id].started <=> sound.narrations[id].started
        /\ SameAir(sound, t)
    BY <1>1, <1>3, <1>5, <2>1, AzureMoves DEF SameAir
  <2>5. /\ u \in Sounds /\ u.narrations = t.narrations /\ u.element = id
        /\ (u.playing <=> sound.playing) /\ u.generation = sound.generation
        /\ u.utterance = sound.utterance /\ (u.audible <=> sound.audible)
    <3>1. t \in Sounds /\ id \in Nat
      BY <1>1, <2>4 DEF Moved
    <3>2. /\ u \in Sounds /\ u.narrations = t.narrations /\ u.element = id
          /\ (u.playing <=> t.playing) /\ u.generation = t.generation
          /\ u.utterance = t.utterance /\ (u.audible <=> t.audible)
      BY <2>2, <3>1 DEF Sounds
    <3> QED BY <2>4, <3>2 DEF SameAir
  <2>6. LiveIn(voice, sound, id)
    BY <1>1, <1>2, <1>5, UncancelledIsLive DEF Over
  <2>7. /\ HeldAt(sound, id, sound.narrations[id]) /\ voice.generation = id /\ voice.speaking
        /\ voice.watchdog \/ sound.audible \/ sound.narrations[id].started
    BY <1>1, <1>5, <2>6, LiveHeld
  <2>8. HeldAt(u, id, u.narrations[id])
    BY <1>2, <1>3, <2>4, <2>5, <2>7 DEF HeldAt, Nobody
  <2>9. Moved(sound, u, id)
    BY <2>4, <2>5 DEF Moved
  <2>10. Attentive(voice, u) /\ voice.session = id /\ ~voice.gone
    BY <1>1, <2>6, <2>9 DEF Fits, Attentive, Moved, LiveIn
  <2>11. Fits(voice, u)
    BY <1>1, <2>4, <2>5, <2>6, <2>7, <2>8, <2>9, <2>10, LiveMoves
  <2> QED BY <1>1, <2>3, <2>11 DEF NarrationIInv
<1> QED BY <1>4, <1>5

\* The fields of the hook.
LEMMA SettledVoice ==
  ASSUME NEW v, NEW s, Attentive(v, s)
  PROVE  /\ Attentive(Settle(v), s)
         /\ ~Settle(v).speaking /\ (Settle(v).gone <=> v.gone)
<1>1. PICK w : w = Settle(v)
  OBVIOUS
<1>2. v \in Voices
  BY DEF Attentive
<1>3. /\ w \in Voices /\ w.session = Nobody /\ ~w.speaking /\ ~w.watchdog
      /\ (w.gone <=> v.gone) /\ w.generation = v.generation
  BY <1>1, <1>2 DEF Settle, Voices, Nobody
<1>4. 0 \in 0..Len(s.narrations)
  BY DEF Attentive, Nobody
<1>5. Attentive(w, s)
  BY <1>3, <1>4 DEF Attentive, Nobody
<1> QED BY <1>1, <1>3, <1>5

LEMMA OnStartFields ==
  ASSUME NarrationIInv, NEW id, LiveIn(voice, sound, id), NEW w, w = OnStart(id)
  PROVE  Attentive(w, sound) /\ w.session = id /\ ~w.gone /\ w.speaking
<1>1. voice \in Voices /\ Attentive(voice, sound) /\ voice.session = id /\ ~voice.gone /\ id # Nobody
  BY DEF NarrationIInv, Fits, Attentive, LiveIn, Nobody
<1>2. voice.generation = id /\ voice.speaking
  BY <1>1 DEF Attentive
<1>3. /\ w \in Voices /\ w.session = id /\ ~w.gone /\ w.speaking /\ w.generation = id
  BY <1>1, <1>2 DEF OnStart, Voices
<1> QED BY <1>1, <1>3 DEF Attentive

LEMMA PlayStartsKeeps ==
  ASSUME NarrationIInv, NEW id \in DOMAIN sound.narrations, PlayStarts(id)
  PROVE  NarrationIInv'
<1>1. id \in 1..Len(sound.narrations) /\ Fits(voice, sound) /\ sound \in Sounds
  BY DEF NarrationIInv, Fits, Sounds
<1>2. sound.narrations[id].azure = "starting"
  BY DEF PlayStarts, Narration
<1>3. sound.narrations[id].browser = "none"
  BY <1>1, <1>2 DEF Fits, OneLive, Over
<1>4. CASE sound.narrations[id].cancelled
  <2>1. PICK t : t = [sound EXCEPT !.narrations[id].azure = "over"]
    OBVIOUS
  <2>2. sound' = t /\ voice' = voice
    BY <1>4, <2>1 DEF PlayStarts, Narration
  <2>3. /\ Moved(sound, t, id) /\ t.narrations[id].azure = "over"
        /\ t.narrations[id].cancelled
        /\ t.narrations[id].started <=> sound.narrations[id].started
        /\ SameAir(sound, t)
    BY <1>1, <1>4, <2>1, AzureMoves DEF SameAir
  <2>4. Fits(voice, t)
    BY <1>1, <1>4, <2>3, CancelledMoves DEF Over
  <2> QED BY <2>2, <2>4 DEF NarrationIInv
<1>5. CASE ~sound.narrations[id].cancelled
  <2>1. PICK t : t = [sound EXCEPT !.narrations[id].azure = "playing"]
    OBVIOUS
  <2>2. PICK u : u = [t EXCEPT !.narrations[id].started = TRUE, !.playing = TRUE]
    OBVIOUS
  <2>3. sound' = u
    BY <1>5, <2>1, <2>2 DEF PlayStarts, Narration
  <2>4. /\ Moved(sound, t, id) /\ t.narrations[id].azure = "playing"
        /\ t.narrations[id].browser = "none"
        /\ ~t.narrations[id].cancelled
        /\ SameAir(sound, t)
    BY <1>1, <1>3, <1>5, <2>1, AzureMoves DEF SameAir
  <2>5. /\ Moved(t, u, id)
        /\ u.narrations[id].azure = "playing" /\ u.narrations[id].browser = "none"
        /\ ~u.narrations[id].cancelled /\ u.narrations[id].started
        /\ u.playing /\ u.element = t.element /\ u.generation = t.generation
        /\ u.utterance = t.utterance /\ (u.audible <=> t.audible)
    <3>1. PICK n \in NarrationRecords : n = t.narrations[id]
      BY <1>1, <2>4 DEF Moved, Sounds
    <3>2. PICK m : m = [n EXCEPT !.started = TRUE]
      OBVIOUS
    <3>3. m \in NarrationRecords
      BY <3>2 DEF NarrationRecords
    <3>4. m.started /\ m.azure = n.azure /\ m.browser = n.browser /\ (m.cancelled <=> n.cancelled)
      BY <3>2 DEF NarrationRecords
    <3>5. PICK q : q = [t.narrations EXCEPT ![id] = m]
      OBVIOUS
    <3>6. t.narrations \in Seq(NarrationRecords) /\ id \in 1..Len(t.narrations)
      BY <1>1, <2>4 DEF Sounds, Moved
    <3>7. /\ q \in Seq(NarrationRecords) /\ Len(q) = Len(t.narrations) /\ q[id] = m
          /\ \A j \in 1..Len(t.narrations) : j # id => q[j] = t.narrations[j]
      BY <3>3, <3>5, <3>6, OneReplaced
    <3>8. u = [t EXCEPT !.narrations = q, !.playing = TRUE]
      BY <2>2, <3>1, <3>2, <3>5
    <3>9. /\ u \in Sounds /\ u.narrations = q
          /\ u.playing /\ u.element = t.element /\ u.generation = t.generation
          /\ u.utterance = t.utterance /\ (u.audible <=> t.audible)
      BY <2>4, <3>7, <3>8 DEF Moved, Sounds
    <3> QED BY <2>4, <3>1, <3>4, <3>7, <3>9 DEF Moved
  <2>6. LiveIn(voice, sound, id)
    BY <1>1, <1>2, <1>5, UncancelledIsLive DEF Over
  <2>7. HeldAt(sound, id, sound.narrations[id])
    BY <1>1, <1>5, <2>6, LiveHeld
  <2>8. HeldAt(u, id, u.narrations[id])
    BY <1>2, <1>3, <2>4, <2>5, <2>7 DEF HeldAt, Nobody, SameAir
  <2>9. Moved(sound, u, id)
    BY <2>4, <2>5 DEF Moved
  <2>10. PICK w : w = OnStart(id)
    OBVIOUS
  <2>11. voice' = w
    BY <1>5, <2>10 DEF PlayStarts, Narration
  <2>12. Attentive(w, sound) /\ w.session = id /\ ~w.gone /\ w.speaking
    BY <2>6, <2>10, OnStartFields
  <2>13. Attentive(w, u)
    BY <2>9, <2>12 DEF Attentive, Moved
  <2>14. Fits(w, u)
    BY <1>1, <2>4, <2>5, <2>6, <2>8, <2>9, <2>12, <2>13, LiveMoves DEF SameAir
  <2> QED BY <2>3, <2>11, <2>14 DEF NarrationIInv
<1> QED BY <1>4, <1>5
LEMMA InBrowserFields ==
  ASSUME NEW s \in Sounds, NEW id \in 1..Len(s.narrations), NEW outcome \in {"queued", "voices", "over"},
         NEW t, t = InBrowser(s, id, outcome)
  PROVE  /\ Moved(s, t, id)
         /\ t.narrations[id].browser = outcome
         /\ t.narrations[id].azure = s.narrations[id].azure
         /\ t.narrations[id].cancelled <=> s.narrations[id].cancelled
         /\ t.narrations[id].started <=> s.narrations[id].started
         /\ t.element = s.element /\ (t.playing <=> s.playing)
         /\ t.generation = id /\ ~t.audible
         /\ t.utterance = IF outcome = "queued" THEN id ELSE Nobody
<1>1. PICK a : a = Emptied(s)
  OBVIOUS
<1>2. /\ a \in Sounds /\ a.narrations = s.narrations /\ a.element = s.element
      /\ (a.playing <=> s.playing) /\ a.utterance = Nobody /\ ~a.audible
  BY <1>1 DEF Emptied, Sounds, Nobody
<1>3. PICK b : b = [a EXCEPT !.generation = id]
  OBVIOUS
<1>4. /\ b \in Sounds /\ b.narrations = s.narrations /\ b.element = s.element
      /\ (b.playing <=> s.playing) /\ b.utterance = Nobody /\ ~b.audible /\ b.generation = id
  BY <1>2, <1>3 DEF Sounds
<1>5. PICK c : c = [b EXCEPT !.narrations[id].browser = outcome]
  OBVIOUS
<1>6. c = [Emptied(s) EXCEPT !.generation = id, !.narrations[id].browser = outcome]
  BY <1>1, <1>3, <1>5
<1>7. id \in 1..Len(b.narrations)
  BY <1>4
<1>70. outcome \in InTheBrowser
  BY DEF InTheBrowser
<1>71. b \in Sounds
  BY <1>4
<1>8. /\ Moved(b, c, id)
      /\ c.narrations[id].browser = outcome
      /\ c.narrations[id].azure = b.narrations[id].azure
      /\ c.narrations[id].cancelled <=> b.narrations[id].cancelled
      /\ c.narrations[id].started <=> b.narrations[id].started
      /\ c.element = b.element /\ (c.playing <=> b.playing)
      /\ c.generation = b.generation /\ c.utterance = b.utterance /\ (c.audible <=> b.audible)
  BY <1>5, <1>7, <1>70, <1>71, BrowserMoves
<1>9. t = IF outcome = "queued" THEN [c EXCEPT !.utterance = id] ELSE c
  BY <1>6 DEF InBrowser
<1>10. /\ t \in Sounds /\ t.narrations = c.narrations /\ t.element = c.element
       /\ (t.playing <=> c.playing) /\ t.generation = c.generation /\ (t.audible <=> c.audible)
       /\ t.utterance = IF outcome = "queued" THEN id ELSE Nobody
  <2>1. CASE outcome = "queued"
    BY <1>8, <1>9, <2>1 DEF Moved, Sounds
  <2>2. CASE outcome # "queued"
    BY <1>4, <1>8, <1>9, <2>2 DEF Moved
  <2> QED BY <2>1, <2>2
<1> QED BY <1>4, <1>8, <1>10 DEF Moved

\* The browser takes over the live narration, or has no voice for it.
LEMMA InBrowserKeeps ==
  ASSUME NEW v, NEW s, Fits(v, s), NEW id, LiveIn(v, s, id), ~s.narrations[id].cancelled,
         s.narrations[id].azure \in Over, s.narrations[id].browser \notin {"queued", "speaking"},
         NEW outcome \in {"queued", "voices", "over"}, NEW t, t = InBrowser(s, id, outcome)
  PROVE  /\ Fits(v, t)
         /\ outcome = "over" => Fits(OnOver(v, id), t)
<1>1. id \in 1..Len(s.narrations) /\ s \in Sounds /\ id # Nobody /\ Attentive(v, s)
  BY DEF LiveIn, Fits, Nobody
<1>2. /\ Moved(s, t, id)
      /\ t.narrations[id].browser = outcome
      /\ t.narrations[id].azure = s.narrations[id].azure
      /\ ~t.narrations[id].cancelled
      /\ t.narrations[id].started <=> s.narrations[id].started
      /\ t.element = s.element /\ (t.playing <=> s.playing)
      /\ t.generation = id /\ ~t.audible
      /\ t.utterance = IF outcome = "queued" THEN id ELSE Nobody
  BY <1>1, InBrowserFields
<1>3. /\ HeldAt(s, id, s.narrations[id])
      /\ v.generation = id /\ v.speaking
      /\ v.watchdog \/ s.audible \/ s.narrations[id].started
  BY LiveHeld
<1>4. HeldAt(t, id, t.narrations[id])
  BY <1>1, <1>2, <1>3 DEF HeldAt, Over
<1>5. ~s.audible
  BY <1>3 DEF HeldAt
<1>6. Attentive(v, t) /\ v.session = id /\ ~v.gone
  BY <1>1, <1>2 DEF Attentive, Moved, LiveIn
<1>7. Fits(v, t)
  BY <1>2, <1>3, <1>4, <1>5, <1>6, LiveMoves
<1>8. ASSUME outcome = "over"
      PROVE  Fits(OnOver(v, id), t)
  <2>1. OnOver(v, id) = Settle(v)
    BY <1>3 DEF OnOver
  <2>2. PICK w : w = Settle(v)
    OBVIOUS
  <2>3. Attentive(w, t) /\ ~w.speaking
    BY <1>6, <2>2, SettledVoice
  <2>4. t.narrations[id].azure \in Over /\ t.narrations[id].browser \in Over
    BY <1>2, <1>8 DEF Over
  <2>5. Fits(w, t)
    BY <1>2, <1>4, <2>3, <2>4, LiveMoves
  <2> QED BY <2>1, <2>2, <2>5
<1> QED BY <1>7, <1>8

LEMMA SpeakInBrowserKeeps ==
  ASSUME NEW v, NEW s, Fits(v, s), NEW id, LiveIn(v, s, id), ~s.narrations[id].cancelled,
         s.narrations[id].azure \in Over, s.narrations[id].browser \notin {"queued", "speaking"},
         SpeakInBrowser(v, s, id)
  PROVE  NarrationIInv'
<1>1. PICK outcome \in {"queued", "voices", "over"} :
         /\ sound' = InBrowser(s, id, outcome)
         /\ voice' = IF outcome = "over" THEN OnOver(v, id) ELSE v
  BY DEF SpeakInBrowser
<1>2. PICK t : t = InBrowser(s, id, outcome)
  OBVIOUS
<1>3. Fits(v, t) /\ (outcome = "over" => Fits(OnOver(v, id), t))
  BY <1>2, InBrowserKeeps
<1> QED BY <1>1, <1>2, <1>3 DEF NarrationIInv

\* The fallback of a narration Azure is done with.
LEMMA FallBackKeeps ==
  ASSUME NarrationIInv, NEW s, Fits(voice, s), NEW id \in 1..Len(s.narrations),
         s.narrations[id].azure = "over",
         ~s.narrations[id].cancelled => LiveIn(voice, s, id),
         FallBack(s, id)
  PROVE  NarrationIInv'
<1>1. CASE s.narrations[id].cancelled \/ s.narrations[id].browser # "none"
  BY <1>1 DEF FallBack, NarrationIInv
<1>2. CASE ~(s.narrations[id].cancelled \/ s.narrations[id].browser # "none")
  <2>1. SpeakInBrowser(voice, s, id)
    BY <1>2 DEF FallBack
  <2> QED BY <1>2, <2>1, SpeakInBrowserKeeps DEF Over
<1> QED BY <1>1, <1>2

LEMMA SynthesisFailsKeeps ==
  ASSUME NarrationIInv, NEW id \in DOMAIN sound.narrations, SynthesisFails(id)
  PROVE  NarrationIInv'
<1>1. id \in 1..Len(sound.narrations) /\ Fits(voice, sound) /\ sound \in Sounds
  BY DEF NarrationIInv, Fits, Sounds
<1>2. sound.narrations[id].azure = "fetching"
  BY DEF SynthesisFails, Narration
<1>3. sound.narrations[id].browser = "none"
  BY <1>1, <1>2 DEF Fits, OneLive, Over
<1>4. PICK t : t = [sound EXCEPT !.narrations[id].azure = "over"]
  OBVIOUS
<1>5. FallBack(t, id)
  BY <1>4 DEF SynthesisFails
<1>6. /\ Moved(sound, t, id) /\ t.narrations[id].azure = "over"
      /\ t.narrations[id].browser = "none"
      /\ t.narrations[id].cancelled <=> sound.narrations[id].cancelled
      /\ t.narrations[id].started <=> sound.narrations[id].started
      /\ SameAir(sound, t)
  BY <1>1, <1>3, <1>4, AzureMoves DEF SameAir
<1>7. CASE sound.narrations[id].cancelled
  <2>1. Fits(voice, t)
    BY <1>1, <1>6, <1>7, CancelledMoves DEF Over
  <2> QED BY <1>1, <1>5, <1>6, <1>7, <2>1, FallBackKeeps DEF Moved
<1>8. CASE ~sound.narrations[id].cancelled
  <2>1. LiveIn(voice, sound, id)
    BY <1>1, <1>2, <1>8, UncancelledIsLive DEF Over
  <2>2. /\ HeldAt(sound, id, sound.narrations[id]) /\ voice.speaking
        /\ voice.watchdog \/ sound.audible \/ sound.narrations[id].started
    BY <1>1, <1>8, <2>1, LiveHeld
  <2>3. HeldAt(t, id, t.narrations[id])
    BY <1>2, <1>6, <1>8, <2>2 DEF HeldAt, SameAir, Over
  <2>4. Attentive(voice, t) /\ voice.session = id /\ ~voice.gone
    BY <1>1, <1>6, <2>1 DEF Fits, Attentive, Moved, LiveIn
  <2>5. t.element = sound.element /\ (t.audible <=> sound.audible)
    BY <1>6 DEF SameAir
  <2>6. Fits(voice, t)
    BY <1>1, <1>6, <2>1, <2>2, <2>3, <2>4, <2>5, LiveMoves
  <2>7. LiveIn(voice, t, id) /\ id \in 1..Len(t.narrations)
    BY <1>6, <2>1 DEF LiveIn, Moved
  <2> QED BY <1>5, <1>6, <2>6, <2>7, FallBackKeeps
<1> QED BY <1>7, <1>8

LEMMA PlayBreaksOffKeeps ==
  ASSUME NarrationIInv, NEW id \in DOMAIN sound.narrations, PlayBreaksOff(id)
  PROVE  NarrationIInv'
<1>1. id \in 1..Len(sound.narrations) /\ Fits(voice, sound) /\ sound \in Sounds
  BY DEF NarrationIInv, Fits, Sounds
<1>2. sound.narrations[id].azure \in {"starting", "playing"} /\ sound.element = id
  BY DEF PlayBreaksOff, Narration
<1>3. sound.narrations[id].browser = "none"
  BY <1>1, <1>2 DEF Fits, OneLive, Over
<1>4. ~sound.narrations[id].cancelled
  BY <1>1, <1>2 DEF Fits, Held, Nobody
<1>5. PICK t : t = [sound EXCEPT !.narrations[id].azure = "over"]
  OBVIOUS
<1>6. PICK u : u = [t EXCEPT !.playing = FALSE]
  OBVIOUS
<1>7. FallBack(u, id)
  BY <1>5, <1>6 DEF PlayBreaksOff
<1>8. /\ Moved(sound, t, id) /\ t.narrations[id].azure = "over"
      /\ t.narrations[id].browser = "none"
      /\ ~t.narrations[id].cancelled
      /\ t.narrations[id].started <=> sound.narrations[id].started
      /\ SameAir(sound, t)
  BY <1>1, <1>3, <1>4, <1>5, AzureMoves DEF SameAir
<1>9. /\ u \in Sounds /\ u.narrations = t.narrations /\ u.element = sound.element
      /\ ~u.playing /\ u.generation = sound.generation
      /\ u.utterance = sound.utterance /\ (u.audible <=> sound.audible)
  BY <1>6, <1>8 DEF Moved, Sounds, SameAir
<1>10. LiveIn(voice, sound, id)
  BY <1>1, <1>2, <1>4, UncancelledIsLive DEF Over
<1>11. /\ HeldAt(sound, id, sound.narrations[id]) /\ voice.speaking
       /\ voice.watchdog \/ sound.audible \/ sound.narrations[id].started
  BY <1>1, <1>4, <1>10, LiveHeld
<1>12. HeldAt(u, id, u.narrations[id])
  BY <1>3, <1>8, <1>9, <1>11 DEF HeldAt, Over
<1>13. Moved(sound, u, id)
  BY <1>8, <1>9 DEF Moved
<1>14. Attentive(voice, u) /\ voice.session = id /\ ~voice.gone
  BY <1>1, <1>10, <1>13 DEF Fits, Attentive, Moved, LiveIn
<1>15. Fits(voice, u)
  BY <1>1, <1>8, <1>9, <1>10, <1>11, <1>12, <1>13, <1>14, LiveMoves
<1>16. LiveIn(voice, u, id) /\ id \in 1..Len(u.narrations)
  BY <1>10, <1>13 DEF LiveIn, Moved
<1> QED BY <1>7, <1>8, <1>9, <1>15, <1>16, FallBackKeeps

LEMMA PlayEndsKeeps ==
  ASSUME NarrationIInv, NEW id \in DOMAIN sound.narrations, PlayEnds(id)
  PROVE  NarrationIInv'
<1>1. id \in 1..Len(sound.narrations) /\ Fits(voice, sound) /\ sound \in Sounds
  BY DEF NarrationIInv, Fits, Sounds
<1>2. sound.narrations[id].azure = "playing" /\ sound.element = id
  BY DEF PlayEnds, Narration
<1>3. sound.narrations[id].browser = "none"
  BY <1>1, <1>2 DEF Fits, OneLive, Over
<1>4. ~sound.narrations[id].cancelled
  BY <1>1, <1>2 DEF Fits, Held, Nobody
<1>5. PICK t : t = [sound EXCEPT !.narrations[id].azure = "over"]
  OBVIOUS
<1>6. PICK u : u = [t EXCEPT !.playing = FALSE]
  OBVIOUS
<1>7. sound' = u
  BY <1>5, <1>6 DEF PlayEnds
<1>8. /\ Moved(sound, t, id) /\ t.narrations[id].azure = "over"
      /\ t.narrations[id].browser = "none"
      /\ ~t.narrations[id].cancelled
      /\ SameAir(sound, t)
  BY <1>1, <1>3, <1>4, <1>5, AzureMoves DEF SameAir
<1>9. /\ u \in Sounds /\ u.narrations = t.narrations /\ u.element = sound.element
      /\ ~u.playing /\ u.generation = sound.generation
      /\ u.utterance = sound.utterance /\ (u.audible <=> sound.audible)
  BY <1>6, <1>8 DEF Moved, Sounds, SameAir
<1>10. LiveIn(voice, sound, id)
  BY <1>1, <1>2, <1>4, UncancelledIsLive DEF Over
<1>11. HeldAt(sound, id, sound.narrations[id]) /\ voice.generation = id
  BY <1>1, <1>4, <1>10, LiveHeld
<1>12. HeldAt(u, id, u.narrations[id])
  BY <1>3, <1>8, <1>9, <1>11 DEF HeldAt, Over
<1>13. Moved(sound, u, id)
  BY <1>8, <1>9 DEF Moved
<1>14. PICK w : w = Settle(voice)
  OBVIOUS
<1>15. voice' = w
  BY <1>11, <1>14 DEF PlayEnds, OnOver
<1>16. Attentive(voice, u)
  BY <1>1, <1>13 DEF Fits, Attentive, Moved
<1>17. Attentive(w, u) /\ ~w.speaking
  BY <1>14, <1>16, SettledVoice
<1>18. Fits(w, u)
  BY <1>1, <1>8, <1>9, <1>10, <1>12, <1>13, <1>17, LiveMoves DEF Over
<1> QED BY <1>7, <1>15, <1>18 DEF NarrationIInv
LEMMA VoicesLoadedKeeps ==
  ASSUME NarrationIInv, NEW id \in DOMAIN sound.narrations, VoicesLoaded(id)
  PROVE  NarrationIInv'
<1>1. /\ id \in 1..Len(sound.narrations) /\ Fits(voice, sound) /\ sound \in Sounds
      /\ voice' = voice
  BY DEF NarrationIInv, Fits, Sounds, VoicesLoaded
<1>2. sound.narrations[id].browser = "voices"
  BY DEF VoicesLoaded, Narration
<1>3. sound.narrations[id].azure \in Over
  BY <1>1, <1>2 DEF Fits, OneLive
<1>4. CASE Counts(id)
  <2>1. ~sound.narrations[id].cancelled
    BY <1>4 DEF Counts, Narration
  <2>2. LiveIn(voice, sound, id)
    BY <1>1, <1>2, <2>1, UncancelledIsLive DEF Over
  <2>3. PICK t : t = InBrowser(sound, id, "queued")
    OBVIOUS
  <2>4. Fits(voice, t)
    BY <1>1, <1>2, <1>3, <2>1, <2>2, <2>3, InBrowserKeeps
  <2> QED BY <1>1, <1>4, <2>3, <2>4 DEF VoicesLoaded, NarrationIInv
<1>5. CASE ~Counts(id)
  <2>1. PICK t : t = [sound EXCEPT !.narrations[id].browser = "over"]
    OBVIOUS
  <2>2. sound' = t
    BY <1>5, <2>1 DEF VoicesLoaded
  <2>3. /\ Moved(sound, t, id) /\ t.narrations[id].browser = "over"
        /\ t.narrations[id].azure = sound.narrations[id].azure
        /\ t.narrations[id].cancelled <=> sound.narrations[id].cancelled
        /\ t.narrations[id].started <=> sound.narrations[id].started
        /\ SameAir(sound, t)
    BY <1>1, <2>1, BrowserMoves DEF SameAir, InTheBrowser
  <2>4. CASE sound.narrations[id].cancelled
    BY <1>1, <1>3, <2>2, <2>3, <2>4, CancelledMoves DEF NarrationIInv
  <2>5. CASE ~sound.narrations[id].cancelled
    <3>1. LiveIn(voice, sound, id)
      BY <1>1, <1>2, <2>5, UncancelledIsLive DEF Over
    <3>2. /\ HeldAt(sound, id, sound.narrations[id])
          /\ voice.watchdog \/ sound.audible \/ sound.narrations[id].started
      BY <1>1, <2>5, <3>1, LiveHeld
    <3>3. HeldAt(t, id, t.narrations[id])
      BY <1>2, <1>3, <2>3, <2>5, <3>2 DEF HeldAt, SameAir, Over
    <3>4. Attentive(voice, t) /\ voice.session = id /\ ~voice.gone
      BY <1>1, <2>3, <3>1 DEF Fits, Attentive, Moved, LiveIn
    <3>5. t.element = sound.element /\ (t.audible <=> sound.audible)
      BY <2>3 DEF SameAir
    <3>6. Fits(voice, t)
      BY <1>1, <2>3, <3>1, <3>2, <3>3, <3>4, <3>5, LiveMoves
    <3> QED BY <1>1, <2>2, <3>6 DEF NarrationIInv
  <2> QED BY <2>4, <2>5
<1> QED BY <1>4, <1>5

\* What the queue holds is the live narration, and counts.
LEMMA UtteranceIsLive ==
  ASSUME NarrationIInv, NEW id \in DOMAIN sound.narrations, sound.utterance = id
  PROVE  /\ id \in 1..Len(sound.narrations) /\ id # Nobody
         /\ ~sound.narrations[id].cancelled /\ Counts(id)
         /\ sound.narrations[id].browser \in {"queued", "speaking"}
         /\ sound.narrations[id].azure \in Over
         /\ LiveIn(voice, sound, id) /\ voice.generation = id
<1>1. id \in 1..Len(sound.narrations) /\ Fits(voice, sound) /\ id # Nobody
  BY DEF NarrationIInv, Fits, Sounds, Nobody
<1>2. /\ ~sound.narrations[id].cancelled /\ sound.generation = id
      /\ sound.narrations[id].browser \in {"queued", "speaking"}
  BY <1>1 DEF Fits, Held
<1>3. sound.narrations[id].azure \in Over
  BY <1>1, <1>2 DEF Fits, OneLive
<1>4. LiveIn(voice, sound, id)
  BY <1>1, <1>2, UncancelledIsLive DEF Over
<1>5. voice.generation = id
  BY <1>1, <1>2, <1>4, LiveHeld
<1> QED BY <1>1, <1>2, <1>3, <1>4, <1>5 DEF Counts, Narration

LEMMA UtteranceStartsKeeps ==
  ASSUME NarrationIInv, NEW id \in DOMAIN sound.narrations, UtteranceStarts(id)
  PROVE  NarrationIInv'
<1>1. sound.utterance = id /\ Fits(voice, sound) /\ sound \in Sounds
  BY DEF NarrationIInv, Fits, UtteranceStarts
<1>2. /\ id \in 1..Len(sound.narrations) /\ id # Nobody
      /\ ~sound.narrations[id].cancelled /\ Counts(id)
      /\ sound.narrations[id].azure \in Over
      /\ LiveIn(voice, sound, id)
  BY <1>1, UtteranceIsLive
<1>3. PICK t : t = [sound EXCEPT !.narrations[id].browser = "speaking"]
  OBVIOUS
<1>4. PICK u : u = [t EXCEPT !.audible = TRUE]
  OBVIOUS
<1>5. sound' = u
  BY <1>3, <1>4 DEF UtteranceStarts
<1>6. /\ Moved(sound, t, id) /\ t.narrations[id].browser = "speaking"
      /\ t.narrations[id].azure = sound.narrations[id].azure
      /\ ~t.narrations[id].cancelled
      /\ SameAir(sound, t)
  BY <1>1, <1>2, <1>3, BrowserMoves DEF SameAir, InTheBrowser
<1>7. /\ u \in Sounds /\ u.narrations = t.narrations /\ u.element = sound.element
      /\ (u.playing <=> sound.playing) /\ u.generation = sound.generation
      /\ u.utterance = sound.utterance /\ u.audible
  BY <1>4, <1>6 DEF Moved, Sounds, SameAir
<1>8. HeldAt(sound, id, sound.narrations[id])
  BY <1>1, <1>2, LiveHeld
<1>9. HeldAt(u, id, u.narrations[id])
  BY <1>1, <1>2, <1>6, <1>7, <1>8 DEF HeldAt, Over
<1>10. Moved(sound, u, id)
  BY <1>6, <1>7 DEF Moved
<1>11. PICK w : w = OnStart(id)
  OBVIOUS
<1>12. voice' = w
  BY <1>2, <1>11 DEF UtteranceStarts
<1>13. Attentive(w, sound) /\ w.session = id /\ ~w.gone
  BY <1>2, <1>11, OnStartFields
<1>14. Attentive(w, u)
  BY <1>10, <1>13 DEF Attentive, Moved
<1>15. Fits(w, u)
  BY <1>1, <1>2, <1>7, <1>9, <1>10, <1>13, <1>14, LiveMoves
<1> QED BY <1>5, <1>12, <1>15 DEF NarrationIInv

LEMMA UtteranceOverKeeps ==
  ASSUME NarrationIInv, NEW id \in DOMAIN sound.narrations, UtteranceOver(id)
  PROVE  NarrationIInv'
<1>1. sound.utterance = id /\ Fits(voice, sound) /\ sound \in Sounds
  BY DEF NarrationIInv, Fits, UtteranceOver
<1>2. /\ id \in 1..Len(sound.narrations) /\ id # Nobody
      /\ ~sound.narrations[id].cancelled /\ Counts(id)
      /\ sound.narrations[id].azure \in Over
      /\ LiveIn(voice, sound, id) /\ voice.generation = id
  BY <1>1, UtteranceIsLive
<1>3. PICK a : a = Emptied(sound)
  OBVIOUS
<1>4. /\ a \in Sounds /\ a.narrations = sound.narrations /\ a.element = sound.element
      /\ (a.playing <=> sound.playing) /\ a.utterance = Nobody /\ ~a.audible
  BY <1>1, <1>3 DEF Emptied, Sounds, Nobody
<1>5. PICK u : u = [a EXCEPT !.narrations[id].browser = "over"]
  OBVIOUS
<1>6. sound' = u
  BY <1>3, <1>5 DEF UtteranceOver
<1>7. /\ Moved(a, u, id) /\ u.narrations[id].browser = "over"
      /\ u.narrations[id].azure = sound.narrations[id].azure
      /\ ~u.narrations[id].cancelled
      /\ u.element = sound.element /\ (u.playing <=> sound.playing)
      /\ u.utterance = Nobody /\ ~u.audible
  BY <1>2, <1>4, <1>5, BrowserMoves DEF InTheBrowser
<1>8. HeldAt(sound, id, sound.narrations[id])
  BY <1>1, <1>2, LiveHeld
<1>9. HeldAt(u, id, u.narrations[id])
  BY <1>2, <1>7, <1>8 DEF HeldAt, Over
<1>10. Moved(sound, u, id)
  BY <1>4, <1>7 DEF Moved
<1>11. PICK w : w = Settle(voice)
  OBVIOUS
<1>12. voice' = w
  BY <1>2, <1>11 DEF UtteranceOver, OnOver
<1>13. Attentive(voice, u)
  BY <1>1, <1>10 DEF Fits, Attentive, Moved
<1>14. Attentive(w, u) /\ ~w.speaking
  BY <1>11, <1>13, SettledVoice
<1>15. u.narrations[id].azure \in Over /\ u.narrations[id].browser \in Over
  BY <1>2, <1>7 DEF Over
<1>16. Fits(w, u)
  BY <1>1, <1>2, <1>7, <1>9, <1>10, <1>14, <1>15, LiveMoves
<1> QED BY <1>6, <1>12, <1>16 DEF NarrationIInv

Begun(s) == [s EXCEPT !.narrations = Append(s.narrations, NewNarration)]
Turned(v, id) == [v EXCEPT !.speaking = TRUE, !.watchdog = TRUE, !.generation = id, !.session = id]

\* The next narration, before anything is done about it.
LEMMA FreshFits ==
  ASSUME NEW v, NEW s, Hushed(s), v \in Voices, ~v.gone,
         NEW f, f = Begun(s),
         NEW id, id = Len(s.narrations) + 1,
         NEW w, w = Turned(v, id)
  PROVE  /\ Fits(w, f) /\ LiveIn(w, f, id)
         /\ f.narrations[id] = NewNarration
         /\ \A j \in 1..Len(s.narrations) : f.narrations[j] = s.narrations[j]
         /\ Len(f.narrations) = Len(s.narrations) + 1
         /\ w.watchdog
<1>1. PICK q \in Seq(NarrationRecords) : q = s.narrations
  BY DEF Hushed, Sounds
<1>2. NewNarration \in NarrationRecords
  BY DEF NewNarration, NarrationRecords, InTheBrowser
<1>3. PICK r : r = Append(q, NewNarration)
  OBVIOUS
<1>4. /\ r \in Seq(NarrationRecords) /\ Len(r) = Len(q) + 1 /\ r[Len(q) + 1] = NewNarration
      /\ \A j \in 1..Len(q) : r[j] = q[j]
  BY <1>1, <1>2, <1>3
<1>5. Len(q) \in Nat
  BY <1>1
<1>50. id \in Nat /\ id = Len(q) + 1
  BY <1>1, <1>5
<1>6. /\ f \in Sounds /\ f.narrations = r /\ f.element = s.element /\ (f.playing <=> s.playing)
      /\ f.generation = s.generation /\ f.utterance = s.utterance /\ (f.audible <=> s.audible)
  BY <1>1, <1>3, <1>4 DEF Hushed, Sounds, Begun
<1>7. /\ w \in Voices /\ w.speaking /\ w.watchdog /\ ~w.gone
      /\ w.generation = id /\ w.session = id
  BY <1>50 DEF Voices, Turned
<1>8. NewNarration.azure = "none" /\ NewNarration.browser = "none" /\ ~NewNarration.cancelled
  BY DEF NewNarration
<1>9. \A j \in 1..Len(r) : j \in 1..Len(q) \/ j = Len(q) + 1
  BY <1>4, <1>5
<1>10. Attentive(w, f)
  BY <1>4, <1>5, <1>50, <1>6, <1>7 DEF Attentive, Nobody
<1>11. OneLive(w, f)
  BY <1>1, <1>4, <1>50, <1>6, <1>7, <1>8, <1>9 DEF OneLive, Hushed, Over
<1>12. Held(f)
  <2>1. \A j \in 1..Len(r) : ~r[j].cancelled => r[j].azure \notin {"starting", "playing"}
    BY <1>1, <1>4, <1>8, <1>9 DEF Hushed, Over
  <2>2. f.element # Nobody => /\ f.element \in 1..Len(r) /\ ~r[f.element].cancelled
                              /\ r[f.element].azure \notin {"none", "fetching"}
    BY <1>1, <1>4, <1>5, <1>50, <1>6 DEF Hushed, Held
  <2> QED BY <1>6, <2>1, <2>2 DEF Held, Hushed
<1>13. Watched(w, f)
  BY <1>7 DEF Watched
<1>14. LiveIn(w, f, id)
  BY <1>4, <1>5, <1>50, <1>6, <1>7 DEF LiveIn
<1> QED BY <1>1, <1>4, <1>50, <1>6, <1>7, <1>10, <1>11, <1>12, <1>13, <1>14 DEF Fits

LEMMA SpeakKeeps ==
  ASSUME NarrationIInv, Speak
  PROVE  NarrationIInv'
<1>1. ~voice.gone /\ voice \in Voices
  BY DEF Speak, NarrationIInv, Fits, Attentive
<1>2. PICK s : s = CancelSession
  OBVIOUS
<1>3. Hushed(s) /\ Len(s.narrations) = Len(sound.narrations)
  BY <1>1, <1>2, CancelledIsQuiet
<1>4. PICK id : id = Len(s.narrations) + 1
  OBVIOUS
<1>5. PICK f : f = Begun(s)
  OBVIOUS
<1>6. PICK w : w = Turned(voice, id)
  OBVIOUS
<1>7. IF narrator = "azure"
      THEN /\ sound' = [Paused(f) EXCEPT !.narrations[id].azure = "fetching"]
           /\ voice' = w
      ELSE SpeakInBrowser(w, f, id)
  BY <1>2, <1>3, <1>4, <1>5, <1>6 DEF Speak, Begun, Turned
<1>8. /\ Fits(w, f) /\ LiveIn(w, f, id) /\ f.narrations[id] = NewNarration
      /\ \A j \in 1..Len(s.narrations) : f.narrations[j] = s.narrations[j]
      /\ Len(f.narrations) = Len(s.narrations) + 1 /\ w.watchdog
  <2>1. PICK v : v = voice
    OBVIOUS
  <2>2. v \in Voices /\ ~v.gone /\ w = Turned(v, id)
    BY <1>1, <1>6, <2>1
  <2>3. Hushed(s)
    BY <1>3
  <2> QED BY <1>4, <1>5, <2>2, <2>3, FreshFits
<1>9. NewNarration.azure = "none" /\ NewNarration.browser = "none" /\ ~NewNarration.cancelled
  BY DEF NewNarration
<1>10. CASE narrator # "azure"
  BY <1>7, <1>8, <1>9, <1>10, SpeakInBrowserKeeps DEF Over
<1>11. CASE narrator = "azure"
  <2>1. PICK p : p = Paused(f)
    OBVIOUS
  <2>2. f \in Sounds /\ f.utterance = Nobody /\ ~f.audible
    BY <1>3, <1>5, <1>8 DEF Fits, Hushed, Sounds, Begun
  <2>3. /\ p \in Sounds /\ p.narrations = f.narrations /\ p.element = Nobody /\ ~p.playing
        /\ p.utterance = Nobody /\ ~p.audible
    BY <2>1, <2>2 DEF Paused, Sounds, Nobody
  <2>4. PICK u : u = [p EXCEPT !.narrations[id].azure = "fetching"]
    OBVIOUS
  <2>5. sound' = u /\ voice' = w
    BY <1>7, <1>11, <2>1, <2>4
  <2>6. id \in 1..Len(p.narrations) /\ id # Nobody
    BY <1>8, <2>3 DEF LiveIn, Nobody
  <2>7. /\ Moved(p, u, id) /\ u.narrations[id].azure = "fetching"
        /\ u.narrations[id].browser = "none" /\ ~u.narrations[id].cancelled
        /\ u.element = Nobody /\ ~u.playing /\ u.utterance = Nobody /\ ~u.audible
    BY <1>8, <1>9, <2>3, <2>4, <2>6, AzureMoves
  <2>8. \A j \in 1..Len(u.narrations) : j # id =>
           LET n == u.narrations[j]
           IN  /\ n.cancelled \/ (n.azure \in Over /\ n.browser \in Over)
               /\ n.browser # "none" => n.azure \in Over
    <3> SUFFICES ASSUME NEW j \in 1..Len(u.narrations), j # id
                 PROVE  LET n == u.narrations[j]
                        IN  /\ n.cancelled \/ (n.azure \in Over /\ n.browser \in Over)
                            /\ n.browser # "none" => n.azure \in Over
      OBVIOUS
    <3>1. Len(s.narrations) \in Nat
      BY <1>3 DEF Hushed, Sounds
    <3>2. j \in 1..Len(s.narrations)
      BY <1>4, <1>8, <2>3, <2>7, <3>1 DEF Moved
    <3>3. u.narrations[j] = s.narrations[j]
      BY <1>8, <2>3, <2>7, <3>2 DEF Moved
    <3> QED BY <1>3, <3>2, <3>3 DEF Hushed
  <2>9. Attentive(w, u) /\ w.session = id /\ ~w.gone
    BY <1>8, <2>3, <2>7 DEF Fits, Attentive, Moved, LiveIn
  <2>10. OneLive(w, u)
    BY <2>7, <2>8, <2>9 DEF OneLive
  <2>11. Held(u)
    BY <2>7, <2>8 DEF Held, Over
  <2>12. Watched(w, u)
    BY <1>8 DEF Watched
  <2> QED BY <2>5, <2>7, <2>9, <2>10, <2>11, <2>12 DEF NarrationIInv, Fits, Moved
<1> QED BY <1>10, <1>11

LEMMA NarrationStep == NarrationIInv /\ [NarrationNext]_narrationVars => NarrationIInv'
<1> SUFFICES ASSUME NarrationIInv, [NarrationNext]_narrationVars
             PROVE  NarrationIInv'
  OBVIOUS
<1>1. CASE UNCHANGED narrationVars
  BY <1>1 DEF narrationVars, NarrationIInv
<1>2. ASSUME Watchdog PROVE ~voice.gone
  BY <1>2 DEF Watchdog, NarrationIInv, Fits, Attentive
<1>3. ASSUME Speak \/ CancelNarration \/ Watchdog \/ LeaveNarration
      PROVE  NarrationIInv'
  BY <1>2, <1>3, SpeakKeeps, CancelKeeps, LeaveKeeps DEF CancelNarration, Watchdog
<1>4. ASSUME NEW id \in DOMAIN sound.narrations,
             \/ Synthesised(id) \/ SynthesisFails(id) \/ PlayStarts(id) \/ PlayBreaksOff(id)
             \/ PlayEnds(id) \/ VoicesLoaded(id) \/ UtteranceStarts(id) \/ UtteranceOver(id)
      PROVE  NarrationIInv'
  BY <1>4, SynthesisedKeeps, SynthesisFailsKeeps, PlayStartsKeeps, PlayBreaksOffKeeps,
     PlayEndsKeeps, VoicesLoadedKeeps, UtteranceStartsKeeps, UtteranceOverKeeps
<1> QED BY <1>1, <1>3, <1>4 DEF NarrationNext

\* NarrationIsTheQuestions, for any number of questions and either provider: whatever
\* callbacks come late, never or twice, one voice is heard, the present question's, and
\* the page does not go on saying that the interviewer speaks (useSpeechOutput).
THEOREM NarrationHolds == NarrationSpec => []NarrationIsTheQuestions
<1>1. NarrationSpec => []NarrationIInv
  BY NarrationInitial, NarrationStep, PTL DEF NarrationSpec
<1> QED BY <1>1, NarrationShown, PTL

-----------------------------------------------------------------------------
(* The credentials.                                                        *)

Kinds == {"voice", "microphone"}
PendingCalls == [at : {"waiting", "inside", "entra"}, kind : Kinds, interview : Interviews]
Tokens == [interview : Interviews, expires : Int]
Issued == [at : {"issued"}, kind : Kinds, interview : Interviews, told : Nat, since : Int,
           token : Tokens]

\* The answer to a call: a token of its interview, told a minute short.
Sound(call) ==
  /\ call.token.interview = call.interview
  /\ call.told > 0
  /\ call.since + call.told + Margin <= call.token.expires

\* It arrives, if it does, within the bound.
OnItsWay(call, t) == t <= call.since + Delay

CallsInv == \A c \in Calls : \/ calls[c] = NoCall
                             \/ calls[c] \in PendingCalls
                             \/ calls[c] \in Issued /\ Sound(calls[c])

DelayInv == \A c \in Calls : calls[c].at = "issued" => OnItsWay(calls[c], clock)

Retires(kept) ==
  /\ kept.until \in Int /\ kept.token \in Tokens
  /\ kept.until < kept.token.expires

Serves(c) == c.interview = c.for /\ c.left > 0

TokenIInv ==
  /\ clock \in Int
  /\ tab \in [interview : Interviews, narration : Calls \cup {Nothing}]
  /\ DOMAIN calls = Calls
  /\ CallsInv
  /\ DelayInv
  /\ cached # Nothing => Retires(cached)
  /\ connection # Nothing => Serves(connection)
  /\ \A i \in completed : Inside(i) = {}

LEMMA TokenShown == TokenIInv => TokensServeTheInterview
BY DEF TokenIInv, TokensServeTheInterview, Retires, Serves

LEMMA TokenInitial == TokenInit => TokenIInv
BY DEF TokenInit, TokenIInv, CallsInv, DelayInv, NoCall, Inside

\* What becomes of one call leaves the others and the completed interviews be.
LEMMA CallGone ==
  ASSUME TokenIInv, NEW c \in Calls, calls' = [calls EXCEPT ![c] = NoCall],
         UNCHANGED <<clock, completed>>
  PROVE  /\ DOMAIN calls' = Calls /\ CallsInv' /\ DelayInv'
         /\ \A i \in completed' : Inside(i)' = {}
<1>1. calls'[c] = NoCall /\ \A d \in Calls \ {c} : calls'[d] = calls[d]
  BY DEF TokenIInv
<1>2. NoCall.at = "idle"
  BY DEF NoCall
<1> QED BY <1>1, <1>2 DEF TokenIInv, CallsInv, DelayInv, OnItsWay, Sound, Inside

\* A call asked for, let in or waiting for a credential.
LEMMA CallPending ==
  ASSUME TokenIInv, NEW c \in Calls, NEW call \in PendingCalls,
         calls' = [calls EXCEPT ![c] = call],
         call.at = "waiting" \/ call.interview \notin completed,
         UNCHANGED <<clock, completed>>
  PROVE  /\ DOMAIN calls' = Calls /\ CallsInv' /\ DelayInv'
         /\ \A i \in completed' : Inside(i)' = {}
<1>1. calls'[c] = call /\ \A d \in Calls \ {c} : calls'[d] = calls[d]
  BY DEF TokenIInv
<1>2. call.at # "issued"
  BY DEF PendingCalls
<1> QED BY <1>1, <1>2 DEF TokenIInv, CallsInv, DelayInv, OnItsWay, Sound, Inside

LEMMA CallIssued ==
  ASSUME TokenIInv, NEW c \in Calls, calls[c] \in PendingCalls,
         NEW told \in Nat, NEW expires \in Int,
         told > 0, clock + told + Margin <= expires,
         Issue(c, expires, told)
  PROVE  TokenIInv'
<1> DEFINE call == [at |-> "issued", kind |-> calls[c].kind,
                    interview |-> calls[c].interview, told |-> told, since |-> clock,
                    token |-> Token(calls[c].interview, expires)]
<1>1. calls' = [calls EXCEPT ![c] = call] /\ UNCHANGED <<clock, mode, completed, tab, cached, connection>>
  BY DEF Issue
<1>2. calls'[c] = call /\ \A d \in Calls \ {c} : calls'[d] = calls[d]
  BY <1>1 DEF TokenIInv
<1>3. call \in Issued /\ Sound(call)
  BY DEF Issued, Sound, Token, Tokens, PendingCalls, TokenIInv
<1>4. OnItsWay(call, clock) /\ call.at = "issued"
  BY TokenAssumption DEF OnItsWay, TokenIInv
<1> HIDE DEF call
<1>5. DOMAIN calls' = Calls /\ CallsInv' /\ DelayInv'
  BY <1>1, <1>2, <1>3, <1>4 DEF TokenIInv, CallsInv, DelayInv, OnItsWay, Sound
<1>6. \A i \in completed' : Inside(i)' = {}
  BY <1>1, <1>2, <1>4 DEF TokenIInv, Inside
<1> QED BY <1>1, <1>5, <1>6 DEF TokenIInv, Retires, Serves

LEMMA FailingKeeps ==
  ASSUME TokenIInv, NEW c \in Calls, Fails(c)
  PROVE  TokenIInv'
<1>1. /\ DOMAIN calls' = Calls /\ CallsInv' /\ DelayInv'
      /\ \A i \in completed' : Inside(i)' = {}
  BY CallGone DEF Fails
<1>2. tab' \in [interview : Interviews, narration : Calls \cup {Nothing}]
  BY DEF Fails, TokenIInv
<1> QED BY <1>1, <1>2 DEF TokenIInv, Fails, Retires, Serves
LEMMA AskKeeps ==
  ASSUME TokenIInv, NEW c \in Calls, NEW kind \in Kinds, Ask(c, kind), UNCHANGED <<clock, completed>>
  PROVE  /\ DOMAIN calls' = Calls /\ CallsInv' /\ DelayInv'
         /\ \A i \in completed' : Inside(i)' = {}
<1> DEFINE call == [at |-> "waiting", kind |-> kind, interview |-> tab.interview]
<1>1. call \in PendingCalls /\ call.at = "waiting"
  BY DEF PendingCalls, TokenIInv
<1>2. calls' = [calls EXCEPT ![c] = call]
  BY DEF Ask
<1> HIDE DEF call
<1> QED BY <1>1, <1>2, CallPending

\* Any connection opened with a token of the interview that has life left serves it.
LEMMA OpenServes ==
  ASSUME NEW token, NEW i, token.interview = i, token.expires \in Int, clock \in Int,
         clock < token.expires, Open(token, i)
  PROVE  Serves(connection')
<1>1. token.expires - clock > 0
  OBVIOUS
<1> QED BY <1>1 DEF Open, Serves

LEMMA NarrateKeeps ==
  ASSUME TokenIInv, NEW c \in Calls, Narrate(c)
  PROVE  TokenIInv'
<1>1. tab' \in [interview : Interviews, narration : Calls \cup {Nothing}] 
  BY DEF Narrate, TokenIInv
<1>0. UNCHANGED <<clock, completed, cached>>
  BY DEF Narrate
<1>2. CASE Reusable
  <2>1. Open(cached.token, tab.interview) /\ UNCHANGED calls
    BY <1>2 DEF Narrate
  <2>2. /\ cached.token.interview = tab.interview /\ cached.token.expires \in Int
        /\ clock \in Int /\ clock < cached.token.expires
    BY <1>2 DEF Reusable, TokenIInv, Retires, Tokens
  <2>3. Serves(connection')
    BY <2>1, <2>2, OpenServes
  <2> QED BY <1>1, <1>0, <2>1, <2>3 DEF TokenIInv, CallsInv, DelayInv, Inside, Retires, Serves
<1>3. CASE ~Reusable
  <2>1. Ask(c, "voice") /\ UNCHANGED connection
    BY <1>3 DEF Narrate
  <2>2. /\ DOMAIN calls' = Calls /\ CallsInv' /\ DelayInv'
        /\ \A i \in completed' : Inside(i)' = {}
    BY <1>0, <2>1, AskKeeps DEF Kinds
  <2> QED BY <1>1, <1>0, <2>1, <2>2 DEF TokenIInv, Retires, Serves
<1> QED BY <1>2, <1>3

LEMMA PressKeeps ==
  ASSUME TokenIInv, NEW c \in Calls, PressMicrophoneFor(c)
  PROVE  TokenIInv'
<1>1. /\ DOMAIN calls' = Calls /\ CallsInv' /\ DelayInv'
      /\ \A i \in completed' : Inside(i)' = {}
  BY AskKeeps DEF PressMicrophoneFor, Kinds
<1> QED BY <1>1 DEF PressMicrophoneFor, TokenIInv, Retires, Serves

\* A reply that arrives in time opens a connection and is kept for less than the
\* life that is left of its token.
LEMMA ArriveKeeps ==
  ASSUME TokenIInv, NEW c \in Calls, Arrive(c)
  PROVE  TokenIInv'
<1> DEFINE token == calls[c].token
<1>1. calls[c] \in Issued /\ Sound(calls[c]) /\ OnItsWay(calls[c], clock)
  BY DEF Arrive, TokenIInv, CallsInv, DelayInv, NoCall, PendingCalls
<1>2. PICK told \in Nat, since \in Int, expires \in Int :
         /\ told = calls[c].told /\ since = calls[c].since /\ expires = token.expires
         /\ token \in Tokens /\ token.interview = calls[c].interview
  BY <1>1 DEF Issued, Tokens, Sound
<1>3. /\ clock \in Int /\ clock <= since + Delay
      /\ told > 0 /\ since + told + Margin <= expires
  BY <1>1, <1>2 DEF Sound, OnItsWay, TokenIInv
<1>4. clock + told <= expires
  BY <1>2, <1>3, TokenAssumption
<1>5. clock < expires
  BY <1>2, <1>3, <1>4
<1>6. Retirement(told) \in Int /\ Retirement(told) < expires
  BY <1>2, <1>3, <1>4, TokenAssumption DEF Retirement
<1>7. connection' # Nothing => Serves(connection')
  <2>1. CASE UNCHANGED connection
    BY <2>1 DEF TokenIInv, Serves
  <2>2. CASE Open(token, calls[c].interview)
    BY <1>2, <1>3, <1>5, <2>2, OpenServes
  <2> QED BY <2>1, <2>2 DEF Arrive
<1>8. cached' # Nothing => Retires(cached')
  <2>1. CASE cached' = cached
    BY <2>1 DEF TokenIInv, Retires
  <2>2. CASE cached' = [token |-> token, until |-> Retirement(told)]
    BY <1>2, <1>6, <2>2 DEF Retires
  <2> QED BY <1>2, <2>1, <2>2 DEF Arrive
<1>9. /\ DOMAIN calls' = Calls /\ CallsInv' /\ DelayInv'
      /\ \A i \in completed' : Inside(i)' = {}
  BY CallGone DEF Arrive
<1>10. tab' \in [interview : Interviews, narration : Calls \cup {Nothing}] /\ UNCHANGED clock
  BY DEF Arrive, TokenIInv
<1> QED BY <1>7, <1>8, <1>9, <1>10 DEF TokenIInv

\* A call goes on from one place to the next.
LEMMA CallGoesOn ==
  ASSUME TokenIInv, NEW c \in Calls, NEW at \in {"inside", "entra"},
         calls[c].at \in {"waiting", "inside"}, calls[c].interview \notin completed,
         calls' = [calls EXCEPT ![c].at = at], UNCHANGED <<clock, completed>>
  PROVE  /\ DOMAIN calls' = Calls /\ CallsInv' /\ DelayInv'
         /\ \A i \in completed' : Inside(i)' = {}
<1>1. calls[c] \in PendingCalls
  BY DEF TokenIInv, CallsInv, NoCall, Issued
<1>2. PICK call : call = [calls[c] EXCEPT !.at = at]
  OBVIOUS
<1>3. call \in PendingCalls /\ call.interview = calls[c].interview
  BY <1>1, <1>2 DEF PendingCalls
<1>4. calls' = [calls EXCEPT ![c] = call]
  BY <1>2
<1> QED BY <1>3, <1>4, CallPending

LEMMA EnterKeeps ==
  ASSUME TokenIInv, NEW c \in Calls, Enter(c)
  PROVE  TokenIInv'
<1>1. CASE calls[c].interview \in completed
  BY <1>1, FailingKeeps DEF Enter
<1>2. CASE calls[c].interview \notin completed
  <2>1. /\ DOMAIN calls' = Calls /\ CallsInv' /\ DelayInv'
        /\ \A i \in completed' : Inside(i)' = {}
    BY <1>2, CallGoesOn DEF Enter
  <2> QED BY <1>2, <2>1 DEF Enter, TokenIInv, Retires, Serves
<1> QED BY <1>1, <1>2

\* A call inside is of an interview that goes on.
LEMMA InsideGoesOn ==
  ASSUME TokenIInv, NEW c \in Calls, calls[c].at \in {"inside", "entra"}
  PROVE  calls[c].interview \notin completed /\ calls[c] \in PendingCalls
BY DEF TokenIInv, Inside, CallsInv, NoCall, Issued

LEMMA AcquireKeeps ==
  ASSUME TokenIInv, NEW c \in Calls, AcquireEntra(c)
  PROVE  TokenIInv'
<1>1. /\ DOMAIN calls' = Calls /\ CallsInv' /\ DelayInv'
      /\ \A i \in completed' : Inside(i)' = {}
  BY InsideGoesOn, CallGoesOn DEF AcquireEntra
<1> QED BY <1>1 DEF AcquireEntra, TokenIInv, Retires, Serves

LEMMA ExchangeKeeps ==
  ASSUME TokenIInv, NEW c \in Calls, ExchangeKey(c)
  PROVE  TokenIInv'
<1>1. calls[c] \in PendingCalls
  BY InsideGoesOn DEF ExchangeKey
<1>2. clock + KeyLife \in Int /\ TokenLifetime \in Nat /\ TokenLifetime > 0
  BY TokenAssumption DEF TokenIInv
<1>3. clock + TokenLifetime + Margin <= clock + KeyLife
  BY TokenAssumption DEF TokenIInv
<1> QED BY <1>1, <1>2, <1>3, CallIssued DEF ExchangeKey

LEMMA GetTokenKeeps ==
  ASSUME TokenIInv, NEW c \in Calls, GetToken(c)
  PROVE  TokenIInv'
<1>1. calls[c] \in PendingCalls
  BY InsideGoesOn DEF GetToken
<1>2. PICK left \in 0..MaxLife :
         IF left <= Margin THEN Fails(c) ELSE Issue(c, clock + left, left - Margin)
  BY DEF GetToken
<1>3. CASE left <= Margin
  BY <1>2, <1>3, FailingKeeps
<1>4. CASE ~(left <= Margin)
  <2>1. /\ left - Margin \in Nat /\ left - Margin > 0 /\ clock + left \in Int
        /\ clock + (left - Margin) + Margin <= clock + left
    BY <1>4, TokenAssumption DEF TokenIInv
  <2>2. Issue(c, clock + left, left - Margin)
    BY <1>2, <1>4
  <2> QED BY <1>1, <2>1, <2>2, CallIssued
<1> QED BY <1>3, <1>4

LEMMA TokenStep == TokenIInv /\ [TokenNext]_tokenVars => TokenIInv'
<1> SUFFICES ASSUME TokenIInv, [TokenNext]_tokenVars
             PROVE  TokenIInv'
  OBVIOUS
<1>1. ASSUME NEW c \in Calls,
             \/ Narrate(c) \/ PressMicrophoneFor(c) \/ Arrive(c) \/ Enter(c) \/ ExchangeKey(c)
             \/ AcquireEntra(c) \/ GetToken(c) \/ FailsAnywhere(c)
      PROVE  TokenIInv'
  BY <1>1, NarrateKeeps, PressKeeps, ArriveKeeps, EnterKeeps, ExchangeKeeps, AcquireKeeps,
     GetTokenKeeps, FailingKeeps DEF FailsAnywhere
<1>2. ASSUME \/ AbortNarration
             \/ \E i \in Interviews : ShowInterview(i)
      PROVE  TokenIInv'
  <2>1. tab' \in [interview : Interviews, narration : Calls \cup {Nothing}]
    BY <1>2 DEF AbortNarration, ShowInterview, TokenIInv
  <2>2. UNCHANGED <<clock, completed, calls, cached, connection>>
    BY <1>2 DEF AbortNarration, ShowInterview
  <2> QED BY <2>1, <2>2 DEF TokenIInv, CallsInv, DelayInv, Inside, Retires, Serves
<1>3. ASSUME \/ SynthesisRejected
             \/ CloseCredential
             \/ \E c \in Calls : BuildCredential(c)
             \/ UNCHANGED tokenVars
      PROVE  TokenIInv'
  <2>1. UNCHANGED <<clock, completed, calls, tab, connection>> /\ cached' \in {cached, Nothing}
    BY <1>3 DEF SynthesisRejected, CloseCredential, BuildCredential, tokenVars
  <2> QED BY <2>1 DEF TokenIInv, CallsInv, DelayInv, Inside, Retires, Serves
<1>4. ASSUME NEW i \in Interviews, Complete(i)
      PROVE  TokenIInv'
  BY <1>4 DEF Complete, TokenIInv, CallsInv, DelayInv, Inside, Retires, Serves
<1>5. ASSUME Tick
      PROVE  TokenIInv'
  <2>1. clock' \in Int /\ UNCHANGED <<completed, calls, tab, cached, connection>>
    BY <1>5 DEF Tick, TokenIInv
  <2>2. DelayInv'
    <3> SUFFICES ASSUME NEW c \in Calls, calls[c].at = "issued"
                 PROVE  OnItsWay(calls[c], clock + 1)
      BY <1>5 DEF DelayInv, Tick
    <3>1. calls[c].since \in Int
      BY DEF TokenIInv, CallsInv, NoCall, PendingCalls, Issued
    <3>2. clock < calls[c].since + Delay
      BY <1>5 DEF Tick
    <3> QED BY <3>1, <3>2, TokenAssumption DEF OnItsWay, TokenIInv
  <2> QED BY <2>1, <2>2 DEF TokenIInv, CallsInv, Inside, Retires, Serves
<1> QED BY <1>1, <1>2, <1>3, <1>4, <1>5 DEF TokenNext

\* TokensServeTheInterview, for any interviews, calls and lifetimes: nothing is opened
\* with another interview's token or an expired one, whatever the page kept of narrations
\* it gave up (credentialsFor, and the issue of a token under the interview's lock).
THEOREM TokensServe == TokenSpec => []TokensServeTheInterview
<1>1. TokenSpec => []TokenIInv
  BY TokenInitial, TokenStep, PTL DEF TokenSpec
<1> QED BY <1>1, TokenShown, PTL

=============================================================================
