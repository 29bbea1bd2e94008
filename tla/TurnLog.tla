------------------------------- MODULE TurnLog -------------------------------
(***************************************************************************)
(* What accepting answers promises, whatever processes, locks and failures *)
(* there are: each published interview has at most one open turn, an       *)
(* accepted answer consumes exactly that turn, is put on record for good   *)
(* and opens a turn nobody has seen before, or none, which ends it.        *)
(***************************************************************************)
EXTENDS Naturals, Sequences

CONSTANTS Interviews, Requests

VARIABLES published,   \* the interviews that exist
          log,         \* the accepted answers of each, oldest first
          open         \* the turn each may answer next, 0 for none

turnLog == <<published, log, open>>

Turns(i) == {log[i][k].turn : k \in DOMAIN log[i]}
Used == UNION {Turns(i) \cup {open[i]} : i \in Interviews}
Recorded == UNION {{log[i][k].request : k \in DOMAIN log[i]} : i \in Interviews}

LogInit ==
    /\ published = {}
    /\ log = [i \in Interviews |-> <<>>]
    /\ open = [i \in Interviews |-> 0]

OpensFresh(i) ==
    /\ open'[i] = 0 \/ open'[i] \notin Used
    /\ open' = [open EXCEPT ![i] = open'[i]]

Publish(i) ==
    /\ i \notin published
    /\ published' = published \cup {i}
    /\ OpensFresh(i)
    /\ UNCHANGED log

Accept(i, r) ==
    /\ i \in published
    /\ open[i] # 0
    /\ r \notin Recorded
    /\ log' = [log EXCEPT ![i] = Append(@, [request |-> r, turn |-> open[i]])]
    /\ OpensFresh(i)
    /\ UNCHANGED published

LogNext == \E i \in Interviews : Publish(i) \/ \E r \in Requests : Accept(i, r)

LogSpec == LogInit /\ [][LogNext]_turnLog
=============================================================================
