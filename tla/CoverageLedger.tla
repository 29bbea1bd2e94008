---------------------------- MODULE CoverageLedger ----------------------------
(***************************************************************************)
(* What the adaptive interview promises about its coverage targets, with   *)
(* no policy in it: one target is asked about at a time, an assessed       *)
(* target is never asked about or assessed again, evidence arrives only    *)
(* while some target is being asked about, and the interview never         *)
(* finishes in the middle of an exchange.                                  *)
(***************************************************************************)
CONSTANT Targets

VARIABLES phase,     \* what has become of each target
          finished

ledger == <<phase, finished>>

LedgerTypeOK ==
    /\ phase \in [Targets -> {"open", "asking", "assessed"}]
    /\ finished \in BOOLEAN

LedgerInit ==
    /\ phase = [t \in Targets |-> "open"]
    /\ finished = FALSE

Idle == \A t \in Targets : phase[t] # "asking"

Ask(t) ==
    /\ ~finished
    /\ Idle
    /\ phase[t] = "open"
    /\ phase' = [phase EXCEPT ![t] = "asking"]
    /\ UNCHANGED finished

(***************************************************************************)
(* An answer to the question being asked settles a set of targets: the one *)
(* being asked about, open ones it gave evidence for, or both.             *)
(***************************************************************************)
Settle(S) ==
    /\ ~Idle
    /\ \A t \in S : phase[t] # "assessed"
    /\ phase' = [t \in Targets |-> IF t \in S THEN "assessed" ELSE phase[t]]
    /\ UNCHANGED finished

Finish ==
    /\ Idle
    /\ finished' = TRUE
    /\ UNCHANGED phase

LedgerNext ==
    \/ \E t \in Targets : Ask(t)
    \/ \E S \in SUBSET Targets : Settle(S)
    \/ Finish

LedgerSpec == LedgerInit /\ [][LedgerNext]_ledger
=============================================================================
