---------------------------- MODULE CommitReveal ----------------------------
(***************************************************************************)
(* What the coin-flip API promises about a bet, without saying how: a bet  *)
(* is pledged once, revealed at most once, and if it is settled on chain,  *)
(* what is settled is the pledge.  CoinFlip.tla implements this            *)
(* specification with commitments, files, a prover and a gateway.          *)
(***************************************************************************)
CONSTANTS
    Sids,       \* identifiers handed out by commit
    Pledges,    \* what can be pledged
    NoPledge    \* "nothing", not a pledge

VARIABLES
    pledge,     \* pledge[s]: what was committed under s
    phase,      \* phase[s]: where the bet of s stands
    settled     \* settled[s]: what the chain recorded for s

vars == <<pledge, phase, settled>>

Phases == {"none", "open", "revealed", "settled", "void"}

TypeOK ==
    /\ pledge \in [Sids -> Pledges \cup {NoPledge}]
    /\ phase \in [Sids -> Phases]
    /\ settled \in [Sids -> Pledges \cup {NoPledge}]

Init ==
    /\ pledge = [s \in Sids |-> NoPledge]
    /\ phase = [s \in Sids |-> "none"]
    /\ settled = [s \in Sids |-> NoPledge]

Commit(s, x) ==
    /\ phase[s] = "none"
    /\ phase' = [phase EXCEPT ![s] = "open"]
    /\ pledge' = [pledge EXCEPT ![s] = x]
    /\ UNCHANGED settled

Reveal(s) ==
    /\ phase[s] = "open"
    /\ phase' = [phase EXCEPT ![s] = "revealed"]
    /\ UNCHANGED <<pledge, settled>>

\* A bad reveal spends the commitment, a failed game ends it.
Void(s) ==
    /\ phase[s] \in {"open", "revealed"}
    /\ phase' = [phase EXCEPT ![s] = "void"]
    /\ UNCHANGED <<pledge, settled>>

Settle(s) ==
    /\ phase[s] = "revealed"
    /\ phase' = [phase EXCEPT ![s] = "settled"]
    /\ settled' = [settled EXCEPT ![s] = pledge[s]]
    /\ UNCHANGED pledge

Next ==
    \E s \in Sids :
        \/ \E x \in Pledges : Commit(s, x)
        \/ Reveal(s)
        \/ Void(s)
        \/ Settle(s)

Spec == Init /\ [][Next]_vars
=============================================================================
