------------------------- MODULE CoinFlipInvariant -------------------------
(***************************************************************************)
(* The inductive invariant behind the safety properties of CoinFlip.  Its  *)
(* parts follow one commitment from the map to the task that plays it, and *)
(* one task from its transaction to the result it reports.                 *)
(***************************************************************************)
EXTENDS CoinFlip

\* What is still in the map is what commit put there.
OpenAsIssued ==
    \A s \in Sids : commitments[s] # None => commitments[s] = issued[s]

\* A task has a session id whose commitment was issued and is spent; a
\* request without a task has touched nothing.
TasksHoldSpent ==
    \A p \in Plays :
        /\ Spawned(p) => /\ sid[p] \in Sids /\ tx[p] \in Tx
                         /\ issued[sid[p]] # None /\ commitments[sid[p]] = None
        /\ ~Spawned(p) => sid[p] = None /\ tx[p] = None

\* Until its prover is done a task has read nothing, and it has an attempt
\* left until it has submitted.
InOrder(p) ==
    /\ pc[p] \in {"idle", "refused", "spawned", "constructed", "proving", "proved"} =>
           got[p] = NothingRead
    /\ pc[p] \notin {"verifying"} \cup TaskEnded => attempt[p] < MaxAttempts

\* The files of a session id are those of the one task that has it, as far
\* as its prover has come.
FilesAreOwn(p) ==
    Spawned(p) =>
        LET f == files[sid[p]]
        IN  /\ pc[p] = "constructed" => f.txJson = tx[p]
            /\ pc[p] = "proving" => f.work = tx[p]
            /\ pc[p] \in {"proved", "parsed", "read"} =>
                   f.messages = tx[p] /\ f.proof = tx[p] /\ f.facts = tx[p]

\* What a task has read is its own, and is all there when it submits.
ReadsAreOwn(p) ==
    /\ got[p].messages \in {None, tx[p]}
    /\ got[p].proof \in {None, tx[p]}
    /\ got[p].facts \in {None, tx[p]}
    /\ pc[p] \in {"read", "submitting", "sleeping", "verifying", "result"} =>
           got[p].proof = tx[p]
    /\ pc[p] \in {"submitting", "sleeping", "verifying", "result"} =>
           got[p].facts = tx[p]

\* A result was confirmed.
ResultIsMined(p) == pc[p] = "result" => [tx |-> tx[p], ok |-> TRUE] \in mined

TaskInv(p) == InOrder(p) /\ FilesAreOwn(p) /\ ReadsAreOwn(p) /\ ResultIsMined(p)

\* The parts are inductive together with TypeOK.
GameInv ==
    /\ OpenAsIssued /\ TasksHoldSpent /\ OneTaskPerCommitment /\ TaskPlaysThePledge
    /\ \A p \in Plays : TaskInv(p)
=============================================================================
