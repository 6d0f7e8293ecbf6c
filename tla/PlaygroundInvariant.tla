------------------------ MODULE PlaygroundInvariant ------------------------
(***************************************************************************)
(* The inductive invariants behind the properties of Playground: IInv for  *)
(* ReferenceAdvances and CyclesUseDistinctReferences, RealBlocks for       *)
(* InvokeBlockIsReal, and what holds of a client that sends one request    *)
(* after the other.                                                        *)
(***************************************************************************)
EXTENDS Playground

\* What a request must have looked up before it reaches a step.
WellFormed ==
    /\ \A p \in Proves :
         /\ pc[p] \notin {"idle", "refused"} => clone[p].last_invoke_tx # None
         /\ pc[p] \in {"located", "running", "proofWritten", "factsWritten"} =>
                blk[p] # None
    /\ \A c \in Cycles :
         /\ pc[c] \notin {"idle", "refused"} => blk[c] # None
         /\ pc[c] = "built" => files.tx # None
         /\ pc[c] \in {"running", "proofWritten"} => work[c] # None
         /\ pc[c] \in {"idle", "started", "built", "running", "proofWritten",
                       "proved", "proofRead", "submitting", "sleeping"} =>
                attempt[c] < MaxAttempts

\* The master nonce grows along the chain and is constant beyond its head.
NoncesGrow ==
    /\ \A a, b \in Blocks : a <= b => nonceAt[a] <= nonceAt[b]
    /\ \A b \in Blocks : b >= head => nonceAt[b] = nonceAt[head]

\* Steps a request can be at once its transaction has left the server.
MaybeSent == {"sent", "verifying", "done", "failed", "warned"}

\* A transaction is mined once, alone in its block, after it was sent.
Receipts ==
    /\ \A r \in Requests :
         /\ receipt[r] # None => receipt[r].block \in 1..head /\ r \notin pool
         /\ pc[r] \notin MaybeSent => receipt[r] = None /\ r \notin pool
    /\ \A r, q \in Requests :
         r # q /\ receipt[r] # None /\ receipt[q] # None =>
             receipt[r].block # receipt[q].block

\* The session has a reference block exactly when it has a counter.
References ==
    /\ session.contract_address = None <=> session.last_reference_block = None
    /\ session.contract_address = None => session.deploy_block = None
    /\ session.contract_address # None =>
         /\ pc[session.contract_address] = "done"
         /\ session.last_reference_block <= head

\* A cycle signs with the nonce of the block it proves against, takes that
\* nonce when it is mined, and finds the reference block still behind its
\* own block when it sees its receipt.
CycleNonces ==
    \A c \in Cycles :
        /\ pc[c] \notin {"idle", "refused"} =>
               /\ session.last_reference_block # None
               /\ blk[c] <= session.last_reference_block
        /\ pc[c] \notin {"idle", "refused", "started", "failed"} =>
               nonce[c] = nonceAt[blk[c]]
        /\ receipt[c] # None =>
               /\ nonceAt[receipt[c].block - 1] = nonce[c]
               /\ nonceAt[receipt[c].block] = nonce[c] + 1
        /\ pc[c] = "done" => receipt[c] # None
        /\ pc[c] = "verifying" /\ receipt[c] # None =>
               session.last_reference_block < receipt[c].block

\* The inductive invariant: together the parts say why cycles that start
\* from one reference block exclude each other.
IInv == WellFormed /\ NoncesGrow /\ Receipts /\ References /\ CycleNonces

-----------------------------------------------------------------------------
(* Blocks that come from receipts *)

\* Block b holds an invoke that succeeded.
Landed(b) == \E i \in Invokes : receipt[i] # None /\ receipt[i].ok /\ b = receipt[i].block

\* Every block the session or a prove task has taken from a receipt.
RealBlocks ==
    /\ session.invoke_block # None => Landed(session.invoke_block)
    /\ session.prove_block # None => Landed(session.prove_block + 1)
    /\ \A p \in Proves : pc[p] = "located" => Landed(blk[p])

-----------------------------------------------------------------------------
(* A client that sends one request after the other *)

Active(r) == pc[r] \notin Ended \cup {"idle"}

OneAtATime == \A q, r \in Requests : Active(q) /\ Active(r) => q = r

\* From the transaction file to the submission, a cycle finds its own work.
OwnWork(c) ==
    LET own == [of |-> c, block |-> blk[c]]
        submitted == {"submitting", "sleeping", "verifying", "done"}
    IN  /\ pc[c] = "built" => files.tx = c
        /\ pc[c] \in {"running", "proofWritten"} => work[c] = c
        /\ pc[c] \in {"proofWritten", "proved"} => files.proof = own
        /\ pc[c] \in {"proved", "proofRead"} => files.facts = own
        /\ pc[c] \in {"proofRead"} \cup submitted => read[c].proof = own
        /\ pc[c] \in submitted => read[c].facts = own

\* A cycle under way will land after the counter it started with.
Covers ==
    /\ session.contract_address = None <=> session.deploy_block = None
    /\ session.contract_address = None <=> session.last_reference_block = None
    /\ session.contract_address # None =>
         /\ session.deploy_block <= session.last_reference_block
         /\ session.deploy_block <= head
    /\ \A c \in Cycles : Active(c) =>
         /\ session.contract_address # None
         /\ receipt[c] # None => session.deploy_block < receipt[c].block

SequentialInv == OneAtATime /\ (\A c \in Cycles : OwnWork(c)) /\ Covers
=============================================================================
