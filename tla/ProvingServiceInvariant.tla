---------------------- MODULE ProvingServiceInvariant ----------------------
(***************************************************************************)
(* The inductive invariant behind ProofIsOfItsBlock.                       *)
(* ProvingServiceProofs.tla proves it inductive.                           *)
(***************************************************************************)
EXTENDS ProvingService

\* Where the job can be, given where its request is.
JobsFollowRequests ==
    \A r \in Requests :
        /\ pc[r] = "idle" => job[r] = "none"
        /\ pc[r] = "answered" => job[r] \notin JobRuns
        /\ pc[r] = "executing" =>
               job[r] \in {"header", "state", "execute", "executed"} \cup JobFailed
        /\ pc[r] \in {"fetching", "running"} => job[r] = "executed"
        /\ pc[r] = "proving" => job[r] \in {"prove", "proved"} \cup JobFailed

\* A job works on a block id and a transaction that passed the checks.
JobsHaveInputs ==
    \A r \in Requests : job[r] # "none" =>
        at[r] \in Blocks \cup {Latest} /\ tx[r] \in Txs

\* The header, once fetched, is of a block on the chain and of the block
\* asked for; no request passes its execution without it.
HeadersAreReal ==
    \A r \in Requests :
        /\ header[r] # None =>
               header[r] <= head /\ (at[r] # Latest => header[r] = at[r])
        /\ job[r] \in {"state", "execute", "executed", "prove", "proved"} =>
               header[r] # None
        /\ job[r] = "none" => header[r] = None

\* The tries are those of the header's block, and what the virtual OS let
\* through was read from it.
ReadsAreOfHeader ==
    \A r \in Requests :
        /\ pc[r] = "running" => proofs[r] = header[r]
        /\ pc[r] = "proving" \/ answer[r] = Ok =>
               header[r] # None /\ reads[r] \subseteq {world[header[r]]}
        /\ answer[r] # None => pc[r] = "answered"

\* The parts are inductive together: each request carries one block from its
\* header to its proof, whatever "latest" becomes.
PipelineInv == JobsFollowRequests /\ JobsHaveInputs /\ HeadersAreReal /\ ReadsAreOfHeader
=============================================================================
