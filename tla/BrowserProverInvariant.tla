----------------------- MODULE BrowserProverInvariant -----------------------
(***************************************************************************)
(* The inductive invariant behind the safety properties of BrowserProver:  *)
(* the shared core module, the life of a request, and what a call carries  *)
(* from its arguments to its bundle.                                       *)
(***************************************************************************)
EXTENDS BrowserProver

\* Variables that hold one thing for each call or request.
Shapes ==
    /\ DOMAIN input = Calls /\ DOMAIN built = Calls /\ DOMAIN artifact = Calls
    /\ DOMAIN bundle = Calls /\ DOMAIN message = Requests
    /\ got \in [Calls -> [nonce : {None, 0, 1}, block : {None} \cup 0..MaxHead]]

\* The module is loaded once, by whoever comes first.
CoreInv == loads = IF core = "none" THEN 0 ELSE 1

\* A worker lives exactly while its timer runs.  Its promise is pending all
\* that time, unless it was rejected at once because nothing was posted, and
\* is settled by what that worker posted or by that timer.
RequestInv(r) ==
    /\ alive[r] = TRUE <=> timer[r] = "armed"
    /\ promise[r] = "pending" => alive[r] = TRUE
    /\ alive[r] = TRUE => promise[r] = "pending" \/ (promise[r] = "failed" /\ posted[r] = FALSE)
    /\ promise[r] \in {"pending", "ok"} => posted[r] = TRUE
    /\ promise[r] = "none" => /\ fate[r] = "none" /\ events[r] = {}
                              /\ message[r] = None /\ posted[r] = FALSE
    /\ "ok" \in events[r] => fate[r] \in {"ok", "threw"}
    /\ "failed" \in events[r] => fate[r] \in {"failed", "threw"}
    /\ "error" \in events[r] => fate[r] = "threw"
    /\ promise[r] = "ok" => timer[r] = "cleared" /\ fate[r] \in {"ok", "threw"}
    /\ promise[r] = "failed" =>
           timer[r] = "fired" \/ fate[r] \in {"failed", "threw"} \/ posted[r] = FALSE

\* A call makes its requests one after the other, and has settled only when
\* both have.
TwoRequests(c) ==
    LET g == promise[<<c, "generate">>]
        p == promise[<<c, "prove">>]
    IN  /\ pc[c] \notin {"executing", "proving"} \cup Settled => g = "none" /\ p = "none"
        /\ pc[c] = "executing" => g # "none" /\ p = "none"
        /\ pc[c] = "proving" => g = "ok" /\ p # "none"
        /\ pc[c] \in Settled => g # "pending" /\ p # "pending"

\* Only calls that build wait for the core; what they build is made from
\* their arguments and their nonce.
BuildInv(c) ==
    /\ pc[c] \in {"wallet", "init", "fetch"} =>
           input[c].fn # "proveSnip36InBrowser" /\ built[c] = None
    /\ pc[c] = "idle" => built[c] = None
    /\ pc[c] = "fetch" => core = "ok"
    /\ built[c] # None => /\ core = "ok" /\ built[c] = BuiltFor(c)
                          /\ input[c].fn # "proveSnip36InBrowser"

\* An artifact for the transaction of c, on a block c asked for or left open.
OfCall(c, a) ==
    /\ a = [block_number |-> a.block_number, transaction |-> a.transaction,
            chain_id |-> a.chain_id, execution_payload |-> a.execution_payload,
            proof_facts_preimage |-> a.proof_facts_preimage]
    /\ a.transaction = TransactionOf(c)
    /\ a.block_number \in {None} \cup 0..MaxHead
    /\ input[c].block_number \in {None, a.block_number}

\* The block is settled once, and the execution is of that block and of the
\* artifact's transaction.
ProveInv(c) ==
    LET a == artifact[c]
    IN  /\ pc[c] \in {"resolve", "generate", "executing", "proving"} => OfCall(c, a)
        /\ pc[c] \in {"generate", "executing", "proving"} =>
               got[c].block \in 0..MaxHead /\ a.block_number \in {None, got[c].block}
        /\ pc[c] = "executing" /\ posted[<<c, "generate">>] =>
               message[<<c, "generate">>] =
                   [block_number |-> got[c].block, transaction |-> a.transaction]
        /\ pc[c] = "proving" =>
               /\ posted[<<c, "prove">>] => message[<<c, "prove">>] = a
               /\ a.block_number = got[c].block
               /\ a.execution_payload = [block |-> got[c].block, tx |-> a.transaction]

\* What BundleIsOfItsBlock says of one call.
BundleInv(c) ==
    /\ pc[c] # "done" => bundle[c] = None
    /\ bundle[c] # None =>
           LET a == bundle[c].artifact
           IN  /\ bundle[c].proof.of = [block |-> a.block_number, tx |-> a.transaction]
               /\ input[c].block_number \in {None, a.block_number}
               /\ a.transaction = TransactionOf(c)

\* The parts are inductive together with TypeOK.
PageInv ==
    /\ Shapes /\ CoreInv
    /\ \A r \in Requests : RequestInv(r)
    /\ \A c \in Calls : TwoRequests(c) /\ BuildInv(c) /\ ProveInv(c) /\ BundleInv(c)
=============================================================================
