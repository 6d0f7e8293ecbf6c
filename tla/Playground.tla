----------------------------- MODULE Playground -----------------------------
(***************************************************************************)
(* One session of the playground server (crates/snip36-server): its        *)
(* requests fund, deploy, invoke, prove, prove-block and submit-proof run  *)
(* concurrently over the session map, over the files output/playground/    *)
(* {session_id}* and over the chain.  A step is what a handler or the task *)
(* it spawns does between two awaits.  Chain, node and prover processes    *)
(* are external and behave as the server can observe them.                 *)
(***************************************************************************)
EXTENDS Naturals

CONSTANTS
    Funds,           \* POST /fund requests
    AccountDeploys,  \* POST /deploy-account requests; also their accounts
    CounterDeploys,  \* POST /deploy-counter requests; also their contracts
    Invokes,         \* POST /invoke requests; also their transactions
    Proves,          \* GET /prove requests
    Cycles,          \* GET /prove-block requests; also their transactions
    Submits,         \* POST /submit-proof requests
    Sequential,      \* the client starts a request after the last one ended
    MaxBlock,        \* bound on the height of the chain
    MaxAttempts,     \* max_attempts of the submission loop (20 in the code)
    MaxOther,        \* bound on master transactions of other sessions
    None             \* Option::None

Deploys == Funds \cup AccountDeploys \cup CounterDeploys
Requests == Deploys \cup Invokes \cup Proves \cup Cycles \cup Submits
Blocks == 0..MaxBlock

ASSUME ConstAssumption ==
    /\ MaxBlock \in Nat /\ MaxOther \in Nat /\ MaxAttempts \in Nat \ {0}
    /\ Sequential \in BOOLEAN
    /\ None \notin Requests \cup Nat

\* A request is of one kind.
ASSUME KindsAssumption ==
    /\ Deploys \cap (Invokes \cup Proves \cup Cycles \cup Submits) = {}
    /\ Funds \cap (AccountDeploys \cup CounterDeploys) = {}
    /\ AccountDeploys \cap CounterDeploys = {}
    /\ Invokes \cap (Proves \cup Cycles \cup Submits) = {}
    /\ Proves \cap (Cycles \cup Submits) = {}
    /\ Cycles \cap Submits = {}

VARIABLES
    head,      \* height of the chain
    nonceAt,   \* nonceAt[b]: the master account's nonce after block b
    others,    \* master transactions of other sessions so far
    pool,      \* requests whose transaction the node accepted, not yet mined
    receipt,   \* receipt[r]: block and fate of the transaction of r
    session,   \* the entry of this session in AppState.sessions
    clone,     \* clone[r]: what get_session returned to r
    pc,        \* pc[r]: where request r stands
    blk,       \* blk[r]: the block r proves against
    nonce,     \* nonce[r]: the master nonce r signs with
    work,      \* work[r]: the transaction r's prover process was given
    read,      \* read[r]: the proof and the facts r read back
    attempt,   \* attempt[r]: submissions r has made
    files      \* the session's files under output/playground

chainVars == <<head, nonceAt, others, pool, receipt>>
proofVars == <<blk, nonce, work, read, attempt, files>>
vars == <<chainVars, session, clone, pc, proofVars>>

-----------------------------------------------------------------------------
(* Data *)

Opt(S) == S \cup {None}

Session ==
    [account_address : Opt(AccountDeploys), contract_address : Opt(CounterDeploys),
     last_invoke_tx : Opt(Invokes), invoke_block : Opt(Blocks),
     prove_block : Opt(Blocks), proof_file : BOOLEAN,
     deploy_block : Opt(Blocks), last_reference_block : Opt(Blocks)]

NewSession ==
    [account_address |-> None, contract_address |-> None,
     last_invoke_tx |-> None, invoke_block |-> None,
     prove_block |-> None, proof_file |-> FALSE,
     deploy_block |-> None, last_reference_block |-> None]

\* A proof or its facts: of which transaction, against which block.
Proof == [of : Invokes \cup Cycles, block : Blocks]

Files == [tx : Opt(Cycles), proof : Opt(Proof), facts : Opt(Proof)]

Ended == {"done", "refused", "failed", "warned"}

Pcs == Ended \cup
    {"idle", "sent", "started", "waiting", "located", "running", "proofWritten",
     "factsWritten", "built", "proved", "proofRead", "submitting", "sleeping",
     "verifying"}

TypeOK ==
    /\ head \in Blocks
    /\ nonceAt \in [Blocks -> Nat]
    /\ others \in 0..MaxOther
    /\ pool \subseteq Requests
    /\ receipt \in [Requests -> Opt([block : Blocks, ok : BOOLEAN])]
    /\ session \in Session
    /\ clone \in [Requests -> Session]
    /\ pc \in [Requests -> Pcs]
    /\ blk \in [Requests -> Opt(Blocks)]
    /\ nonce \in [Requests -> Nat]
    /\ work \in [Requests -> Opt(Cycles)]
    /\ read \in [Requests -> [proof : Opt(Proof), facts : Opt(Proof)]]
    /\ attempt \in [Requests -> 0..MaxAttempts]
    /\ files \in Files

Init ==
    /\ head = 0
    /\ nonceAt = [b \in Blocks |-> 0]
    /\ others = 0
    /\ pool = {}
    /\ receipt = [r \in Requests |-> None]
    /\ session = NewSession
    /\ clone = [r \in Requests |-> NewSession]
    /\ pc = [r \in Requests |-> "idle"]
    /\ blk = [r \in Requests |-> None]
    /\ nonce = [r \in Requests |-> 0]
    /\ work = [r \in Requests |-> None]
    /\ read = [r \in Requests |-> [proof |-> None, facts |-> None]]
    /\ attempt = [r \in Requests |-> 0]
    /\ files = [tx |-> None, proof |-> None, facts |-> None]

-----------------------------------------------------------------------------
(* The server's access to its state *)

Goto(r, from, to) == pc[r] = from /\ pc' = [pc EXCEPT ![r] = to]

Arrive(r, to) ==
    /\ Goto(r, "idle", to)
    /\ Sequential => \A q \in Requests : pc[q] \in Ended \cup {"idle"}

\* get_session returns a clone.
GetSession(r) == clone' = [clone EXCEPT ![r] = session]

\* Mutant of Entry: clone and write back.
EntryClone(r) == clone[r]

\* What update_session_with hands to its closure: the live entry.
Entry(r) == session

\* Mutant of Confirmed: any receipt confirms.
ConfirmedAnyFate(r) == receipt[r] # None

\* wait_for_tx returns the receipt of a transaction that succeeded; it
\* fails on a reverted one and, at any time, on its deadline.
Confirmed(r) == receipt[r] # None /\ receipt[r].ok

-----------------------------------------------------------------------------
(* fund_account, deploy_account, deploy_counter *)

DeployArrives(r) ==
    /\ Arrive(r, "started")
    /\ UNCHANGED <<chainVars, session, clone, proofVars>>

\* sncast exits with success and prints the transaction.
DeploySent(r) ==
    /\ Goto(r, "started", "sent")
    /\ pool' = pool \cup {r}
    /\ UNCHANGED <<head, nonceAt, others, receipt, session, clone, proofVars>>

\* Mutant of DeployedSession: the reference block of the old counter stays.
DeployedSessionKeepsReference(r) ==
    IF r \in AccountDeploys
    THEN [Entry(r) EXCEPT !.account_address = r]
    ELSE [Entry(r) EXCEPT !.contract_address = r,
                          !.deploy_block = receipt[r].block,
                          !.last_reference_block =
                              IF @ = None THEN receipt[r].block ELSE @]

\* What the handler stores once the receipt is in (and, deadline or not,
\* wait_for_block_after has returned).
DeployedSession(r) ==
    IF r \in AccountDeploys
    THEN [Entry(r) EXCEPT !.account_address = r]
    ELSE [Entry(r) EXCEPT !.contract_address = r,
                          !.deploy_block = receipt[r].block,
                          !.last_reference_block = receipt[r].block]

DeployConfirmed(r) ==
    /\ Goto(r, "sent", "done")
    /\ Confirmed(r)
    /\ session' = IF r \in Funds THEN session ELSE DeployedSession(r)
    /\ UNCHANGED <<chainVars, clone, proofVars>>

DeployFails(r) ==
    /\ \E from \in {"started", "sent"} : Goto(r, from, "failed")
    /\ UNCHANGED <<chainVars, session, clone, proofVars>>

-----------------------------------------------------------------------------
(* invoke_increment *)

InvokeArrives(i) ==
    /\ LET ready == session.contract_address # None /\ session.account_address # None
       IN  Arrive(i, IF ready THEN "started" ELSE "refused")
    /\ GetSession(i)
    /\ UNCHANGED <<chainVars, session, proofVars>>

\* The node takes the client-signed transaction; the session names it.
InvokeSent(i) ==
    /\ Goto(i, "started", "sent")
    /\ pool' = pool \cup {i}
    /\ session' = [Entry(i) EXCEPT !.last_invoke_tx = i]
    /\ UNCHANGED <<head, nonceAt, others, receipt, clone, proofVars>>

InvokeRejected(i) ==
    /\ Goto(i, "started", "failed")
    /\ UNCHANGED <<chainVars, session, clone, proofVars>>

\* The block is stored whatever last_invoke_tx is by now.
InvokeConfirmed(i) ==
    /\ Goto(i, "sent", "done")
    /\ Confirmed(i)
    /\ session' = [Entry(i) EXCEPT !.invoke_block = receipt[i].block]
    /\ UNCHANGED <<chainVars, clone, proofVars>>

\* "Tx submitted but not yet confirmed"; invoke_block keeps its old value.
InvokeTimesOut(i) ==
    /\ Goto(i, "sent", "warned")
    /\ UNCHANGED <<chainVars, session, clone, proofVars>>

-----------------------------------------------------------------------------
(* prove_transaction and scripts/run-virtual-os.sh *)

ProveArrives(p) ==
    /\ Arrive(p, IF session.last_invoke_tx = None THEN "refused" ELSE "started")
    /\ GetSession(p)
    /\ UNCHANGED <<chainVars, session, proofVars>>

\* The task looks at the session again, after the handler returned.
ProveReadsBlock(p) ==
    /\ Goto(p, "started", IF session.invoke_block = None THEN "waiting" ELSE "located")
    /\ blk' = [blk EXCEPT ![p] = session.invoke_block]
    /\ UNCHANGED <<chainVars, session, clone, nonce, work, read, attempt, files>>

ProveAwaitsTx(p) ==
    LET i == clone[p].last_invoke_tx
    IN  /\ Goto(p, "waiting", "located")
        /\ Confirmed(i)
        /\ blk' = [blk EXCEPT ![p] = receipt[i].block]
        /\ UNCHANGED <<chainVars, session, clone, nonce, work, read, attempt, files>>

\* checked_sub(1), session.prove_block, spawn of the script; the output
\* directory or the script may turn out to be missing only then.
ProveLaunches(p) ==
    /\ \E to \in {"running", "failed"} : Goto(p, "located", to)
    /\ blk[p] # 0
    /\ blk' = [blk EXCEPT ![p] = blk[p] - 1]
    /\ session' = [Entry(p) EXCEPT !.prove_block = blk[p] - 1]
    /\ UNCHANGED <<chainVars, clone, nonce, work, read, attempt, files>>

\* No receipt in time; an invoke in block 0.
ProveFails(p) ==
    /\ \E from \in {"waiting", "located"} : Goto(p, from, "failed")
    /\ pc[p] = "located" => blk[p] = 0
    /\ UNCHANGED <<chainVars, session, clone, proofVars>>

\* The script saves the proof, then its facts; it may stop anywhere.
ScriptSavesProof(p) ==
    /\ Goto(p, "running", "proofWritten")
    /\ files' = [files EXCEPT !.proof =
                    [of |-> clone[p].last_invoke_tx, block |-> blk[p]]]
    /\ UNCHANGED <<chainVars, session, clone, blk, nonce, work, read, attempt>>

ScriptSavesFacts(p) ==
    /\ Goto(p, "proofWritten", "factsWritten")
    /\ files' = [files EXCEPT !.facts =
                    [of |-> clone[p].last_invoke_tx, block |-> blk[p]]]
    /\ UNCHANGED <<chainVars, session, clone, blk, nonce, work, read, attempt>>

ProofExists == files.proof # None

\* The exit status is dropped; the file decides.
ProveEnds(p) ==
    /\ \E from \in {"running", "proofWritten", "factsWritten"} :
         Goto(p, from, IF ProofExists THEN "done" ELSE "failed")
    /\ session' = IF ProofExists THEN [Entry(p) EXCEPT !.proof_file = TRUE]
                                 ELSE session
    /\ UNCHANGED <<chainVars, clone, proofVars>>

-----------------------------------------------------------------------------
(* prove_block *)

\* last_reference_block.or(deploy_block)
ReferenceBlock(s) ==
    IF s.last_reference_block # None THEN s.last_reference_block ELSE s.deploy_block

CycleArrives(c) ==
    /\ LET ready == session.contract_address # None /\ ReferenceBlock(session) # None
       IN  Arrive(c, IF ready THEN "started" ELSE "refused")
    /\ GetSession(c)
    /\ blk' = [blk EXCEPT ![c] = ReferenceBlock(session)]
    /\ UNCHANGED <<chainVars, session, nonce, work, read, attempt, files>>

\* Mutant of CycleNonce: the nonce is read at `latest`.
CycleNonceLatest(c) == nonceAt[head]

\* get_nonce_at_block(master, reference_block)
CycleNonce(c) == nonceAt[blk[c]]

\* Nonce, signature, {session_id}_tx.json
CycleConstructs(c) ==
    /\ Goto(c, "started", "built")
    /\ nonce' = [nonce EXCEPT ![c] = CycleNonce(c)]
    /\ files' = [files EXCEPT !.tx = c]
    /\ UNCHANGED <<chainVars, session, clone, blk, work, read, attempt>>

\* The prover process reads the transaction file it is pointed at.
CycleStartsProver(c) ==
    /\ Goto(c, "built", "running")
    /\ work' = [work EXCEPT ![c] = files.tx]
    /\ UNCHANGED <<chainVars, session, clone, blk, nonce, read, attempt, files>>

\* Mutant of CycleProverSavesProof: a proof left by an earlier cycle is kept.
CycleProverLeavesStaleProof(c) ==
    /\ Goto(c, "running", "proofWritten")
    /\ files' = IF files.proof # None THEN files
                ELSE [files EXCEPT !.proof = [of |-> work[c], block |-> blk[c]]]
    /\ UNCHANGED <<chainVars, session, clone, blk, nonce, work, read, attempt>>

CycleProverSavesProof(c) ==
    /\ Goto(c, "running", "proofWritten")
    /\ files' = [files EXCEPT !.proof = [of |-> work[c], block |-> blk[c]]]
    /\ UNCHANGED <<chainVars, session, clone, blk, nonce, work, read, attempt>>

\* Facts saved, exit status 0, proof file present.
CycleProverSucceeds(c) ==
    /\ Goto(c, "proofWritten", "proved")
    /\ files' = [files EXCEPT !.facts = [of |-> work[c], block |-> blk[c]]]
    /\ UNCHANGED <<chainVars, session, clone, blk, nonce, work, read, attempt>>

CycleReadsProof(c) ==
    /\ Goto(c, "proved", "proofRead")
    /\ read' = [read EXCEPT ![c].proof = files.proof]
    /\ UNCHANGED <<chainVars, session, clone, blk, nonce, work, attempt, files>>

CycleReadsFacts(c) ==
    /\ Goto(c, "proofRead", "submitting")
    /\ read' = [read EXCEPT ![c].facts = files.facts]
    /\ UNCHANGED <<chainVars, session, clone, blk, nonce, work, attempt, files>>

\* The node accepts a master transaction whose nonce is free.
Receives(r) ==
    /\ nonce[r] >= nonceAt[head]
    /\ \A q \in pool \cap (Cycles \cup Submits) : nonce[q] # nonce[r]

CycleAccepted(c) ==
    /\ Goto(c, "submitting", "verifying")
    /\ Receives(c)
    /\ pool' = pool \cup {c}
    /\ attempt' = [attempt EXCEPT ![c] = attempt[c] + 1]
    /\ UNCHANGED <<head, nonceAt, others, receipt, session, clone, blk, nonce,
                   work, read, files>>

\* Mutant of MayRetry: one attempt too many.
MayRetryOnceMore(c) == attempt[c] + 1 <= MaxAttempts

MayRetry(c) == attempt[c] + 1 < MaxAttempts

\* Any JSON-RPC error but the last is retried after a sleep of 10 s.
CycleRetries(c) ==
    /\ Goto(c, "submitting", "sleeping")
    /\ MayRetry(c)
    /\ attempt' = [attempt EXCEPT ![c] = attempt[c] + 1]
    /\ UNCHANGED <<chainVars, session, clone, blk, nonce, work, read, files>>

CycleWakes(c) ==
    /\ Goto(c, "sleeping", "submitting")
    /\ UNCHANGED <<chainVars, session, clone, proofVars>>

\* The receipt moves the reference block; the counter is read, "complete".
CycleLands(c) ==
    /\ Goto(c, "verifying", "done")
    /\ Confirmed(c)
    /\ session' = [Entry(c) EXCEPT !.last_reference_block = receipt[c].block]
    /\ UNCHANGED <<chainVars, clone, proofVars>>

\* Any error event.
CycleFails(c) ==
    /\ \E from \in {"started", "built", "running", "proofWritten", "proved",
                     "proofRead", "submitting", "verifying"} :
         Goto(c, from, "failed")
    /\ UNCHANGED <<chainVars, session, clone, proofVars>>

-----------------------------------------------------------------------------
(* submit_proof *)

SubmitArrives(u) ==
    /\ LET ready == /\ session.proof_file /\ ProofExists
                    /\ session.contract_address # None
       IN  Arrive(u, IF ready THEN "started" ELSE "refused")
    /\ GetSession(u)
    /\ UNCHANGED <<chainVars, session, proofVars>>

SubmitReadsProof(u) ==
    /\ Goto(u, "started", "proofRead")
    /\ read' = [read EXCEPT ![u].proof = files.proof]
    /\ UNCHANGED <<chainVars, session, clone, blk, nonce, work, attempt, files>>

\* Facts, then the master nonce: pre_confirmed, or latest if that fails.
SubmitSigns(u) ==
    /\ Goto(u, "proofRead", "submitting")
    /\ files.facts # None
    /\ read' = [read EXCEPT ![u].facts = files.facts]
    /\ \E n \in {nonceAt[head], nonceAt[head] + 1} : nonce' = [nonce EXCEPT ![u] = n]
    /\ UNCHANGED <<chainVars, session, clone, blk, work, attempt, files>>

SubmitAccepted(u) ==
    /\ Goto(u, "submitting", "done")
    /\ Receives(u)
    /\ pool' = pool \cup {u}
    /\ UNCHANGED <<head, nonceAt, others, receipt, session, clone, proofVars>>

SubmitFails(u) ==
    /\ \E from \in {"started", "proofRead", "submitting"} : Goto(u, from, "failed")
    /\ UNCHANGED <<chainVars, session, clone, proofVars>>

\* The node takes a transaction but the sender sees an error: sncast exits
\* with failure, the HTTP call breaks.  No handler tries again.
ReplyLost(r) ==
    /\ \/ r \in Deploys \cup Invokes /\ Goto(r, "started", "failed")
       \/ r \in Cycles \cup Submits /\ Goto(r, "submitting", "failed") /\ Receives(r)
    /\ pool' = pool \cup {r}
    /\ UNCHANGED <<head, nonceAt, others, receipt, session, clone, proofVars>>

-----------------------------------------------------------------------------
(* The chain: a block carries at most one transaction of interest *)

\* The master account signs for sncast, cycles and submits; the invoke is
\* signed by the session's own account.
Mine(r, ok) ==
    /\ head < MaxBlock
    /\ r \in pool
    /\ r \in Cycles \cup Submits => nonce[r] = nonceAt[head]
    /\ head' = head + 1
    /\ pool' = pool \ {r}
    /\ receipt' = [receipt EXCEPT ![r] = [block |-> head + 1, ok |-> ok]]
    /\ nonceAt' = [b \in Blocks |->
                     IF b > head THEN nonceAt[head] + (IF r \in Invokes THEN 0 ELSE 1)
                                 ELSE nonceAt[b]]
    /\ UNCHANGED <<others, session, clone, pc, proofVars>>

\* An empty block, or one with a master transaction of another session.
MineOther(bump) ==
    /\ head < MaxBlock
    /\ others + bump <= MaxOther
    /\ head' = head + 1
    /\ others' = others + bump
    /\ nonceAt' = [b \in Blocks |-> IF b > head THEN nonceAt[head] + bump
                                                ELSE nonceAt[b]]
    /\ UNCHANGED <<pool, receipt, session, clone, pc, proofVars>>

-----------------------------------------------------------------------------
(* The specification *)

Arrivals ==
    \/ \E r \in Deploys : DeployArrives(r)
    \/ \E i \in Invokes : InvokeArrives(i)
    \/ \E p \in Proves : ProveArrives(p)
    \/ \E c \in Cycles : CycleArrives(c)
    \/ \E u \in Submits : SubmitArrives(u)

Deploy(r) == DeploySent(r) \/ DeployConfirmed(r) \/ DeployFails(r)

Invoke(i) ==
    InvokeSent(i) \/ InvokeRejected(i) \/ InvokeConfirmed(i) \/ InvokeTimesOut(i)

Prove(p) ==
    \/ ProveReadsBlock(p) \/ ProveAwaitsTx(p) \/ ProveLaunches(p) \/ ProveFails(p)
    \/ ScriptSavesProof(p) \/ ScriptSavesFacts(p) \/ ProveEnds(p)

Cycle(c) ==
    \/ CycleConstructs(c) \/ CycleStartsProver(c)
    \/ CycleProverSavesProof(c) \/ CycleProverSucceeds(c)
    \/ CycleReadsProof(c) \/ CycleReadsFacts(c)
    \/ CycleAccepted(c) \/ CycleRetries(c) \/ CycleWakes(c)
    \/ CycleLands(c) \/ CycleFails(c)

Submit(u) ==
    SubmitReadsProof(u) \/ SubmitSigns(u) \/ SubmitAccepted(u) \/ SubmitFails(u)

Handler ==
    \/ \E r \in Deploys : Deploy(r)
    \/ \E i \in Invokes : Invoke(i)
    \/ \E p \in Proves : Prove(p)
    \/ \E c \in Cycles : Cycle(c)
    \/ \E u \in Submits : Submit(u)
    \/ \E r \in Requests : ReplyLost(r)

Chain ==
    \/ \E r \in pool, ok \in BOOLEAN : Mine(r, ok)
    \/ \E bump \in {0, 1} : MineOther(bump)

Next == Arrivals \/ Handler \/ Chain

Spec == Init /\ [][Next]_vars

-----------------------------------------------------------------------------
(* Properties *)

\* Which requests own a field of the session.
Writers(f) ==
    CASE f = "account_address" -> AccountDeploys
      [] f \in {"contract_address", "deploy_block"} -> CounterDeploys
      [] f \in {"last_invoke_tx", "invoke_block"} -> Invokes
      [] f \in {"prove_block", "proof_file"} -> Proves
      [] f = "last_reference_block" -> CounterDeploys \cup Cycles

\* A step that changes a field only if an owner of the field takes it.
OwnerStep ==
    \A f \in DOMAIN session : session'[f] # session[f] =>
        \E r \in Writers(f) : pc'[r] # pc[r]

\* update_session_with loses no update: a field changes only in a step of a
\* handler that owns it, however many handlers hold older clones.
NoLostUpdate == [][OwnerStep]_vars

\* invoke_block is the block of an invoke that succeeded, and prove_block
\* the one before such a block, whatever timed out or reverted meanwhile.
InvokeBlockIsReal ==
    LET ok == {i \in Invokes : receipt[i] # None /\ receipt[i].ok}
        landed == {receipt[i].block : i \in ok}
    IN  /\ session.invoke_block # None => session.invoke_block \in landed
        /\ session.prove_block # None => session.prove_block + 1 \in landed

\* A step that does not move the reference block back.
ReferenceStep ==
    session.last_reference_block # None =>
        /\ session'.last_reference_block # None
        /\ session'.last_reference_block >= session.last_reference_block

\* With one counter in the session, the reference block never moves back,
\* however many prove-block cycles run at once and in whatever order their
\* receipts are seen: cycles that sign with the nonce of the same reference
\* block exclude each other.
ReferenceAdvances == [][ReferenceStep]_vars

\* Two cycles that completed were proved against different reference blocks.
CyclesUseDistinctReferences ==
    \A c, d \in Cycles :
        c # d /\ pc[c] = "done" /\ pc[d] = "done" => blk[c] # blk[d]

\* prove_block.rs: "construct tx off-chain -> prove in virtual OS -> submit":
\* the proof and facts a cycle submits are those of its own transaction.
SubmitsWhatItProved ==
    \A c \in Cycles : pc[c] \in {"submitting", "sleeping", "verifying", "done"} =>
        LET own == [of |-> c, block |-> blk[c]]
        IN  read[c].proof = own /\ read[c].facts = own

\* types.rs: last_reference_block is the "reference block for the next
\* prove": the session's contract exists there.
ReferenceCoversContract ==
    session.contract_address # None =>
        session.last_reference_block >= session.deploy_block

\* invoke.rs: "so the prover can reference the correct block": the script is
\* started against the block before the one its transaction is in.
ProvesAgainstTheCorrectBlock ==
    \A p \in Proves : pc[p] \in {"running", "proofWritten", "factsWritten", "done"} =>
        LET i == clone[p].last_invoke_tx
        IN  receipt[i] # None /\ blk[p] = receipt[i].block - 1
=============================================================================
