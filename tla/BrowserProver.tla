--------------------------- MODULE BrowserProver ---------------------------
(***************************************************************************)
(* The npm package in one page (npm/src/index.ts, worker.ts,               *)
(* wasm-loader.ts): concurrent calls that share the page's wasm module,    *)
(* ask a node about a chain that grows, and hand the heavy work to one     *)
(* worker per request, against a timer.                                    *)
(***************************************************************************)
EXTENDS Transactions, FiniteSets

CONSTANTS
    Calls,       \* calls the page makes
    Inputs,      \* Inputs[c]: the functions and arguments c may be made with
    MaxHead      \* bound on the growth of the chain

ASSUME PageAssumption ==
    /\ IsFiniteSet(Calls) /\ None \notin Calls
    /\ MaxHead \in Nat /\ None \notin 0..MaxHead

\* get_snip36_proof builds a transaction and goes on as proveSnip36InBrowser;
\* the other exported functions only build.
Proving == {"get_snip36_proof", "proveSnip36InBrowser"}
Exported == Proving \cup {"buildTransactionForProving", "buildPayload", "buildUnsignedPayload"}

\* The arguments of a call, with the function they are for.  What a type
\* does not have, or a caller leaves out, is None.  A call's own calldata is
\* in.call; no declared type but tx_json's has any other, though a caller in
\* JavaScript may add a top-level calldata.
IsInput(in) ==
    /\ in = [fn |-> in.fn, sender |-> in.sender, private_key |-> in.private_key,
             call |-> in.call, calldata |-> in.calldata, tx_json |-> in.tx_json,
             nonce |-> in.nonce, chain_id |-> in.chain_id,
             resource_bounds |-> in.resource_bounds, block_number |-> in.block_number,
             proof |-> in.proof, proof_facts |-> in.proof_facts]
    /\ in.fn \in Exported
    /\ in.fn = "buildUnsignedPayload" => in.nonce # None
    /\ in.nonce \in {None, 0, 1} /\ in.block_number \in {None} \cup 0..MaxHead
    /\ in.resource_bounds = None \/ in.resource_bounds \in ResourceBounds
    /\ in.chain_id = [form |-> in.chain_id.form, of |-> in.chain_id.of]

ASSUME InputsAssumption == \A c \in Calls : \A in \in Inputs[c] : IsInput(in)

\* A proving call makes two requests, each with a worker of its own.
Requests == Calls \X {"generate", "prove"}

VARIABLES
    core,      \* initPromise: none, pending, ok or failed
    loads,     \* how often the core module has been loaded
    head,      \* the latest block of the chain
    pc,        \* pc[c]: where a call stands
    input,     \* input[c]: its arguments
    got,       \* got[c]: nonce and block as fetched so far
    built,     \* built[c]: what the builders returned
    artifact,  \* artifact[c]: the artifact as it is filled in
    bundle,    \* bundle[c]: what a proving call returned
    message,   \* message[r]: what was posted to the worker
    posted,    \* posted[r]: postMessage has not thrown
    alive,     \* alive[r]: the worker has not been terminated
    fate,      \* fate[r]: what the worker did
    events,    \* events[r]: what the page has not handled yet
    timer,     \* timer[r]: the 90 seconds
    promise    \* promise[r]: what the call awaits

pageVars == <<core, loads, head>>
callVars == <<pc, input, got, built, artifact, bundle>>
workerVars == <<message, posted, alive, fate, events, timer, promise>>
vars == <<pageVars, callVars, workerVars>>

Settled == {"done", "failed"}
Places == {"idle", "wallet", "init", "fetch", "resolve", "generate", "executing", "proving"}
            \cup Settled

CallTypes ==
    /\ pc \in [Calls -> Places]
    /\ \A c \in Calls : pc[c] # "idle" => input[c] \in Inputs[c]
    /\ \A c \in Calls : got[c].nonce \in {None, 0, 1} /\ got[c].block \in {None} \cup 0..MaxHead

WorkerTypes ==
    /\ posted \in [Requests -> BOOLEAN] /\ alive \in [Requests -> BOOLEAN]
    /\ fate \in [Requests -> {"none", "running", "ok", "failed", "threw"}]
    /\ events \in [Requests -> SUBSET {"ok", "failed", "error"}]
    /\ timer \in [Requests -> {"off", "armed", "cleared", "fired"}]
    /\ promise \in [Requests -> {"none", "pending", "ok", "failed"}]
    /\ \A r \in Requests : message[r] # None => message[r].block_number \in 0..MaxHead

TypeOK ==
    /\ core \in {"none", "pending", "ok", "failed"}
    /\ loads \in 0..Cardinality(Calls) /\ head \in 0..MaxHead
    /\ CallTypes /\ WorkerTypes

Init ==
    /\ core = "none" /\ loads = 0 /\ head = 0
    /\ pc = [c \in Calls |-> "idle"]
    /\ input = [c \in Calls |-> None]
    /\ got = [c \in Calls |-> [nonce |-> None, block |-> None]]
    /\ built = [c \in Calls |-> None]
    /\ artifact = [c \in Calls |-> None]
    /\ bundle = [c \in Calls |-> None]
    /\ message = [r \in Requests |-> None]
    /\ posted = [r \in Requests |-> FALSE]
    /\ alive = [r \in Requests |-> FALSE]
    /\ fate = [r \in Requests |-> "none"]
    /\ events = [r \in Requests |-> {}]
    /\ timer = [r \in Requests |-> "off"]
    /\ promise = [r \in Requests |-> "none"]

Goto(c, to) == pc' = [pc EXCEPT ![c] = to]

ChainGrows ==
    /\ head < MaxHead
    /\ head' = head + 1
    /\ UNCHANGED <<core, loads, callVars, workerVars>>

-----------------------------------------------------------------------------
(* initSnip36Wasm *)

\* Mutant of MustLoad: the promise is kept once it is fulfilled.
MustLoadLate == core # "ok"

\* if (!initPromise): the promise is kept while it is pending, and also
\* when it has failed.
MustLoad == core = "none"

\* The part of a call before its first await.
Awaiting(c) ==
    /\ Goto(c, "init")
    /\ core' = IF MustLoad THEN "pending" ELSE core
    /\ loads' = IF MustLoad THEN loads + 1 ELSE loads

\* loadBrotliWasm: a fetch, decompressed unless it is wasm already.
LoadEnds ==
    /\ core = "pending"
    /\ \E outcome \in {"ok", "failed"} : core' = outcome
    /\ UNCHANGED <<loads, head, callVars, workerVars>>

-----------------------------------------------------------------------------
(* Calls *)

createProofArtifact(in, transaction, block) ==
    [block_number |-> block, transaction |-> transaction, chain_id |-> in.chain_id,
     execution_payload |-> None, proof_facts_preimage |-> None]

\* The first part of a call.  get_snip36_proof asks its wallet; it may have
\* been given none.  A call that builds nothing starts from the caller's
\* transaction and fails without one.
CallStarts(c) ==
    /\ pc[c] = "idle"
    /\ \E in \in Inputs[c] :
         /\ input' = [input EXCEPT ![c] = in]
         /\ \/ in.fn \notin Proving /\ Awaiting(c) /\ UNCHANGED artifact
            \/ /\ in.fn = "get_snip36_proof"
               /\ Goto(c, "wallet") \/ Goto(c, "failed")
               /\ UNCHANGED <<core, loads, artifact>>
            \/ /\ in.fn = "proveSnip36InBrowser" /\ in.tx_json # None
               /\ Goto(c, "resolve")
               /\ artifact' = [artifact EXCEPT
                    ![c] = createProofArtifact(in, in.tx_json, in.block_number)]
               /\ UNCHANGED <<core, loads>>
            \/ /\ in.fn = "proveSnip36InBrowser" /\ in.tx_json = None
               /\ Goto(c, "failed")
               /\ UNCHANGED <<core, loads, artifact>>
    /\ UNCHANGED <<head, got, built, bundle, workerVars>>

\* getCairoVersion: with it the calldata is encoded, unless either fails.
WalletAnswers(c) ==
    /\ pc[c] = "wallet"
    /\ \/ Awaiting(c)
       \/ Goto(c, "failed") /\ UNCHANGED <<core, loads>>
    /\ UNCHANGED <<head, input, got, built, artifact, bundle, workerVars>>

CoreReady(c) ==
    /\ pc[c] = "init" /\ core \in {"ok", "failed"}
    /\ Goto(c, IF core = "ok" THEN "fetch" ELSE "failed")
    /\ UNCHANGED <<pageVars, input, got, built, artifact, bundle, workerVars>>

\* fetchNonce, where no nonce is given: an error counts as nonce 0.  The
\* account's nonce is abstracted to 1.
NonceArrives(c) ==
    /\ pc[c] = "fetch" /\ got[c].nonce = None
    /\ \E n \in IF input[c].nonce = None THEN {0, 1} ELSE {input[c].nonce} :
         got' = [got EXCEPT ![c].nonce = n]
    /\ UNCHANGED <<pageVars, pc, input, built, artifact, bundle, workerVars>>

NeedsBlock(c) == input[c].fn \in {"get_snip36_proof", "buildTransactionForProving"}

\* fetchLatestBlockNumber: it arrives, or the call fails at once, whether
\* its nonce has arrived or not.
BlockArrives(c) ==
    /\ pc[c] = "fetch" /\ NeedsBlock(c) /\ got[c].block = None
    /\ \/ got' = [got EXCEPT ![c].block = head] /\ UNCHANGED pc
       \/ Goto(c, "failed") /\ UNCHANGED got
    /\ UNCHANGED <<pageVars, input, built, artifact, bundle, workerVars>>

toChainIdFelt(text) == [text EXCEPT !.form = "hex"]

\* starknet.js: a list of one call, with its lengths and its selector.
getExecuteCalldata(call) == <<1, "selector", Len(call)>> \o call

\* What each function hands to its builder.  buildPayload and
\* buildUnsignedPayload pass their input on as it is.
Passed(c) ==
    LET in == [input[c] EXCEPT !.nonce = got[c].nonce]
    IN  CASE in.fn = "get_snip36_proof" ->
               [in EXCEPT !.private_key = None, !.calldata = getExecuteCalldata(in.call),
                          !.chain_id = toChainIdFelt(@)]
          [] in.fn = "buildTransactionForProving" -> [in EXCEPT !.calldata = in.call]
          [] in.fn = "buildPayload" -> in
          [] in.fn = "buildUnsignedPayload" -> [in EXCEPT !.private_key = None]

BuiltFor(c) ==
    IF NeedsBlock(c) THEN build_transaction_from_json(Passed(c))
    ELSE build_payload_from_json(Passed(c))

\* A malformed felt makes the builder throw, and so does missing calldata.
Build(c) ==
    /\ pc[c] = "fetch" /\ got[c].nonce # None /\ (NeedsBlock(c) => got[c].block # None)
    /\ \/ Goto(c, "failed") /\ UNCHANGED <<built, artifact>>
       \/ /\ Passed(c).calldata # None
          /\ built' = [built EXCEPT ![c] = BuiltFor(c)]
          /\ IF input[c].fn = "get_snip36_proof"
             THEN /\ Goto(c, "resolve")
                  /\ artifact' = [artifact EXCEPT ![c] =
                       createProofArtifact(input[c], BuiltFor(c).transaction,
                                           OrElse(input[c].block_number, got[c].block))]
             ELSE Goto(c, "done") /\ UNCHANGED artifact
    /\ UNCHANGED <<pageVars, input, got, bundle, workerVars>>

-----------------------------------------------------------------------------
(* proveSnip36InBrowser: two requests *)

\* Mutant of Latest: a missing block stays missing.
LatestMissing(block) == block

\* fetchLatestBlockNumber, where a block is missing.
Latest(block) == OrElse(block, head)

\* executeVirtualBlockInBrowser: the block number is settled here.
Resolve(c) ==
    /\ pc[c] = "resolve"
    /\ \/ /\ got' = [got EXCEPT ![c].block = Latest(artifact[c].block_number)]
          /\ Goto(c, "generate")
       \/ /\ artifact[c].block_number = None
          /\ Goto(c, "failed") /\ UNCHANGED got
    /\ UNCHANGED <<pageVars, input, built, artifact, bundle, workerVars>>

\* Mutant of PassedOn: the artifact goes on as it came.
PassedOnUnresolved(c) == artifact[c]

\* { ...artifact, block_number: blockNumber }
PassedOn(c) == [artifact[c] EXCEPT !.block_number = got[c].block]

\* Mutant of Post: the timer is set when the message has gone.
PostThenArm(r, msg) ==
    /\ alive' = [alive EXCEPT ![r] = TRUE]
    /\ fate' = [fate EXCEPT ![r] = "running"]
    /\ \/ /\ message' = [message EXCEPT ![r] = msg]
          /\ posted' = [posted EXCEPT ![r] = TRUE]
          /\ timer' = [timer EXCEPT ![r] = "armed"]
          /\ promise' = [promise EXCEPT ![r] = "pending"]
       \/ /\ promise' = [promise EXCEPT ![r] = "failed"]
          /\ UNCHANGED <<message, posted, timer>>
    /\ UNCHANGED events

\* runWorkerRequest: a new worker, its timer and its message.  postMessage
\* throws when the message cannot be cloned: that rejects the promise and
\* leaves the worker to its timer.
Post(r, msg) ==
    /\ alive' = [alive EXCEPT ![r] = TRUE]
    /\ fate' = [fate EXCEPT ![r] = "running"]
    /\ timer' = [timer EXCEPT ![r] = "armed"]
    /\ \/ /\ message' = [message EXCEPT ![r] = msg]
          /\ posted' = [posted EXCEPT ![r] = TRUE]
          /\ promise' = [promise EXCEPT ![r] = "pending"]
       \/ /\ promise' = [promise EXCEPT ![r] = "failed"]
          /\ UNCHANGED <<message, posted>>
    /\ UNCHANGED events

\* generateExecutionPayloadInBrowser
Generate(c) ==
    /\ pc[c] = "generate"
    /\ Goto(c, "executing")
    /\ Post(<<c, "generate">>, [block_number |-> Latest(PassedOn(c).block_number),
                                transaction |-> artifact[c].transaction])
    /\ UNCHANGED <<pageVars, input, got, built, artifact, bundle>>

\* What a worker makes of its message: an execution of this transaction on
\* this block, and a proof and facts of that execution.
Execution(msg) == [block |-> msg.block_number, tx |-> msg.transaction]
prove_cairo_pie(payload) == [proof |-> [of |-> payload], proof_facts |-> <<"snos", payload>>]

\* The payload is there: it is put into the artifact, and proved.
Executed(c) ==
    /\ pc[c] = "executing" /\ promise[<<c, "generate">>] = "ok"
    /\ LET filled == [artifact[c] EXCEPT
                        !.block_number = got[c].block,
                        !.execution_payload = Execution(message[<<c, "generate">>])]
       IN  /\ artifact' = [artifact EXCEPT ![c] = filled]
           /\ Post(<<c, "prove">>, filled)
    /\ Goto(c, "proving")
    /\ UNCHANGED <<pageVars, input, got, built, bundle>>

Proved(c) ==
    /\ pc[c] = "proving" /\ promise[<<c, "prove">>] = "ok"
    /\ LET a == message[<<c, "prove">>]
           proved == prove_cairo_pie(a.execution_payload)
       IN  bundle' = [bundle EXCEPT ![c] =
               [artifact |-> [a EXCEPT !.proof_facts_preimage = proved.proof_facts],
                proof |-> proved.proof, proof_facts |-> proved.proof_facts]]
    /\ Goto(c, "done")
    /\ UNCHANGED <<pageVars, input, got, built, artifact, workerVars>>

RequestRejected(c) ==
    /\ \/ pc[c] = "executing" /\ promise[<<c, "generate">>] = "failed"
       \/ pc[c] = "proving" /\ promise[<<c, "prove">>] = "failed"
    /\ Goto(c, "failed")
    /\ UNCHANGED <<pageVars, input, got, built, artifact, bundle, workerVars>>

-----------------------------------------------------------------------------
(* Workers and the page's handlers *)

\* The worker posts its answer, or what its try block caught.
WorkerReplies(r) ==
    /\ alive[r] /\ posted[r] /\ fate[r] = "running"
    /\ \E answer \in {"ok", "failed"} :
         /\ fate' = [fate EXCEPT ![r] = answer]
         /\ events' = [events EXCEPT ![r] = @ \cup {answer}]
    /\ UNCHANGED <<pageVars, callVars, message, posted, alive, timer, promise>>

\* An error nobody caught, before or after the answer: the worker's own
\* listener posts it, and the page gets an error event too.  A script that
\* does not load has no listener.
WorkerThrows(r) ==
    /\ alive[r] /\ fate[r] # "threw"
    /\ fate' = [fate EXCEPT ![r] = "threw"]
    /\ \E sent \in {{"error", "failed"}} \cup IF fate[r] = "running" THEN {{"error"}} ELSE {} :
         events' = [events EXCEPT ![r] = @ \cup sent]
    /\ UNCHANGED <<pageVars, callVars, message, posted, alive, timer, promise>>

\* terminate: what the worker has posted and the page has not handled is
\* gone; an error event may still come.
Terminate(r) ==
    /\ alive' = [alive EXCEPT ![r] = FALSE]
    /\ events' = [events EXCEPT ![r] = @ \cap {"error"}]

\* A promise settles once.
Settle(r, outcome) ==
    promise' = [promise EXCEPT ![r] = IF @ = "pending" THEN outcome ELSE @]

\* Mutant of HandlerOf: the handlers go to the worker the call has now.
HandlerOfCall(r) ==
    IF promise[<<r[1], "prove">>] = "none" THEN r ELSE <<r[1], "prove">>

\* The handlers close over their own worker, timer and promise.
HandlerOf(r) == r

\* onmessage and onerror
EventArrives(r) ==
    \E e \in events[r] : LET h == HandlerOf(r) IN
        /\ timer' = [timer EXCEPT ![h] = IF @ = "armed" THEN "cleared" ELSE @]
        /\ alive' = [alive EXCEPT ![h] = FALSE]
        /\ events' = [events EXCEPT ![h] = @ \cap {"error"}, ![r] = (@ \cap {"error"}) \ {e}]
        /\ Settle(h, IF e = "ok" THEN "ok" ELSE "failed")
        /\ UNCHANGED <<pageVars, callVars, message, posted, fate>>

\* Mutant of TimerFires: the worker is terminated, the promise left.
TimerFiresSilently(r) ==
    /\ timer[r] = "armed"
    /\ timer' = [timer EXCEPT ![r] = "fired"]
    /\ Terminate(r)
    /\ UNCHANGED <<pageVars, callVars, message, posted, fate, promise>>

\* Mutant of TimerFires: the promise is rejected and the worker forgotten.
TimerFiresOnly(r) ==
    /\ timer[r] = "armed"
    /\ timer' = [timer EXCEPT ![r] = "fired"]
    /\ Settle(r, "failed")
    /\ UNCHANGED <<pageVars, callVars, message, posted, alive, fate, events>>

TimerFires(r) ==
    /\ timer[r] = "armed"
    /\ timer' = [timer EXCEPT ![r] = "fired"]
    /\ Terminate(r)
    /\ Settle(r, "failed")
    /\ UNCHANGED <<pageVars, callVars, message, posted, fate>>

-----------------------------------------------------------------------------
(* The specification *)

Step(c) ==
    \/ WalletAnswers(c) \/ CoreReady(c) \/ NonceArrives(c) \/ BlockArrives(c)
    \/ Build(c) \/ Resolve(c) \/ Generate(c) \/ Executed(c) \/ Proved(c) \/ RequestRejected(c)

Next ==
    \/ ChainGrows \/ LoadEnds
    \/ \E c \in Calls : CallStarts(c) \/ Step(c)
    \/ \E r \in Requests :
         WorkerReplies(r) \/ WorkerThrows(r) \/ EventArrives(r) \/ TimerFires(r)

Spec == Init /\ [][Next]_vars

\* The browser settles every fetch (the wallet's is one), runs what is ready
\* and fires timers; a worker need not do anything.
Fairness ==
    /\ WF_vars(LoadEnds)
    /\ \A c \in Calls : WF_vars(Step(c))
    /\ \A r \in Requests : WF_vars(TimerFires(r))

FairSpec == Spec /\ Fairness

-----------------------------------------------------------------------------
(* Properties *)

\* Every call that was made settles in the end, whatever its workers do: they
\* may hang, throw or answer late.
CallsSettle == <>[](\A c \in Calls : pc[c] \in {"idle"} \cup Settled)

\* A call that has settled has left nothing behind: no worker and no timer,
\* except those of a request whose message could not be posted; its worker
\* has a timer still, which will end it.
NothingOutlivesItsCall ==
    \A r \in Requests : pc[r[1]] \in Settled /\ (alive[r] \/ timer[r] = "armed") =>
        alive[r] /\ timer[r] = "armed" /\ ~posted[r]

\* No worker is forgotten: each is terminated by a handler or by its timer,
\* also when its call has failed to post to it and is long over.
WorkersEnd == <>[](\A r \in Requests : ~alive[r])

\* A request succeeds or fails for what its own worker or its own timer
\* did, or because it was never posted; never for a late event of the
\* request before it.
RequestsEndOnTheirOwn ==
    \A r \in Requests :
        /\ promise[r] = "ok" => timer[r] = "cleared" /\ fate[r] \in {"ok", "threw"}
        /\ promise[r] = "failed" =>
               timer[r] = "fired" \/ fate[r] \in {"failed", "threw"} \/ ~posted[r]

\* The block a bundle names is the block its proof was executed on, however
\* far the chain has grown in between, and the transaction is the one the
\* call was given or has built.
TransactionOf(c) ==
    IF input[c].fn = "proveSnip36InBrowser" THEN input[c].tx_json ELSE built[c].transaction
BundleIsOfItsBlock ==
    \A c \in Calls : bundle[c] # None =>
        LET a == bundle[c].artifact
        IN  /\ bundle[c].proof.of = [block |-> a.block_number, tx |-> a.transaction]
            /\ input[c].block_number \in {None, a.block_number}
            /\ a.transaction = TransactionOf(c)

\* Concurrent calls load the core module once, and none of them builds
\* anything before it is there.
CoreLoadsOnce ==
    /\ loads <= 1
    /\ \A c \in Calls : built[c] # None => core = "ok"

\* Two results with one hash have one JSON, bounds and proof facts included;
\* only the proof is not covered by the hash.
HashBindsTransaction ==
    \A c, d \in Calls :
        built[c] # None /\ built[d] # None /\ built[c].tx_hash = built[d].tx_hash =>
            [built[c].transaction EXCEPT !.proof = None]
              = [built[d].transaction EXCEPT !.proof = None]
=============================================================================
