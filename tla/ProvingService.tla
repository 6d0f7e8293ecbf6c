--------------------------- MODULE ProvingService ---------------------------
(***************************************************************************)
(* The proving service (portable-core/starknet_transaction_prover): the    *)
(* JSON-RPC method starknet_proveTransaction with its semaphore, and the   *)
(* pipeline behind it: checks, execution of the virtual block on a         *)
(* blocking thread, storage proofs, virtual OS, prover.  A request is a    *)
(* future that can be dropped at an await; the blocking jobs it started    *)
(* cannot.  The node, the virtual OS and the prover are external.          *)
(***************************************************************************)
EXTENDS Integers, FiniteSets

CONSTANTS
    Requests,       \* calls of prove_transaction
    MaxConcurrent,  \* max_concurrent_requests
    ValidateFees,   \* validate_zero_fee_fields
    Prefetch,       \* prefetch_state
    Txs,            \* transactions clients send
    Latest,         \* the block id "latest"
    Pending,        \* the block id "pending"
    MaxBlock,       \* bound on the height of the chain
    None            \* Option::None

Blocks == 0..MaxBlock

\* The transaction type, whether proof or proof_facts are filled in, amount
\* and price of the gas bounds, tip, and whether __validate__ accepts it.
Tx == [kind : {"invoke", "declare", "deploy_account"}, filled : BOOLEAN,
       amount : Nat, price : Nat, tip : Nat, validates : BOOLEAN]

ASSUME ConstAssumption ==
    /\ MaxConcurrent \in Nat \ {0} /\ MaxBlock \in Nat
    /\ ValidateFees \in BOOLEAN /\ Prefetch \in BOOLEAN
    /\ Txs \subseteq Tx
    /\ Latest \notin Blocks /\ Pending \notin Blocks /\ Latest # Pending
    /\ None \notin Int
    /\ None \notin {"Pending", "InvalidTransactionType", "InvalidTransactionInput"}

ASSUME FiniteAssumption == IsFiniteSet(Requests)

VARIABLES
    head,      \* height of the node's chain
    world,     \* world[b]: the values a transaction reads in block b
    permits,   \* permits left in concurrency_semaphore
    pc,        \* pc[r]: where the future of request r stands
    at,        \* at[r]: its block id
    tx,        \* tx[r]: its transaction
    job,       \* job[r]: the blocking job r started last, then its result
    header,    \* header[r]: the block whose header its job fetched
    reads,     \* reads[r]: the values its job read
    proofs,    \* proofs[r]: the block its storage proofs are of
    answer     \* answer[r]: what the client is told

nodeVars == <<head, world>>
futureVars == <<permits, pc, at, tx, answer>>
dataVars == <<header, reads, proofs>>
vars == <<nodeVars, futureVars, job, dataVars>>

-----------------------------------------------------------------------------
(* Answers *)

Ok == 0                    \* a proof
BlockNotFound == 24
ValidationFailure == 55
UnsupportedTxVersion == 61
InvalidTransactionInput == 1000
ServiceBusy == -32005
InternalError == -32603

Answers == {Ok, BlockNotFound, ValidationFailure, UnsupportedTxVersion,
            InvalidTransactionInput, ServiceBusy, InternalError}

\* From<VirtualSnosProverError> for ErrorObjectOwned; the only
\* ValidationError that is ever built is about pending blocks.
CodeOf(error) ==
    IF error = "InvalidTransactionType" THEN UnsupportedTxVersion
    ELSE IF error = "InvalidTransactionInput" THEN InvalidTransactionInput
    ELSE IF error = "Pending" THEN BlockNotFound
    ELSE InternalError    \* RunnerError, ProvingError, ProgramOutputError

-----------------------------------------------------------------------------
(* State *)

\* Awaiting execution, classes and proofs, or the prover; inside the OS run.
Awaiting == {"executing", "fetching", "proving"}
Serving == Awaiting \cup {"running"}
JobRuns == {"header", "state", "execute", "prove"}
JobFailed == {"no block", "reverted", "broken"}
Holding == {r \in Requests : pc[r] \in Serving}
Ids == Blocks \cup {Latest, Pending}

TypeOK ==
    /\ head \in Blocks
    /\ world \in [Blocks -> {0, 1}]
    /\ permits \in 0..MaxConcurrent
    /\ pc \in [Requests -> Serving \cup {"idle", "answered", "dropped"}]
    /\ at \in [Requests -> Ids \cup {None}]
    /\ tx \in [Requests -> Txs \cup {None}]
    /\ job \in [Requests -> JobRuns \cup JobFailed \cup {"none", "executed", "proved"}]
    /\ header \in [Requests -> Blocks \cup {None}]
    /\ reads \in [Requests -> SUBSET {0, 1}]
    /\ proofs \in [Requests -> Blocks \cup {None}]
    /\ answer \in [Requests -> Answers \cup {None}]

Init ==
    /\ head = 0
    /\ world = [b \in Blocks |-> 0]
    /\ permits = MaxConcurrent
    /\ pc = [r \in Requests |-> "idle"]
    /\ at = [r \in Requests |-> None]
    /\ tx = [r \in Requests |-> None]
    /\ job = [r \in Requests |-> "none"]
    /\ header = [r \in Requests |-> None]
    /\ reads = [r \in Requests |-> {}]
    /\ proofs = [r \in Requests |-> None]
    /\ answer = [r \in Requests |-> None]

-----------------------------------------------------------------------------
(* The request: semaphore and checks *)

Goto(r, to) == pc' = [pc EXCEPT ![r] = to]

\* resource_bounds.max_possible_fee(tip)
MaxFee(t) == t.amount * (t.price + t.tip)

\* The first check of prove_transaction, extract_rpc_invoke_tx and
\* validate_transaction_input that fails.
Refusal(id, t) ==
    IF id = Pending THEN "Pending"
    ELSE IF t.kind # "invoke" THEN "InvalidTransactionType"
    ELSE IF t.filled \/ (ValidateFees /\ MaxFee(t) # 0) THEN "InvalidTransactionInput"
    ELSE None

\* Mutant of HasPermit: the limit is not enforced.
HasPermitAlways == TRUE

HasPermit == permits > 0                     \* try_acquire

Arrives(r, id, t) ==
    /\ pc[r] = "idle"
    /\ at' = [at EXCEPT ![r] = id]
    /\ tx' = [tx EXCEPT ![r] = t]
    /\ UNCHANGED <<nodeVars, dataVars>>

Busy(r, id, t) ==
    /\ Arrives(r, id, t)
    /\ ~HasPermit
    /\ Goto(r, "answered")
    /\ answer' = [answer EXCEPT ![r] = ServiceBusy]
    /\ UNCHANGED <<permits, job>>

\* The permit is taken and given back without an await in between.
Refuse(r, id, t) ==
    /\ Arrives(r, id, t)
    /\ HasPermit
    /\ Refusal(id, t) # None
    /\ Goto(r, "answered")
    /\ answer' = [answer EXCEPT ![r] = CodeOf(Refusal(id, t))]
    /\ UNCHANGED <<permits, job>>

\* The runner is created and the executor moves to a blocking thread.
Admit(r, id, t) ==
    /\ Arrives(r, id, t)
    /\ HasPermit
    /\ Refusal(id, t) = None
    /\ permits' = permits - 1
    /\ Goto(r, "executing")
    /\ job' = [job EXCEPT ![r] = "header"]
    /\ UNCHANGED answer

-----------------------------------------------------------------------------
(* The blocking job: RpcVirtualBlockExecutor::execute, then the prover *)

\* Every call to the node resolves the block id anew.
Resolve(id) == IF id = Latest THEN head ELSE id

JobStep(r, from, to) ==
    /\ job[r] = from
    /\ job' = [job EXCEPT ![r] = to]
    /\ UNCHANGED <<nodeVars, futureVars, proofs>>

\* base_block_info
JobFetchesHeader(r) ==
    /\ JobStep(r, "header", "state")
    /\ Resolve(at[r]) <= head
    /\ header' = [header EXCEPT ![r] = Resolve(at[r])]
    /\ UNCHANGED reads

\* simulate_and_get_initial_reads, which also runs __validate__
JobPrefetches(r) ==
    /\ JobStep(r, "state", "execute")
    /\ Prefetch => tx[r].validates
    /\ reads' = [reads EXCEPT ![r] = IF Prefetch THEN {world[Resolve(at[r])]} ELSE {}]
    /\ UNCHANGED header

\* Charging a fee reads keys that simulate was told to skip.
MustRead(r) == ~Prefetch \/ MaxFee(tx[r]) > 0

\* execute_txs: a key that was not prefetched is read from the node.
JobExecutes(r) ==
    /\ JobStep(r, "execute", "executed")
    /\ tx[r].validates
    /\ \E more \in {{}, {world[Resolve(at[r])]}} :
         /\ MustRead(r) => more # {}
         /\ reads' = [reads EXCEPT ![r] = reads[r] \cup more]
    /\ UNCHANGED header

JobProves(r) ==
    /\ JobStep(r, "prove", "proved")
    /\ UNCHANGED <<header, reads>>

\* The node knows no block of that number.
JobFindsNoBlock(r) ==
    /\ JobStep(r, "header", "no block")
    /\ Resolve(at[r]) > head
    /\ UNCHANGED <<header, reads>>

\* __validate__ reverts, in the simulation or in the execution.
JobReverts(r) ==
    /\ \/ Prefetch /\ JobStep(r, "state", "reverted")
       \/ JobStep(r, "execute", "reverted")
    /\ ~tx[r].validates
    /\ UNCHANGED <<header, reads>>

\* The node or the prover fails, __execute__ reverts, the thread panics.
JobBreaks(r) ==
    /\ \E from \in JobRuns : JobStep(r, from, "broken")
    /\ UNCHANGED <<header, reads>>

-----------------------------------------------------------------------------
(* The request: from one await to the next *)

\* Mutant of GiveBack: the permit of a finished request is lost.
GiveBackNever == UNCHANGED permits

\* _permit goes out of scope.
GiveBack == permits' = permits + 1

Answer(r, code) ==
    /\ Goto(r, "answered")
    /\ answer' = [answer EXCEPT ![r] = code]
    /\ GiveBack
    /\ UNCHANGED <<nodeVars, at, tx>>

MovesOn(r, to) ==
    /\ Goto(r, to)
    /\ UNCHANGED <<nodeVars, permits, at, tx, answer>>

ExecutionReturns(r) ==
    /\ pc[r] = "executing" /\ job[r] = "executed"
    /\ MovesOn(r, "fetching")
    /\ UNCHANGED <<dataVars, job>>

\* Mutant of JobErrorReturns: a prover that fails is never heard of.
JobErrorReturnsExecution(r) ==
    /\ pc[r] = "executing" /\ job[r] \in JobFailed
    /\ Answer(r, CodeOf("RunnerError"))
    /\ UNCHANGED <<dataVars, job>>

\* An error of the job, whichever it is, is a RunnerError or a ProvingError.
JobErrorReturns(r) ==
    /\ pc[r] \in {"executing", "proving"} /\ job[r] \in JobFailed
    /\ Answer(r, CodeOf(IF pc[r] = "executing" THEN "RunnerError" ELSE "ProvingError"))
    /\ UNCHANGED <<dataVars, job>>

\* Mutant of ProofBlock: the storage proofs are asked for by block id.
ProofBlockById(r) == Resolve(at[r])

\* get_storage_proofs is called with the number in the header.
ProofBlock(r) == header[r]

\* join!(get_classes, get_storage_proofs); classes are named by their hash.
FetchReturns(r) ==
    /\ pc[r] = "fetching"
    /\ MovesOn(r, "running")
    /\ proofs' = [proofs EXCEPT ![r] = ProofBlock(r)]
    /\ UNCHANGED <<header, reads, job>>

\* A class or proof is missing, a state diff is not allowed, chunks differ.
FetchFails(r) ==
    /\ pc[r] = "fetching"
    /\ Answer(r, CodeOf("RunnerError"))
    /\ UNCHANGED <<dataVars, job>>

\* run_virtual_os on the runtime's own thread: the OS finds every value it
\* is given in the tries it is given; then the prover is started.
OsAccepts(r) ==
    /\ pc[r] = "running"
    /\ reads[r] \subseteq {world[proofs[r]]}
    /\ MovesOn(r, "proving")
    /\ job' = [job EXCEPT ![r] = "prove"]
    /\ UNCHANGED dataVars

OsRejects(r) ==
    /\ pc[r] = "running"
    /\ Answer(r, CodeOf("RunnerError"))
    /\ UNCHANGED <<dataVars, job>>

ProofReturns(r) ==
    /\ pc[r] = "proving" /\ job[r] = "proved"
    /\ \E code \in {Ok, CodeOf("ProgramOutputError")} : Answer(r, code)
    /\ UNCHANGED <<dataVars, job>>

\* The client closes its connection: the future is dropped where it awaits,
\* its permit with it.  The job runs on and its result goes nowhere.
Disconnect(r) ==
    /\ pc[r] \in Awaiting
    /\ Goto(r, "dropped")
    /\ GiveBack
    /\ UNCHANGED <<nodeVars, at, tx, answer, job, dataVars>>

-----------------------------------------------------------------------------
(* The specification *)

\* A new block may or may not touch what the transactions read.
Mine ==
    /\ head < MaxBlock
    /\ head' = head + 1
    /\ \E v \in {0, 1} :
         world' = [b \in Blocks |-> IF b > head THEN v ELSE world[b]]
    /\ UNCHANGED <<futureVars, job, dataVars>>

Call(r) == \E id \in Ids, t \in Txs : Busy(r, id, t) \/ Refuse(r, id, t) \/ Admit(r, id, t)

Job(r) == \/ JobFetchesHeader(r) \/ JobPrefetches(r) \/ JobExecutes(r)
          \/ JobProves(r) \/ JobFindsNoBlock(r) \/ JobReverts(r) \/ JobBreaks(r)

Future(r) ==
    \/ ExecutionReturns(r) \/ JobErrorReturns(r) \/ FetchReturns(r) \/ FetchFails(r)
    \/ OsAccepts(r) \/ OsRejects(r) \/ ProofReturns(r)

Next ==
    \/ \E r \in Requests : Call(r) \/ Job(r) \/ Future(r) \/ Disconnect(r)
    \/ Mine

Spec == Init /\ [][Next]_vars

\* The requests whose future waits for the node: for an answer to the job it
\* started, or for storage proofs.  No code here limits either wait.
AtNode ==
    {r \in Requests : \/ pc[r] = "executing" /\ job[r] \in {"header", "state", "execute"}
                      \/ pc[r] = "fetching"}

\* The runtime polls what is ready and proving terminates.  The node need
\* not answer, clients need neither call nor hang up, and the chain need not
\* grow.
Fairness ==
    \A r \in Requests :
        /\ WF_vars(Job(r) /\ job[r] = "prove")
        /\ WF_vars(Future(r) /\ r \notin AtNode)

FairSpec == Spec /\ Fairness

-----------------------------------------------------------------------------
(* Properties *)

\* The semaphore and the futures agree: a permit is out exactly for each
\* request being served, on every error path and after every hang-up.
PermitsConserved == permits + Cardinality(Holding) = MaxConcurrent

\* A request asked for a numbered block is proved on that block, and a proof
\* handed out for "latest" is of the block in its header: the values it was
\* executed on are that block's values.
ProofIsOfItsBlock ==
    \A r \in Requests : answer[r] = Ok =>
        /\ at[r] # Latest => header[r] = at[r]
        /\ reads[r] \subseteq {world[header[r]]}

\* Whatever fails, panics or hangs up, every permit comes back in the end
\* but those of requests that wait for a node that stays silent.
PermitsReturn == <>[](permits + Cardinality(AtNode) = MaxConcurrent)

\* Every admitted request is answered unless its client hangs up or the node
\* stays silent.
AdmittedAreAnswered ==
    \A r \in Requests :
        pc[r] = "executing" ~> pc[r] \in {"answered", "dropped"} \/ [](r \in AtNode)

\* virtual_block_executor.rs: it "runs transactions on top of a given,
\* finalized block": header and values are of one block.
ExecutesOnOneBlock ==
    \A r \in Requests : job[r] = "executed" => reads[r] \subseteq {world[header[r]]}

\* README.md, table of errors: 24 for a block that "doesn't exist", 55 for a
\* transaction whose __validate__ reverted.
ErrorCodesAsDocumented ==
    \A r \in Requests : pc[r] = "answered" =>
        /\ job[r] = "no block" => answer[r] = BlockNotFound
        /\ job[r] = "reverted" => answer[r] = ValidationFailure

-----------------------------------------------------------------------------
(* Capacity as Admission sees it *)

Gone == {r \in Requests : pc[r] \in {"answered", "dropped"}}

Gate == INSTANCE Admission
    WITH Clients <- Requests, Limit <- MaxConcurrent, inside <- Holding, gone <- Gone

\* The semaphore implements the admission rule: nobody is turned away while
\* there is room, nobody enters when there is none.
ImplementsAdmission == Gate!Spec
=============================================================================
