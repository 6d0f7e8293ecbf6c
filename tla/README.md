# TLA+ models of snip36-prover-web

This directory holds TLA+ models of the parts of the repository in which
things happen concurrently, fail half-way or depend on a chain that moves: the
playground server and its coin-flip game (`crates/snip36-server`), the proving
service (`portable-core/starknet_transaction_prover`), the processes between a
caller and that service (`routes/prove.rs`, `scripts/run-virtual-os.sh`,
`crates/snip36-artifact`), and the npm package (`npm/src`). TLC checks them
on small instances; the theorems in the eight modules that hold them (see
[Proofs](#proofs)) are for every value of the constants.
`PROJECT.json` maps every definition to the lines it models.

## The system

| Component | State it keeps | Operations | Interacts through |
|---|---|---|---|
| Coin-flip game, `routes/coinflip.rs` | `AppState.coinflip` (RwLock), `AppState.commitments` (map), files `output/coinflip/{sid}*` | deploy, commit, play (SSE task) | sncast, snip36 CLI, gateway, node |
| Playground session routes, `routes/{fund,deploy,invoke,prove,prove_block,submit}.rs` | `AppState.sessions`, files `output/playground/{sid}*` | one route each; prove and prove-block spawn tasks | sncast, `run-virtual-os.sh`, snip36 CLI, node |
| JSON-RPC client, `snip36-core/rpc.rs` | none | call, `wait_for_tx`, `wait_for_block_after` | node |
| Proving service, `server/rpc_impl.rs`, `proving/*`, `running/runner.rs`, `running/virtual_block_executor.rs`, `running/classes_provider.rs` | a semaphore; per request a pipeline | `starknet_proveTransaction` | node, virtual OS, prover, blocking threads |
| Storage proofs, `running/storage_proofs.rs`, `running/committer_utils.rs` | per request: query, chunks, proofs, facts database | `get_storage_proofs` | node, committer |
| Signing, `snip36-core/signing.rs`, `snip36-pure` | none | packing, hashing, signing | wasm bindings, routes |
| Stream of `/api/prove`, `routes/prove.rs` | a channel of 64 events, two pipes, the script | start, forward, check, report | script, client |
| Virtual OS script, `run-virtual-os.sh` | a runner process, two output files | fetch, build, launch, probe, ask, save, clean up | runner on port 9900, node |
| Artifact crate, `snip36-artifact` | a child process | export, prove with a runner it starts | runner on the same port, node |
| Configuration, `server/config.rs`, `server/cors.rs` | read once | merge file, environment and flags; check; normalise | what starts a runner |
| npm package, `npm/src` | cached initialisation, a worker and a timer per request | init, build, prove in two workers | wasm, worker messages, node |
| Front ends, `web/*` | UI state | call the routes in order | server |
| Start-up of the server, TLS | read once | - | - |
| Contracts, `tests/contracts` | counter; none for the coin | increment, play | chain |

What is hard here: requests of one session overlap and share a map entry and
file names; tasks run for minutes on a clone of the session; transactions are
accepted and their answers lost, time out, revert, or are retried; "latest"
moves while a request is served; a future is dropped while the blocking job it
started goes on; a query is cut into chunks whose replies must fit together;
processes wait for each other through pipes and channels of limited size and
find each other by a port they share; a worker answers after its timer.
`PROJECT.json` lists these as hazards, each with the properties that cover it
or the reason why none does.

What makes each component correct:

* game: a bet is revealed at most once, played as it was pledged, and a result
  is reported only for a game that is on chain;
* playground: no update of the session is lost; reference blocks move forward,
  proofs and blocks belong to the transactions they are used for;
* service: permits balance on every path, admitted requests are answered, a
  proof is of the block in its header;
* storage proofs: the chunks ask for exactly the query, their merge is the
  proof of the query, dummy nodes hide nothing;
* runners: a call and a stream end unless they wait where the code sets no
  limit, the outcome comes last and fits the session, a caller that was answered
  leaves no process behind, flags go before the environment and the
  configuration file;
* npm package: a call settles once and every worker is terminated, a bundle
  names the block its proof was executed on, concurrent calls load the module
  once, and the hash determines the transaction that is sent.

## Modules

| Module | Models | Role |
|---|---|---|
| `CommitReveal` | what the coin-flip API promises | abstract specification |
| `CoinFlip` | `routes/coinflip.rs` | implements `CommitReveal` |
| `CoinFlipInvariant` | | the inductive invariant `GameInv` |
| `CoinFlipProofs` | | theorems, the refinement included |
| `MCCoinFlip` | | constants for TLC |
| `Playground` | the session routes and `run-virtual-os.sh` | specification and properties |
| `PlaygroundInvariant` | | the inductive invariants `IInv`, `RealBlocks`, `SequentialInv` |
| `PlaygroundProofs` | | theorems about types and cycles |
| `PlaygroundSessionProofs` | | theorems about the session entry and its files |
| `MCPlayground` | | constants for TLC |
| `Admission` | what the semaphore promises | abstract specification |
| `ProvingService` | `rpc_impl.rs`, `virtual_snos_prover.rs`, `runner.rs`, `virtual_block_executor.rs`, `classes_provider.rs` | implements `Admission` |
| `ProvingServiceInvariant` | | the inductive invariant `PipelineInv` |
| `ProvingServiceProofs` | | theorems |
| `MCProvingService` | | constants for TLC |
| `StorageProofs` | `storage_proofs.rs`, `committer_utils.rs` | specification and properties |
| `StorageTheorems` | | the inductive invariant `StorageInv` and theorems |
| `MCStorageProofs` | | constants for TLC |
| `ServiceConfig` | `server/config.rs`, `server/cors.rs` | operators, used by `ProverRuns` |
| `ProverRuns` | `routes/prove.rs`, `run-virtual-os.sh`, `snip36-artifact/src/lib.rs` | specification and properties |
| `ProverRunsInvariant` | | the inductive invariant `RunsInv` |
| `ProverRunsProofs` | | theorems |
| `Iteration` | | lemmas about loops over sequences, used by `ProverRunsProofs` and `StorageTheorems` |
| `MCProverRuns` | | constants for TLC |
| `Transactions` | `signing.rs` and `types.rs` of `snip36-pure` and `snip36-core` | operators, used by `BrowserProver` |
| `BrowserProver` | `npm/src/{index,worker,wasm-loader}.ts`, the wasm bindings | specification and properties |
| `BrowserProverInvariant` | | the inductive invariant `PageInv` |
| `BrowserProverProofs` | | theorems |
| `MCBrowserProver` | | constants for TLC |

An action is what a handler, a spawned task or a blocking job does between two
awaits (or blocking calls to the node). A step that waits for something that,
once true, stays true (a receipt) is one action with what follows it, because
delaying it changes nothing. Definitions whose name ends in a variation of
another's and whose comment says "Mutant of" are not part of a specification:
each is a plausible mistake in the definition below it, used to see that the
properties notice.

### CoinFlip

State: `coinflip` and `commitments` are the two fields of `AppState`; `pc`,
`sid`, `tx`, `got`, `attempt` are the locals of each play request and its task;
`files` are the files of a session id; `head`, `nonceAt`, `mempool`, `mined`
are the chain as far as the server can see it. `issued` is a history variable.
The handler of play is one action (`PlayReveal`): nothing is awaited between
the look-up and the spawn. The task is a chain of actions from `Construct` to
`VerifyAndReport`. A commitment is compared as text with the hash the server
formats; `canonical` is FALSE for one spelt differently, which is never opened.
A pedersen commitment is taken to bind bet and nonce. The gateway accepts a
transaction whose reference block is old enough and whose nonce is free;
`SubmitReplyLost` is the case where it does and the server does not hear of it.
`ClientStops` is a client that stays connected and reads no more: the task is
held in `send` ("unheard"). To one that has gone, `send` fails and the task goes
on.

### Playground

One session; the constants say which requests there are (each both a request
and its transaction). `session` is the entry in the map, `clone[r]` what
`get_session` returned. All six routes and the script run interleaved.
`Sequential = TRUE` restricts the client to one request at a time, as the front
end does. `wait_for_tx` returns receipts with a block number only, so
`receipt_block_number` is never `None` here. Declaring a class is left to
`MineOther` (another transaction of the master account). The counter's value
is not followed.

### ProvingService

`pc[r]` is the await at which the future of request r stands, `job[r]` the
blocking job it started. `Disconnect` drops the future at an await and frees
its permit; the job goes on. The OS run has no await, so a request in
"running" cannot be dropped. `Resolve` is the node's answer to a block id: for
"latest", whatever is latest at that call. `world[b]` stands for everything a
transaction reads in block b, `reads[r]` for what was read; the virtual OS
accepts reads that agree with the tries it is given (it may reject others for
its own reasons). `JobBreaks` is any other failure of a job, panics included.
`AtNode` are the requests whose future waits for the node.

### StorageProofs

One call of `get_storage_proofs`. Tries have height `Height` (251 in the
code), a node is known by its trie and position, and contracts with equal storage share a trie, which is
what makes the dummy nodes delicate: the nodes of all proofs are inserted
before the first dummy, and a dummy never replaces an entry, so the dummies
are added as one set. Inner nodes have two children; the edge nodes of the real
tries, with one child at the end of a longer path, are abstracted to these.
`Reply` is the node; it may fail, return
a leaf or a storage proof too few (`Faults`), or answer from another branch of
the chain after a reorganisation. The code's limit of 100 keys is `MaxKeys`.
The committer is external: with state changes it may fail (`ProvideFails`).
The type is plain from `Init` and `Next`; there is no separate type invariant.

### ProverRuns and ServiceConfig

A caller is a prove request with its script and its client, or a call of
`prove_artifact_with_virtual_os`. `pc[c]` is where the script or call stands,
`runner[c]` the process it has started and `config[c]` what that process made
of flags, environment and file when it bound the port. There is one port: both
callers use 9900 unless told otherwise, the first runner to bind gets it, and
any answer on it counts as ready. `work[c]` is the runner that has the request
of c, which need not be c's. `pipe[c]` counts unread lines; a write to a full
pipe blocks the writer. The script's output and its runner's share two pipes,
which the task drains by one reader each into `chan`, whose `Send` waits for
room. `task` "complete" or "error" is between the look at the proof file (and the
update of the session) and the last event.

A session has one proof file, `{session_id}.proof`, which no run removes:
`SessionOf` says which session a request is for, `HasProof` looks at what any of
its runs has written, and a session may start with the proof of an earlier run
(`recorded` is any value in `Init`). So a run whose script fails may be told
"complete", and a run whose block cannot be found is told "error" although a
proof is there; `OutcomeFitsSession` says what is left: "complete" means that the
session has a proof, and "error" that this run saved none. `ServiceConfig` has the whole of `from_args`;
an origin is the wildcard or a parsed URL, a value that does not parse is
`Bad`. Certificates are not read. A request of an artifact call ends with the
600-second deadline at the latest (`RequestFails` is always possible while no
answer is there). The script's first `curl` and the probes have no limit
(`AtCurl`), and the stream waits for a client that is there (`Unread`).

### BrowserProver and Transactions

Calls of the exported functions run interleaved in one page. `core` is
`initPromise`, kept whether it is pending, fulfilled or rejected. A proving
call makes two requests, each with a worker, a timer and a promise of its own;
`events[r]` is what the page has not handled yet. A terminated worker's
messages are gone, an error event may still come. `postMessage` may throw (the
message holds what a caller gave and may not be cloneable): that rejects the
promise inside its executor and leaves worker and timer alive for up to 90
seconds (`posted` is FALSE). `get_snip36_proof` first awaits its wallet
(`WalletAnswers`). `head` grows while calls are under way. `Passed` is what each
function hands to its builder: `calldata` is what the builder requires, `call` is
what the declared types have, and `buildPayload` and `buildUnsignedPayload` do not
turn one into the other: with arguments of the declared types they always throw
("missing field calldata"), although the repository's README lists "build SNIP-36
proof-bearing payloads in browser/worker code" under "What works now". The run has
such a call, and calls with a top-level `calldata`, which a caller in JavaScript
may add, so that payloads are built and hashed.

In `Transactions` a hash is its own preimage, so "equal hash" means
"equal preimage", and the packing of the resource bounds is arithmetic on
widths `AmountBits` and `PriceBits` (64 and 128 in the code). Each builder lists
the fields of a transaction twice, as in the code: once for the hash and once for
the JSON. The two copies
of `signing.rs` are the same code; the map names one of them for each
definition. Gas amounts and prices of the default bounds are scaled to the
widths.

## Runs

| Run | Checks | Instance | Result |
|---|---|---|---|
| `coinflip` | `TypeOK`, `OneTaskPerCommitment`, `TaskPlaysThePledge`, `ReadsItsOwnProof`, `ResultIsOnChain`, `ImplementsCommitReveal`, `TasksEnd` | 2 plays, 2 session ids, 2 players, a deployer that may ask again, 2 attempts, fair | holds, 376 k states |
| `coinflip_deploy` | `DeployIsIdempotent` | 2 deployers | violated |
| `playground_cycles` | `TypeOK`, `CyclesUseDistinctReferences`, `ReferenceAdvances` | 1 counter, 2 cycles, 1 foreign transaction | holds, 248 k |
| `playground_prove` | `InvokeBlockIsReal`, `NoLostUpdate` | 2 invokes, prove, submit, both deployments | holds, 639 k |
| `playground_sequential` | `SubmitsWhatItProved`, `ReferenceCoversContract` | 2 counters, 2 cycles, a fund; one request at a time | holds, 1.5 M |
| `playground_invoke_block` | `ProvesAgainstTheCorrectBlock` | 2 invokes, 1 prove | violated |
| `service` | `TypeOK`, `PermitsConserved`, `ProofIsOfItsBlock`, `ImplementsAdmission`, `PermitsReturn`, `AdmittedAreAnswered` | 2 requests, 1 permit, 3 blocks, fee check, prefetch, fair | holds, 446 k |
| `service_one_block` | `ExecutesOnOneBlock` | 1 request | violated |
| `service_codes` | `ErrorCodesAsDocumented` | 1 request | violated |
| `storage` | `RequestsFit`, `ChunksMakeUpQuery`, `MergedIsWhole`, `LeavesBelongToAddresses`, `FactsAreSound` | all queries over 1 class, 2 contracts, 2 keys each; limit 2; tries of height 2; 1 reorganisation | holds, 300 k |
| `runners` | `TypeOK`, `NoStrayRunner`, `OutcomeFitsSession`, `RunnerObeysItsCaller`, `OriginsAreNormal`, `OutcomeIsLast`, `RunsEnd` | 1 script with its client, a session with or without a proof, 1 artifact call, 4 environments, pipes and channel of size 1, 2 probes, fair | holds, 124 k |
| `browser` | `TypeOK`, `NothingOutlivesItsCall`, `RequestsEndOnTheirOwn`, `BundleIsOfItsBlock`, `CoreLoadsOnce`, `HashBindsTransaction`, `CallsSettle`, `WorkersEnd` | 2 calls with 3 and 5 possible inputs, 2 blocks, fair | holds, 451 k |

Deadlock is not checked: every client may stop asking, and then nothing is
left to do.

### Bounds

Every property about interference is between two requests, so two of a kind
suffice for an interleaving to go wrong, and the proofs show for the cycles
that more add nothing. `MaxBlock` leaves room for a deployment, both
transactions and one block of somebody else. `MaxAttempts` is at least 2 where
retries matter, 1 elsewhere; `MaxOther` bounds foreign master transactions.
Limit 2 over up to seven items gives one to four chunks, a last chunk that is
full or not, and keys of one contract in two chunks; height 2 is the least at
which two paths share an inner node below the root or part above the leaves. In `playground_cycles`
and `coinflip` the chain is high enough for every task to finish.

`runners`: a pipe and a channel of size 1 are full after one line, so every
wait for room happens; a build prints one line more than a pipe holds. One
caller of each kind is enough for one to be served, and killed, by the other.
The environments are a file that contradicts every flag and has equal origins
in different spellings, a TLS pair split between file and environment with a
wildcard among the origins, half a pair, and a value out of range. `browser`:
the inputs pair two bounds that a packing with too little room would confuse,
payloads with and without proof and facts, and proving calls with and without
a block number; one new block is enough for "latest" to move at any point.

### Fairness

Fairness is assumed only of what a runtime, an operating system or a limit in
the code makes happen; where the code waits without a limit the liveness
properties say so, as an alternative that the wait lasts for ever.

`CoinFlip`: weak fairness of each task except in `Unlimited`. `StarknetRpc` uses
a client without a timeout, so the nonce (state "spawned") may never come, and
`wait_for_tx` ("verifying") looks at its deadline only between two polls; the
prover process ("proving") has no limit either. Files, the gateway's answer (120
seconds) and the sleep between attempts come. `TasksEnd`: a task ends, is held by
a client that does not read, or stays in one of those waits for ever; the retries
never go on for ever. Nothing is assumed of clients, deployments or blocks.

`ProvingService`: weak fairness of the prover job and of each future that does
not wait for the node. The clients for headers, state and storage proofs have no
timeout (`AtNode`): `AdmittedAreAnswered` and `PermitsReturn` speak of all
requests and permits but those of requests that wait for a silent node. Clients
need not call, stay or leave.

`ProverRuns`: weak fairness of scripts and artifact calls except `AtCurl`, and of
tasks and their readers. Runners need not bind, answer or crash, clients need not
read or leave. `RunsEnd`: a call or a stream ends, or it waits for ever for an
answer to a probe or to the script's first question, or for a client that is
there and does not read. In particular script, readers and task never wait for
each other, and a request to a runner that has stopped ends with its 600 seconds.

`BrowserProver`: the page runs what is ready, fetches settle and timers fire.
Workers need not do anything, and their events need not be handled before the
timer fires.

### What the violated runs show

* `coinflip_deploy`: the comment on `deploy_coinflip` says "one-time,
  idempotent". The read lock is released before the contract is declared, so
  two requests deploy two contracts and the later one replaces the earlier.
* `playground_invoke_block`: `invoke_block` keeps the block of an earlier
  invoke while a new one is pending or timed out, and prove pairs it with the
  new transaction.
* `service_one_block`: a request for "latest" fetches header, simulation and
  reads one after the other, each on what is latest then. The virtual OS
  rejects such a mix (`ProofIsOfItsBlock` holds), the request fails.
* `service_codes`: the README's error table gives 24 for a block that does not
  exist and 55 for a reverted `__validate__`; both come out as -32603.

The models contain further behaviour that no property claims away: overlapping
cycles of one session share files, a cycle landing after a second
`deploy-counter` sets the reference block below the new counter (both are
excluded by `Sequential`), a script that stops between its two files leaves
old facts beside a new proof, a job whose client is gone is not counted by the
semaphore, chunks of two branches are merged, a short storage reply to one
chunk goes unnoticed. In `ProverRuns`: a second caller is served by the first
one's runner (with that one's chain id and node) and loses it when the first
cleans up; a failed run of a session that has an earlier proof is reported as
complete; a request that breaks off or times out leaves the artifact crate's
runner alive on the port; after the last failed probe the request is made all
the same; `SKIP_FEE_FIELD_VALIDATION=false` cannot undo a file that switches
the check off. In `BrowserProver`: a failed initialisation is kept for good, a
nonce that cannot be fetched becomes 0, nonce and block are fetched at
different moments, and `get_snip36_proof` passes its chain id as hexadecimal
text, whose letters `chain_id_felt` then encodes (the hash is not used there).
The hazards in `PROJECT.json` note most of them.

One thing is outside the models: the script's exit status, which `cleanup` turns
into a failure when the runner is gone before it is killed (the task goes by the
proof file).

## Proofs

`PlaygroundProofs` (for any sets of requests and any bounds):

* `TypeCorrect`: `Spec => []TypeOK`. Needs to know that a cycle that may still
  retry has an attempt left, and what a request has looked up before it gets
  to a step (`WellFormed`), so the two are proved together.
* `InductiveInvariant`: `Spec => [](TypeOK /\ IInv)` if the session deploys at
  most one counter. `IInv` is `WellFormed` (above), `NoncesGrow` (the master
  nonce grows along the chain and is constant beyond its head), `Receipts` (a
  transaction is mined once, alone in its block, after it was sent),
  `References` (a reference block exists exactly with a counter and is on the
  chain), and `CycleNonces`: a cycle signs with the nonce of its reference
  block and takes that nonce when it is mined, so if the reference block had
  been moved to or past its own block before it sees its receipt, its nonce
  would have been used.
* `ReferenceOnlyAdvances`: the reference block never moves back.
* `DistinctReferences`: completed cycles used different reference blocks.

`ProvingServiceProofs` (for any finite set of requests):

* `ServiceInvariant`: `Spec => []Inv` with `Inv == TypeOK /\ PermitsConserved
  /\ PipelineInv`. `PermitsConserved` keeps `permits` within its range.
  `PipelineInv` follows one request: where its job can be (`JobsFollowRequests`),
  that its inputs passed the checks (`JobsHaveInputs`), that its header is of a
  block on the chain (`HeadersAreReal`), and that the tries and what the virtual
  OS let through belong to that header (`ReadsAreOfHeader`). `ProofIsOfItsBlock`
  alone says nothing of a request before its answer and is not inductive. One
  lemma per action.
* `ServiceTypeCorrect`: `Spec => []TypeOK`.
* `PermitsAreConserved`: `Spec => []PermitsConserved`: on every path, error or
  hang-up, the permits out are the requests being served.
* `ProofsAreOfTheirBlock`: `Spec => []ProofIsOfItsBlock`: whatever "latest"
  becomes while a request is served.
* `ServiceImplementsAdmission`: `Spec => ImplementsAdmission`. The mapping is
  `inside <- Holding`, `gone <- Gone`; by `PermitsConserved` a permit is free
  exactly when there is room, so a call that finds none is a `TurnAway`.

`PlaygroundSessionProofs` (same constants, on top of `PlaygroundProofs`):

* `NoUpdateIsLost`: `Spec => NoLostUpdate`. `SessionWrites` lists the eight
  things a step can do to the session entry; each writes fields its request
  owns.
* `InvokeBlocksAreReal`: `Spec => []InvokeBlockIsReal`. The property is not
  inductive: a prove task holds a block between reading and storing it. With
  `RealBlocks` every such block is that of an invoke that succeeded, and
  receipts never change.
* `OneAfterTheOther`, for a client that sends one request after the other
  (`Sequential = TRUE`): `Spec => [](TypeOK /\ SequentialInv)`. One request is
  active (`OneAtATime`), so from the transaction file to the submission a cycle
  finds what it put into the files (`OwnWork`), and a cycle that is under way
  lands in a block after that of its counter (`Covers`).
* `CyclesSubmitTheirOwn`, `ReferencesCoverTheCounter`: `SubmitsWhatItProved` and
  `ReferenceCoversContract` for such a client. Without that hypothesis both are
  false (see above).

`CoinFlipProofs` (for any plays, players, session ids and bounds):

* `GameInvariant`: `Spec => [](TypeOK /\ GameInv)`. `GameInv` follows a
  commitment and its task: what is in the map is what commit issued, a task
  holds a commitment that was issued and is spent (`TasksHoldSpent`), no two
  tasks hold one, the files of a session id are those of its one task as far as
  its prover has come (`FilesAreOwn`), what it has read is its own
  (`ReadsAreOwn`), its result was mined.
* `GameTypeCorrect`, `CommitmentsArePlayedOnce`, `PledgesAreKept`, `ProofsAreOwn`,
  `ResultsAreOnChain`: `TypeOK`, `OneTaskPerCommitment`, `TaskPlaysThePledge`,
  `ReadsItsOwnProof` and `ResultIsOnChain` as invariants of `Spec`.
* `CoinFlipImplementsCommitReveal`: `Spec => ImplementsCommitReveal`. The mapping
  (`PledgeBar`, `PhaseBar`, `SettledBar`) reads the phase of a bet off the map
  and off the task that holds its session id; `PhaseFacts` says what it is in
  each case, and one lemma per kind of step shows the abstract step or the
  stutter: `CommitBet` is a commit, `PlayReveal` a reveal, the end of a task
  settles or changes nothing, everything else is silent.

`ProverRunsProofs` (for any scripts, artifact calls and environments, any sizes
of pipes and channel):

* `RunsInvariant`: `Spec => [](TypeOK /\ RunsInv)`. `CallInv` says where a caller
  can have a living runner, `TaskInv` what a task that has checked knows of its
  session and of its own, finished script, `EventInv` that an outcome is
  the last event, `ConfiguredByCaller` that a runner that is up was configured
  from its own caller's flags.
* `RunsTypeCorrect`, `NoRunnerIsLeft`, `OutcomesFit`, `RunnersObey`: the
  invariants `TypeOK`, `NoStrayRunner`, `OutcomeFitsSession` and
  `RunnerObeysItsCaller`; the last from the lemma `FlagsAreObeyed` about
  `from_args` for any file, environment and flags.
* `OriginsStayNormal`: `OriginsAreNormal`, for lists of origins of any length.
  `NormalTurns` unrolls the loop of `normalize_cors_allow_origins`; what it has
  collected is without duplicates (`NormalIsDistinct`), and normalising such a
  list gives it back (`NormalStays`).
* `OutcomesComeLast`: the action property `OutcomeIsLast`.

`BrowserProverProofs` (for any finite set of calls and any inputs that have the
form of the package's input types):

* `PageInvariant`: `Spec => [](TypeOK /\ PageInv)`. `RequestInv`: a worker lives
  exactly while its timer runs, its promise is pending all that time unless
  nothing could be posted, and events are of what the worker did. `TwoRequests`: the second request starts when the first
  has succeeded, and a call has settled only when both have. `BuildInv`,
  `ProveInv`, `BundleInv`: what a call carries from its arguments to its bundle.
* `PageTypeCorrect`, `CallsLeaveNothing`, `RequestsAreTheirOwn`,
  `BundlesAreOfTheirBlock`, `CoreIsLoadedOnce`: the corresponding invariants.
* `HashesBind`: `HashBindsTransaction` for any widths: the fields that are hashed
  determine the fields that are written, builder by builder. A list with proof facts is
  longer than one without (`HashBinds`); a packed bound can be taken apart
  because a price below 2^PriceBits is a remainder (`OneWay`, `ResourceBinds`).

`StorageTheorems` (for tries of any height, any finite sets of classes, contracts
and keys, any limit of keys and any number of requests):

* `StorageInvariant`: `Spec => []StorageInv`. `Asked`: the requests are those
  `fetch_proofs` makes of the query; `Fetched`: the replies so far are those to
  the first requests, in their order, each from some branch and with some fault;
  `Provided`: a call that is done has all replies, and `proof`, `facts` and
  `infos` are what the code makes of them. Everything else is a consequence, so
  the rest is about the operators.
* `AllRequestsFit` and `RequestsMakeUpQuery`: `RequestsFit` and
  `ChunksMakeUpQuery`. `count_total_keys` is the number of items of a query, and
  `collect_query` undoes `flatten_query` for items in order (`CollectInverse`),
  so the items of the requests are the pieces of the items of the query between
  cuts at most `MaxKeys` apart (`RequestsCut`), and pieces make up the whole.
* `LeavesAreNotShifted`: `LeavesBelongToAddresses`, with short replies and
  reorganisations. The addresses of the requests make up those of the query
  (`AddressesMakeUp`); a reply has at most one leaf for each of its addresses,
  so if there are as many leaves as addresses no reply has one too few
  (`MergedLeaves`). It is the check of the total number that does it.
* `ProofIsWhole`: `MergedIsWhole`. What a query asks for can be read off its
  items (`AsksFor`), so the nodes of the merged replies are those of the paths
  of the whole query, storage proofs of one contract in several replies
  included (`MergedReply`).
* `FactsSound`: `FactsAreSound`: `FactsOfAProof` shows it of what
  `create_facts_db` makes of any proof.

`Iteration` holds the lemmas about loops that `OriginsStayNormal` and
`StorageTheorems` rest on. The library's induction theorems take a predicate and
cannot be used here; `Induct` is about a set of numbers instead, from the least
number that is not in it (well-foundedness of < on the naturals), and `Iterate` shows that a function
defined by recursion over 0..n exists and satisfies its equation. From these
follow the facts about `FlattenSeq` that are needed.

No run repeats the inductive invariants: each was model-checked on the
instance of its component's run (`SequentialInv` on that of
`playground_sequential`) before it was proved; what they imply is checked by
the runs.

Assumptions: the named `ASSUME`s of the modules, which TLC evaluates in every
run: bounds are numbers, requests are of one kind, `None` is none of the values
(`ConstAssumption`, `KindsAssumption`, `NoneAssumption`, `RunsAssumption`,
`FlagsAssumption`), calls are finite in number and their arguments well formed
(`PageAssumption`, `InputsAssumption`), the lists of origins of environments and
files hold origins (`EnvsAssumption`), the keys of a storage query are finite in
number and fit the height of the tries (`ConstAssumption`), the default bounds
fit their widths (`WidthAssumption`); and, where said, `OneCounter` or `Sequential = TRUE`.

Only model-checked: all liveness (`TasksEnd`, `PermitsReturn`,
`AdmittedAreAnswered`, `RunsEnd`, `CallsSettle`, `WorkersEnd`), since fairness is outside the
prover's reach. Every invariant and action property of the passing runs, and
both refinements, are stated by theorems.

## Not modelled

* Poseidon, Pedersen and the curve (external), felt parsing and formatting.
* Start-up of the server, TLS certificates, listeners and HTTP layers: I/O.
* The artifact crate's direct subprocess, its callback and a given prover URL:
  one call without state of its own; `export_pie` likewise.
* `initOriginalPathBrowserProver` and the conversions of the npm package.
* The streams of prove-block and play: the same channel as that of prove, with
  one sender; their tasks are in `Playground` and `CoinFlip`.
* `running/rpc_records.rs`: recording and replay for tests.
* The read-only routes, the web front ends, the vendored JSON library, the
  values of the counter, log and event text, the proof itself.

## Plan

1. `ServiceConfig`: that `from_args` stops with the first check that fails, for
   any arguments, and that the wildcard wins.
2. `ProvingService`: a refinement of a pipeline that serves one request on one
   block, which the checks of the virtual OS enforce.
