------------------------------ MODULE CoinFlip ------------------------------
(***************************************************************************)
(* The coin-flip game of the playground server                             *)
(* (crates/snip36-server/src/routes/coinflip.rs): deploy, commit and play. *)
(* A step is what a handler or its spawned task does between two awaits.   *)
(* The chain, the gateway, the prover process and the files it exchanges   *)
(* with the server are external and appear as the server sees them.        *)
(***************************************************************************)
EXTENDS Naturals, FiniteSets

CONSTANTS
    Deployers,    \* clients of POST /deploy; also the contracts they deploy
    Sids,         \* session ids commit can hand out (uuids)
    Plays,        \* concurrent GET /play requests
    Players,      \* wallet addresses
    Nonces,       \* nonces a player can hide a bet with
    QueryBets,    \* values of the "bet" query parameter (a u8)
    CoinOf,       \* CoinOf[<<seed, player>>]: the side the contract computes
    MaxBlock,     \* bound on the height of the chain
    HashBuffer,   \* age a block needs before proofs may refer to it
    MaxAttempts,  \* max_attempts of the submission loop (20 in the code)
    MaxOther,     \* bound on other transactions of the master account
    None          \* Option::None

ASSUME ConstAssumption ==
    /\ QueryBets \subseteq Nat
    /\ MaxBlock \in Nat /\ HashBuffer \in Nat /\ MaxOther \in Nat
    /\ MaxAttempts \in Nat \ {0}
    /\ CoinOf \in [(0..MaxBlock) \X Players -> {0, 1}]

VARIABLES
    head,         \* height of the chain
    nonceAt,      \* nonceAt[b]: the master account's nonce after block b
    others,       \* how many blocks carried another master transaction
    mempool,      \* game transactions the gateway has accepted
    mined,        \* game transactions in a block, with their fate
    coinflip,     \* AppState.coinflip: the deployed contract, or None
    dpc,          \* dpc[d]: where the request of client d stands
    addr,         \* addr[d]: the contract its response names
    commitments,  \* AppState.commitments
    issued,       \* what commit stored under each session id (history)
    pc,           \* pc[p]: where play request p stands
    sid,          \* sid[p]: its session id
    tx,           \* tx[p]: the transaction it plays
    got,          \* got[p]: what it read back from the prover's files
    attempt,      \* attempt[p]: submissions made
    files         \* files[s]: output/coinflip/{s}_tx.json and {s}.proof etc.

chainVars == <<head, nonceAt, others, mempool, mined>>
deployVars == <<coinflip, dpc, addr>>
playVars == <<pc, sid, tx, got, attempt, files>>
vars == <<chainVars, deployVars, commitments, issued, playVars>>

-----------------------------------------------------------------------------
(* Data *)

Blocks == 0..MaxBlock

\* Everything that play(seed, player, bet) signed by the master account says.
Tx == [contract : Deployers, seed : Blocks, player : Players, bet : {0, 1},
       nonce : Nat]

\* pedersen(bet, nonce), which binds both.  A client may send it in another
\* spelling (padding, upper case) than the one the server formats.
Commitment == [bet : {0, 1}, nonce : Nonces, canonical : BOOLEAN]

BetCommitment ==
    [commitment : Commitment, seed_block : Blocks, player : Players]

File == Tx \cup {None}

\* The prover reads tx.json into work, and leaves three files behind.
Files == [txJson : File, work : File, messages : File, proof : File,
          facts : File]

NoFiles == [txJson |-> None, work |-> None, messages |-> None,
            proof |-> None, facts |-> None]

Got == [messages : File, proof : File, facts : File]

NothingRead == [messages |-> None, proof |-> None, facts |-> None]

\* None is none of the values it stands beside.
ASSUME NoneAssumption ==
    /\ None \notin Deployers /\ None \notin Sids /\ None \notin Nonces
    /\ None \notin Tx /\ None \notin BetCommitment

\* Where the spawned task of a play that passed the checks can be.
TaskRunning == {"spawned", "constructed", "proving", "proved", "parsed",
                "read", "submitting", "sleeping", "verifying"}
TaskEnded == {"result", "failed", "unheard"}
PlayPcs == {"idle", "refused"} \cup TaskRunning \cup TaskEnded

Spawned(p) == pc[p] \in TaskRunning \cup TaskEnded

TypeOK ==
    /\ head \in Blocks
    /\ nonceAt \in [Blocks -> Nat]
    /\ others \in 0..MaxOther
    /\ mempool \subseteq Tx
    /\ mined \subseteq [tx : Tx, ok : BOOLEAN]
    /\ coinflip \in Deployers \cup {None}
    /\ dpc \in [Deployers -> {"idle", "declaring", "waiting", "done", "failed"}]
    /\ addr \in [Deployers -> Deployers \cup {None}]
    /\ commitments \in [Sids -> BetCommitment \cup {None}]
    /\ issued \in [Sids -> BetCommitment \cup {None}]
    /\ pc \in [Plays -> PlayPcs]
    /\ sid \in [Plays -> Sids \cup {None}]
    /\ tx \in [Plays -> File]
    /\ got \in [Plays -> Got]
    /\ attempt \in [Plays -> 0..MaxAttempts]
    /\ files \in [Sids -> Files]

Init ==
    /\ head = 0
    /\ nonceAt = [b \in Blocks |-> 0]
    /\ others = 0
    /\ mempool = {} /\ mined = {}
    /\ coinflip = None
    /\ dpc = [d \in Deployers |-> "idle"]
    /\ addr = [d \in Deployers |-> None]
    /\ commitments = [s \in Sids |-> None]
    /\ issued = [s \in Sids |-> None]
    /\ pc = [p \in Plays |-> "idle"]
    /\ sid = [p \in Plays |-> None]
    /\ tx = [p \in Plays |-> None]
    /\ got = [p \in Plays |-> NothingRead]
    /\ attempt = [p \in Plays |-> 0]
    /\ files = [s \in Sids |-> NoFiles]

-----------------------------------------------------------------------------
(* deploy_coinflip *)

DeployStep(d, from, to) ==
    /\ dpc[d] = from
    /\ dpc' = [dpc EXCEPT ![d] = to]
    /\ UNCHANGED <<chainVars, commitments, issued, playVars>>

\* An existing deployment is returned.  A client may ask again.
DeployKnown(d) ==
    /\ coinflip # None
    /\ \E from \in {"idle", "done", "failed"} : DeployStep(d, from, "done")
    /\ addr' = [addr EXCEPT ![d] = coinflip]
    /\ UNCHANGED coinflip

\* Otherwise the read lock is released before sncast is started.
DeployStart(d) ==
    /\ coinflip = None
    /\ \E from \in {"idle", "failed"} : DeployStep(d, from, "declaring")
    /\ UNCHANGED <<coinflip, addr>>

\* sncast declare and sncast deploy; the salt makes the address fresh.
DeploySend(d) ==
    /\ DeployStep(d, "declaring", "waiting")
    /\ UNCHANGED <<coinflip, addr>>

\* A declare or deploy that fails, a receipt that does not come in time.
DeployFail(d) ==
    /\ \E from \in {"declaring", "waiting"} : DeployStep(d, from, "failed")
    /\ UNCHANGED <<coinflip, addr>>

\* The write lock is taken and whatever it guards is overwritten.
DeployStore(d) ==
    /\ DeployStep(d, "waiting", "done")
    /\ coinflip' = d
    /\ addr' = [addr EXCEPT ![d] = d]

-----------------------------------------------------------------------------
(* commit_bet *)

Pred(n) == IF n = 0 THEN 0 ELSE n - 1        \* saturating_sub(1)

\* The node may answer block_number with a height it has left behind.
\* A uuid is fresh: no earlier commit was given it.
CommitBet(s, c, player) ==
    /\ issued[s] = None
    /\ \E h \in 0..head :
         LET b == [commitment |-> c, seed_block |-> Pred(h), player |-> player]
         IN  /\ issued' = [issued EXCEPT ![s] = b]
             /\ commitments' = [commitments EXCEPT ![s] = b]
    /\ UNCHANGED <<chainVars, deployVars, playVars>>

-----------------------------------------------------------------------------
(* play_coinflip: the handler *)

Clamp(bet) == IF bet > 1 THEN 1 ELSE bet     \* params.bet.min(1)

\* Mutant of Consume: the commitment is read and stays in the map.
ConsumePeek(s) == UNCHANGED commitments

\* commitments.remove(&session_id)
Consume(s) == commitments' = [commitments EXCEPT ![s] = None]

\* The checks after the commitment is consumed.  A nonce that does not
\* parse is None, which equals no nonce of a commitment.
RevealOk(c, player, bet, nonce) ==
    /\ c.player = player
    /\ c.commitment = [bet |-> bet, nonce |-> nonce, canonical |-> TRUE]

\* Mutant of PlayTx: the seed is locked when the bet is revealed.
PlayTxLateSeed(c, player, bet) ==
    [contract |-> coinflip, seed |-> Pred(head), player |-> player,
     bet |-> bet, nonce |-> 0]

\* The call the task will make; its account nonce is filled in later.
PlayTx(c, player, bet) ==
    [contract |-> coinflip, seed |-> c.seed_block, player |-> player,
     bet |-> bet, nonce |-> 0]

Refuse(p) ==
    /\ pc' = [pc EXCEPT ![p] = "refused"]
    /\ UNCHANGED <<sid, tx>>

PlayRefused(p, s) ==
    /\ pc[p] = "idle"
    /\ coinflip = None \/ commitments[s] = None
    /\ Refuse(p)
    /\ UNCHANGED <<chainVars, deployVars, commitments, issued, got, attempt, files>>

\* No await separates the look-up of the deployment from the spawn; a store
\* on another thread in between only decides which contract is named.
PlayReveal(p, s, player, qbet, nonce) ==
    LET c == commitments[s]
        bet == Clamp(qbet)
    IN  /\ pc[p] = "idle"
        /\ coinflip # None /\ c # None
        /\ Consume(s)
        /\ IF RevealOk(c, player, bet, nonce)
           THEN /\ pc' = [pc EXCEPT ![p] = "spawned"]
                /\ sid' = [sid EXCEPT ![p] = s]
                /\ tx' = [tx EXCEPT ![p] = PlayTx(c, player, bet)]
           ELSE Refuse(p)
        /\ UNCHANGED <<chainVars, deployVars, issued, got, attempt, files>>

-----------------------------------------------------------------------------
(* play_coinflip: the spawned task *)

TaskStep(p, from, to) ==
    /\ pc[p] = from
    /\ pc' = [pc EXCEPT ![p] = to]
    /\ UNCHANGED <<head, nonceAt, others, mined, deployVars, commitments, issued, sid>>

\* Mutant of PathOf: the file names do not carry the session id.
PathOfAll(s) == CHOOSE x \in Sids : TRUE

\* output/coinflip/{session_id}
PathOf(s) == s

\* Nonce at the reference block, signature, {session_id}_tx.json.
Construct(p) ==
    /\ TaskStep(p, "spawned", "constructed")
    /\ LET t == [tx[p] EXCEPT !.nonce = nonceAt[tx[p].seed]]
       IN  /\ tx' = [tx EXCEPT ![p] = t]
           /\ files' = [files EXCEPT ![PathOf(sid[p])].txJson = t]
    /\ UNCHANGED <<mempool, got, attempt>>

\* The prover is spawned and reads the transaction it is pointed at.
StartProver(p) ==
    /\ TaskStep(p, "constructed", "proving")
    /\ files' = [files EXCEPT ![PathOf(sid[p])].work = files[PathOf(sid[p])].txJson]
    /\ UNCHANGED <<mempool, tx, got, attempt>>

\* The prover exits with success, its files written.
ProverExits(p) ==
    /\ TaskStep(p, "proving", "proved")
    /\ LET f == files[PathOf(sid[p])]
       IN  files' = [files EXCEPT ![PathOf(sid[p])] =
                        [f EXCEPT !.messages = f.work, !.proof = f.work,
                                  !.facts = f.work]]
    /\ UNCHANGED <<mempool, tx, got, attempt>>

\* A missing or unreadable message file leaves the outcome empty.
ParseMessages(p) ==
    /\ TaskStep(p, "proved", "parsed")
    /\ \E m \in {files[PathOf(sid[p])].messages, None} :
         got' = [got EXCEPT ![p].messages = m]
    /\ UNCHANGED <<mempool, tx, attempt, files>>

ReadProof(p) ==
    /\ TaskStep(p, "parsed", "read")
    /\ got' = [got EXCEPT ![p].proof = files[PathOf(sid[p])].proof]
    /\ UNCHANGED <<mempool, tx, attempt, files>>

ReadFactsAndSign(p) ==
    /\ TaskStep(p, "read", "submitting")
    /\ got' = [got EXCEPT ![p].facts = files[PathOf(sid[p])].facts]
    /\ UNCHANGED <<mempool, tx, attempt, files>>

\* "too recent" or "stored block hash: 0": the reference block is too young.
TooRecent(t) == head < t.seed + HashBuffer

\* Accepted: the nonce is still free, on chain and in the mempool.
Receives(t) ==
    /\ ~TooRecent(t)
    /\ t.nonce >= nonceAt[head]
    /\ \A u \in mempool : u.nonce # t.nonce

\* Mutant of NextAttempt: the loop does not count.
NextAttemptStuck(n) == n

NextAttempt(n) == n + 1                      \* for attempt in 1..=max_attempts

SubmitAccepted(p) ==
    /\ TaskStep(p, "submitting", "verifying")
    /\ Receives(tx[p])
    /\ mempool' = mempool \cup {tx[p]}
    /\ attempt' = [attempt EXCEPT ![p] = NextAttempt(attempt[p])]
    /\ UNCHANGED <<tx, got, files>>

\* Mutant of MayRetry: one attempt too many.
MayRetryOnceMore(n) == NextAttempt(n) <= MaxAttempts

\* attempt < max_attempts, with n attempts made before this one
MayRetry(n) == NextAttempt(n) < MaxAttempts

SubmitRetry(p) ==
    /\ TaskStep(p, "submitting", "sleeping")
    /\ TooRecent(tx[p])
    /\ MayRetry(attempt[p])
    /\ attempt' = [attempt EXCEPT ![p] = NextAttempt(attempt[p])]
    /\ UNCHANGED <<mempool, tx, got, files>>

\* sleep(10s) between two attempts
SubmitAgain(p) ==
    /\ TaskStep(p, "sleeping", "submitting")
    /\ UNCHANGED <<mempool, tx, got, attempt, files>>

\* Another rejection, the last attempt, a request that fails.
SubmitRejected(p) ==
    /\ TaskStep(p, "submitting", "failed")
    /\ UNCHANGED <<mempool, tx, got, attempt, files>>

\* The gateway takes the transaction but its answer is lost or unreadable:
\* the task reports an error and the game goes on chain all the same.
SubmitReplyLost(p) ==
    /\ TaskStep(p, "submitting", "failed")
    /\ Receives(tx[p])
    /\ mempool' = mempool \cup {tx[p]}
    /\ UNCHANGED <<tx, got, attempt, files>>

\* Mutant of Confirmed: a reverted transaction counts as confirmed.
ConfirmedAnyFate(t) == \E m \in mined : m.tx = t

\* wait_for_tx sees the receipt of a transaction that succeeded.
Confirmed(t) == [tx |-> t, ok |-> TRUE] \in mined

VerifyAndReport(p) ==
    /\ TaskStep(p, "verifying", "result")
    /\ Confirmed(tx[p])
    /\ UNCHANGED <<mempool, tx, got, attempt, files>>

\* An error before the submission, a reverted transaction, a timeout.
TaskFails(p) ==
    /\ \E from \in TaskRunning \ {"submitting"} : TaskStep(p, from, "failed")
    /\ UNCHANGED <<mempool, tx, got, attempt, files>>

\* The client stays connected and reads no more: its channel of 64 events
\* is full and the task waits in send for ever.  (To a client that has gone,
\* send fails at once and the task goes on.)
ClientStops(p) ==
    /\ \E from \in TaskRunning : TaskStep(p, from, "unheard")
    /\ UNCHANGED <<mempool, tx, got, attempt, files>>

-----------------------------------------------------------------------------
(* The chain *)

\* A block carries at most one master transaction: a game, whatever its
\* fate, or one of the master account's other activities.
MineGame(t, ok) ==
    /\ head < MaxBlock
    /\ t \in mempool /\ t.nonce = nonceAt[head]
    /\ head' = head + 1
    /\ nonceAt' = [b \in Blocks |-> IF b > head THEN t.nonce + 1 ELSE nonceAt[b]]
    /\ mempool' = mempool \ {t}
    /\ mined' = mined \cup {[tx |-> t, ok |-> ok]}
    /\ UNCHANGED <<others, deployVars, commitments, issued, playVars>>

MineOther(bump) ==
    /\ head < MaxBlock
    /\ others + bump <= MaxOther
    /\ head' = head + 1
    /\ nonceAt' = [b \in Blocks |-> IF b > head THEN nonceAt[head] + bump
                                                ELSE nonceAt[b]]
    /\ others' = others + bump
    /\ UNCHANGED <<mempool, mined, deployVars, commitments, issued, playVars>>

-----------------------------------------------------------------------------
(* The specification *)

Deploy(d) == DeployKnown(d) \/ DeployStart(d) \/ DeploySend(d)
             \/ DeployFail(d) \/ DeployStore(d)

Commit == \E s \in Sids, c \in Commitment, player \in Players :
              CommitBet(s, c, player)

Play(p) ==
    \E s \in Sids :
        \/ PlayRefused(p, s)
        \/ \E player \in Players, qbet \in QueryBets, nonce \in Nonces \cup {None} :
               PlayReveal(p, s, player, qbet, nonce)

Task(p) ==
    \/ Construct(p) \/ StartProver(p) \/ ProverExits(p)
    \/ ParseMessages(p) \/ ReadProof(p) \/ ReadFactsAndSign(p)
    \/ SubmitAccepted(p) \/ SubmitRetry(p) \/ SubmitAgain(p)
    \/ SubmitRejected(p) \/ SubmitReplyLost(p)
    \/ VerifyAndReport(p) \/ TaskFails(p)

Mine == \/ \E t \in mempool, ok \in BOOLEAN : MineGame(t, ok)
        \/ \E bump \in {0, 1} : MineOther(bump)

Next ==
    \/ \E d \in Deployers : Deploy(d)
    \/ Commit
    \/ \E p \in Plays : Play(p) \/ Task(p) \/ ClientStops(p)
    \/ Mine

Spec == Init /\ [][Next]_vars

\* Where a task waits for something that has no deadline: the node's answer
\* to get_nonce (StarknetRpc sets no timeout), the exit of the prover, the
\* node's answer to a poll of wait_for_tx (its deadline is looked at between
\* two polls only).
Unlimited == {"spawned", "proving", "verifying"}

\* The tokio runtime keeps polling a task; files, the gateway's answer (120
\* seconds) and the sleep between two attempts come in bounded time.  Node,
\* prover, clients, deployments and blocks owe nothing.
Fairness == \A p \in Plays : WF_vars(Task(p) /\ pc[p] \notin Unlimited)

FairSpec == Spec /\ Fairness

-----------------------------------------------------------------------------
(* Properties *)

\* commitments.remove hands a commitment to one request: two requests that
\* got past the checks never play the same session id.
OneTaskPerCommitment ==
    \A p, q \in Plays : p # q /\ Spawned(p) /\ Spawned(q) => sid[p] # sid[q]

\* What a task plays is what was committed under its session id: player,
\* hidden bet and the seed block locked then, however late the reveal.
TaskPlaysThePledge ==
    \A p \in Plays : Spawned(p) =>
        LET c == issued[sid[p]]
        IN  /\ tx[p].player = c.player
            /\ tx[p].bet = c.commitment.bet
            /\ tx[p].seed = c.seed_block

\* The proof, facts and messages a task picks up from output/coinflip belong
\* to its own transaction, although other games run beside it and the files
\* are read one at a time.
ReadsItsOwnProof ==
    \A p \in Plays :
        /\ \A f \in {"messages", "proof", "facts"} : got[p][f] \in {None, tx[p]}
        /\ pc[p] \in {"submitting", "verifying", "result"} =>
               got[p].proof = tx[p] /\ got[p].facts = tx[p]

\* Winning side and "won" as the result event reports them.
ReportedWon(p) ==
    got[p].messages # None
    /\ CoinOf[<<got[p].messages.seed, got[p].messages.player>>] = got[p].messages.bet

\* A result event is sent only for a game that is on chain and succeeded,
\* and it reports a win only when the contract's coin fell on the committed
\* side for the committed seed.
ResultIsOnChain ==
    \A p \in Plays : pc[p] = "result" =>
        LET c == issued[sid[p]]
        IN  /\ [tx |-> tx[p], ok |-> TRUE] \in mined
            /\ ReportedWon(p) =>
                   CoinOf[<<c.seed_block, c.player>>] = c.commitment.bet

\* However often the gateway says "too recent", a spawned task ends, with a
\* result, an error or in a send to a client that does not read, or else it
\* waits for ever for the node or the prover: it never goes round for ever
\* and never waits for another task.
TasksEnd ==
    \A p \in Plays :
        pc[p] = "spawned" ~> pc[p] \in TaskEnded \/ [](pc[p] \in Unlimited)

\* deploy_coinflip is documented "one-time, idempotent": all requests that
\* succeed name the same contract.
DeployIsIdempotent ==
    \A d, e \in Deployers :
        addr[d] # None /\ addr[e] # None => addr[d] = addr[e]

-----------------------------------------------------------------------------
(* The game as CommitReveal sees it *)

PledgeOf(c) ==
    [player |-> c.player, bet |-> c.commitment.bet, seed |-> c.seed_block]

TasksOf(s) == {p \in Plays : Spawned(p) /\ sid[p] = s}

PhaseOf(s) ==
    CASE issued[s] = None -> "none"
      [] issued[s] # None /\ commitments[s] # None -> "open"
      [] OTHER -> CASE \E p \in TasksOf(s) : pc[p] = "result" -> "settled"
                    [] \E p \in TasksOf(s) : pc[p] \in TaskRunning -> "revealed"
                    [] OTHER -> "void"

SettledOf(s) ==
    IF \E p \in TasksOf(s) : pc[p] = "result"
    THEN LET t == tx[CHOOSE p \in TasksOf(s) : pc[p] = "result"]
         IN  [player |-> t.player, bet |-> t.bet, seed |-> t.seed]
    ELSE None

PledgeBar == [s \in Sids |-> IF issued[s] = None THEN None ELSE PledgeOf(issued[s])]
PhaseBar == [s \in Sids |-> PhaseOf(s)]
SettledBar == [s \in Sids |-> SettledOf(s)]

Game == INSTANCE CommitReveal
    WITH Pledges <- [player : Players, bet : {0, 1}, seed : Blocks],
         NoPledge <- None,
         pledge <- PledgeBar, phase <- PhaseBar, settled <- SettledBar

\* The handlers, files, prover and gateway together implement the abstract
\* game: every bet is revealed at most once and settled as it was pledged.
ImplementsCommitReveal == Game!Spec
=============================================================================
