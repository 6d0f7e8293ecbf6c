--------------------------- MODULE CoinFlipProofs ---------------------------
(***************************************************************************)
(* Proofs about CoinFlip, for any number of games, players, session ids    *)
(* and blocks: its types, that a commitment is played once and as pledged, *)
(* that a game reads its own proof, that a result is on chain, and that    *)
(* the handlers implement CommitReveal.                                    *)
(***************************************************************************)
EXTENDS CoinFlipInvariant, TLAPS

\* What is proved together.
Inv == TypeOK /\ GameInv

\* Nothing is issued, played or read at the start.
LEMMA GameInit == Init => Inv
<1> SUFFICES ASSUME Init PROVE Inv
  OBVIOUS
<1>1. TypeOK
  BY ConstAssumption DEF Init, TypeOK, Blocks, PlayPcs, File, Files, NoFiles, Got, NothingRead
<1>2. GameInv
  BY ConstAssumption DEF Init, GameInv, OpenAsIssued, TasksHoldSpent, OneTaskPerCommitment,
     TaskPlaysThePledge, TaskInv, InOrder, FilesAreOwn, ReadsAreOwn, ResultIsMined,
     Spawned, TaskRunning, TaskEnded, NothingRead
<1> QED
  BY <1>1, <1>2 DEF Inv

\* The seed block a commitment locks is on the chain.
LEMMA PredIsBlock ==
    ASSUME NEW h \in 0..head, head \in Blocks
    PROVE  Pred(h) \in Blocks
BY ConstAssumption DEF Pred, Blocks

\* A task that runs has its session id to itself.
LEMMA RunningTask ==
    ASSUME Inv, NEW p \in Plays, pc[p] \in TaskRunning
    PROVE  /\ Spawned(p) /\ sid[p] \in Sids /\ tx[p] \in Tx
           /\ issued[sid[p]] # None /\ commitments[sid[p]] = None
           /\ \A q \in Plays : q # p /\ Spawned(q) => sid[q] # sid[p]
BY DEF Inv, GameInv, TasksHoldSpent, OneTaskPerCommitment, Spawned

-----------------------------------------------------------------------------
(* Steps of the tasks *)

\* What a step of task p may touch: its own transaction (but not what it
\* plays), what it has read, its attempts, and the files of its session id.
Touches(p) ==
    /\ tx' \in [Plays -> File] /\ \A q \in Plays : q # p => tx'[q] = tx[q]
    /\ tx'[p] \in Tx /\ tx'[p].player = tx[p].player /\ tx'[p].bet = tx[p].bet
    /\ tx'[p].seed = tx[p].seed
    /\ got' \in [Plays -> Got] /\ \A q \in Plays : q # p => got'[q] = got[q]
    /\ attempt' \in [Plays -> 0..MaxAttempts]
    /\ \A q \in Plays : q # p => attempt'[q] = attempt[q]
    /\ files' \in [Sids -> Files] /\ \A s \in Sids : s # sid[p] => files'[s] = files[s]
    /\ mempool' \subseteq Tx

\* A step of a task that touches no more, and leaves the task in order,
\* keeps the invariant.
LEMMA TaskKeeps ==
    ASSUME Inv, NEW p \in Plays, NEW from \in TaskRunning,
           NEW to \in TaskRunning \cup TaskEnded, TaskStep(p, from, to),
           Touches(p), TaskInv(p)'
    PROVE  Inv'
<1>1. /\ pc' \in [Plays -> PlayPcs] /\ pc[p] = from /\ pc'[p] = to
      /\ \A q \in Plays : q # p => pc'[q] = pc[q]
  BY DEF TaskStep, Inv, TypeOK, PlayPcs
<1>2. Spawned(p) /\ \A q \in Plays : Spawned(q)' <=> Spawned(q)
  BY <1>1 DEF Spawned
<1>3. /\ \A q \in Plays : sid'[q] = sid[q]
      /\ UNCHANGED <<issued, commitments, mined, sid>>
  BY DEF TaskStep
<1>4. TypeOK'
  BY <1>1 DEF Inv, TypeOK, TaskStep, Touches, deployVars
<1>5. OpenAsIssued' /\ OneTaskPerCommitment'
  BY <1>2, <1>3 DEF Inv, GameInv, OpenAsIssued, OneTaskPerCommitment
<1>6. TasksHoldSpent'
  BY <1>2, <1>3 DEF Inv, GameInv, TasksHoldSpent, Touches
<1>7. TaskPlaysThePledge'
  BY <1>2, <1>3 DEF Inv, GameInv, TaskPlaysThePledge, Touches
<1>8. ASSUME NEW q \in Plays, q # p PROVE TaskInv(q)'
  <2>1. TaskInv(q) /\ pc'[q] = pc[q] /\ tx'[q] = tx[q] /\ got'[q] = got[q]
        /\ attempt'[q] = attempt[q]
    BY <1>1, <1>8 DEF Inv, GameInv, Touches
  <2>2. Spawned(q) => sid[q] \in Sids /\ sid[q] # sid[p]
    BY <1>2, <1>8 DEF Inv, GameInv, TasksHoldSpent, OneTaskPerCommitment
  <2>3. Spawned(q) => files'[sid'[q]] = files[sid[q]]
    BY <1>3, <2>2 DEF Touches
  <2>4. InOrder(q)' /\ ReadsAreOwn(q)'
    BY <2>1 DEF TaskInv, InOrder, ReadsAreOwn
  <2>5. ResultIsMined(q)'
    BY <1>3, <2>1 DEF TaskInv, ResultIsMined
  <2>6. FilesAreOwn(q)'
    BY <1>2, <2>1, <2>3 DEF TaskInv, FilesAreOwn
  <2> QED
    BY <2>4, <2>5, <2>6 DEF TaskInv
<1> QED
  BY <1>4, <1>5, <1>6, <1>7, <1>8 DEF Inv, GameInv

\* A running task in detail.
LEMMA TaskFacts ==
    ASSUME Inv, NEW p \in Plays, pc[p] \in TaskRunning
    PROVE  /\ TaskInv(p) /\ tx[p] \in Tx /\ sid[p] \in Sids /\ files[sid[p]] \in Files
           /\ got[p] \in Got /\ attempt[p] \in Nat
           /\ tx \in [Plays -> File] /\ got \in [Plays -> Got]
           /\ attempt \in [Plays -> 0..MaxAttempts] /\ files \in [Sids -> Files]
           /\ mempool \subseteq Tx
BY RunningTask DEF Inv, GameInv, TypeOK

\* The transaction is fixed, with the nonce at its seed block, and written.
LEMMA ConstructKeeps ==
    ASSUME Inv, NEW p \in Plays, Construct(p)
    PROVE  Inv'
<1> DEFINE t == [tx[p] EXCEPT !.nonce = nonceAt[tx[p].seed]]
<1>1. TaskStep(p, "spawned", "constructed") /\ "spawned" \in TaskRunning
      /\ "constructed" \in TaskRunning /\ pc[p] = "spawned"
  BY DEF Construct, TaskStep, TaskRunning
<1>2. t \in Tx /\ t.player = tx[p].player /\ t.bet = tx[p].bet /\ t.seed = tx[p].seed
  BY <1>1, TaskFacts DEF Tx, Inv, TypeOK
<1>3. /\ tx' = [tx EXCEPT ![p] = t]
      /\ files' = [files EXCEPT ![sid[p]].txJson = t]
      /\ UNCHANGED <<mempool, got, attempt>>
  BY DEF Construct, PathOf
<1>4. Touches(p) /\ files'[sid[p]].txJson = t
  BY <1>1, <1>2, <1>3, TaskFacts DEF Touches, File, Files
<1>5. pc'[p] = "constructed" /\ sid' = sid /\ tx'[p] = t
  BY <1>1, <1>3, TaskFacts DEF TaskStep, Inv, TypeOK
<1>6. got'[p] = NothingRead /\ attempt'[p] < MaxAttempts
  BY <1>1, <1>3, TaskFacts DEF TaskInv, InOrder, TaskEnded
<1>7. TaskInv(p)'
  BY <1>4, <1>5, <1>6 DEF TaskInv, InOrder, FilesAreOwn, ReadsAreOwn, ResultIsMined, NothingRead
<1> QED
  BY <1>1, <1>4, <1>7, TaskKeeps

\* The prover is pointed at the file its task has written.
LEMMA StartProverKeeps ==
    ASSUME Inv, NEW p \in Plays, StartProver(p)
    PROVE  Inv'
<1>1. TaskStep(p, "constructed", "proving") /\ "constructed" \in TaskRunning
      /\ "proving" \in TaskRunning /\ pc[p] = "constructed"
  BY DEF StartProver, TaskStep, TaskRunning
<1>2. files[sid[p]].txJson = tx[p]
  BY <1>1, RunningTask, TaskFacts DEF TaskInv, FilesAreOwn
<1>3. /\ files' = [files EXCEPT ![sid[p]].work = tx[p]]
      /\ UNCHANGED <<mempool, tx, got, attempt>>
  BY <1>2 DEF StartProver, PathOf
<1>4. Touches(p) /\ files'[sid[p]].work = tx[p]
  BY <1>1, <1>3, TaskFacts DEF Touches, File, Files
<1>5. pc'[p] = "proving" /\ sid' = sid
  BY <1>1, TaskFacts DEF TaskStep, Inv, TypeOK
<1>6. got'[p] = NothingRead /\ attempt'[p] < MaxAttempts
  BY <1>1, <1>3, TaskFacts DEF TaskInv, InOrder, TaskEnded
<1>7. TaskInv(p)'
  BY <1>3, <1>4, <1>5, <1>6 DEF TaskInv, InOrder, FilesAreOwn, ReadsAreOwn, ResultIsMined,
     NothingRead
<1> QED
  BY <1>1, <1>4, <1>7, TaskKeeps

\* What the prover leaves behind is made of the transaction it has read.
LEMMA ProverExitsKeeps ==
    ASSUME Inv, NEW p \in Plays, ProverExits(p)
    PROVE  Inv'
<1>1. TaskStep(p, "proving", "proved") /\ "proving" \in TaskRunning
      /\ "proved" \in TaskRunning /\ pc[p] = "proving"
  BY DEF ProverExits, TaskStep, TaskRunning
<1>2. files[sid[p]].work = tx[p]
  BY <1>1, RunningTask, TaskFacts DEF TaskInv, FilesAreOwn
<1>3. /\ files' = [files EXCEPT ![sid[p]] = [files[sid[p]] EXCEPT
                      !.messages = tx[p], !.proof = tx[p], !.facts = tx[p]]]
      /\ UNCHANGED <<mempool, tx, got, attempt>>
  BY <1>2 DEF ProverExits, PathOf
<1>4. /\ Touches(p)
      /\ files'[sid[p]].messages = tx[p] /\ files'[sid[p]].proof = tx[p]
      /\ files'[sid[p]].facts = tx[p]
  BY <1>1, <1>3, TaskFacts DEF Touches, File, Files
<1>5. pc'[p] = "proved" /\ sid' = sid
  BY <1>1, TaskFacts DEF TaskStep, Inv, TypeOK
<1>6. got'[p] = NothingRead /\ attempt'[p] < MaxAttempts
  BY <1>1, <1>3, TaskFacts DEF TaskInv, InOrder, TaskEnded
<1>7. TaskInv(p)'
  BY <1>3, <1>4, <1>5, <1>6 DEF TaskInv, InOrder, FilesAreOwn, ReadsAreOwn, ResultIsMined,
     NothingRead
<1> QED
  BY <1>1, <1>4, <1>7, TaskKeeps

\* The files are read one at a time; each is the task's own.
LEMMA ReadKeeps ==
    ASSUME Inv, NEW p \in Plays, ParseMessages(p) \/ ReadProof(p) \/ ReadFactsAndSign(p)
    PROVE  Inv'
<1> DEFINE f == files[sid[p]]
<1>1. pc[p] \in {"proved", "parsed", "read"} /\ pc[p] \in TaskRunning
  BY DEF ParseMessages, ReadProof, ReadFactsAndSign, TaskStep, TaskRunning
<1>2. f.messages = tx[p] /\ f.proof = tx[p] /\ f.facts = tx[p]
  BY <1>1, RunningTask, TaskFacts DEF TaskInv, FilesAreOwn
<1>3. UNCHANGED <<mempool, tx, attempt, files>>
  BY DEF ParseMessages, ReadProof, ReadFactsAndSign
<1>4. attempt[p] < MaxAttempts
  BY <1>1, TaskFacts DEF TaskInv, InOrder, TaskEnded
<1>5. ASSUME NEW from \in TaskRunning, NEW to \in {"parsed", "read", "submitting"},
             TaskStep(p, from, to), NEW g \in Got, got' = [got EXCEPT ![p] = g],
             g.messages \in {None, tx[p]}, g.proof \in {None, tx[p]}, g.facts \in {None, tx[p]},
             to \in {"read", "submitting"} => g.proof = tx[p],
             to = "submitting" => g.facts = tx[p]
      PROVE  Inv'
  <2>1. Touches(p)
    BY <1>1, <1>3, <1>5, TaskFacts DEF Touches
  <2>2. pc'[p] = to /\ sid' = sid /\ got'[p] = g
    BY <1>1, <1>5, TaskFacts DEF TaskStep, Inv, TypeOK
  <2>3. TaskInv(p)'
    BY <1>2, <1>3, <1>4, <1>5, <2>2 DEF TaskInv, InOrder, FilesAreOwn, ReadsAreOwn,
       ResultIsMined
  <2>4. to \in TaskRunning
    BY DEF TaskRunning
  <2> QED
    BY <1>5, <2>1, <2>3, <2>4, TaskKeeps
<1>6. got[p] \in Got /\ None \in File /\ tx[p] \in File
  BY <1>1, TaskFacts DEF File
<1>7. CASE ParseMessages(p)
  <2>1. PICK m \in {f.messages, None} : got' = [got EXCEPT ![p].messages = m]
    BY <1>7 DEF ParseMessages, PathOf
  <2>2. m \in {None, tx[p]} /\ pc[p] = "proved"
    BY <1>2, <1>7 DEF ParseMessages, TaskStep
  <2>3. got[p] = NothingRead
    BY <1>1, <2>2, TaskFacts DEF TaskInv, InOrder
  <2>4. got' = [got EXCEPT ![p] = [messages |-> m, proof |-> None, facts |-> None]]
    <3>1. [NothingRead EXCEPT !.messages = m] = [messages |-> m, proof |-> None, facts |-> None]
      BY DEF NothingRead
    <3>2. got' = [got EXCEPT ![p] = [got[p] EXCEPT !.messages = m]]
      BY <2>1
    <3> QED
      BY <2>3, <3>1, <3>2
  <2>5. [messages |-> m, proof |-> None, facts |-> None] \in Got
    BY <1>6, <2>2 DEF Got
  <2> QED
    BY <1>5, <1>7, <2>2, <2>4, <2>5 DEF ParseMessages, TaskRunning
<1>8. CASE ReadProof(p)
  <2>1. got' = [got EXCEPT ![p] = [got[p] EXCEPT !.proof = tx[p]]]
    BY <1>2, <1>8 DEF ReadProof, PathOf
  <2>2. ReadsAreOwn(p) /\ [got[p] EXCEPT !.proof = tx[p]] \in Got
    BY <1>1, <1>6, TaskFacts DEF TaskInv, Got
  <2> QED
    BY <1>5, <1>6, <1>8, <2>1, <2>2 DEF ReadProof, TaskRunning, ReadsAreOwn, Got
<1>9. CASE ReadFactsAndSign(p)
  <2>1. got' = [got EXCEPT ![p] = [got[p] EXCEPT !.facts = tx[p]]] /\ pc[p] = "read"
    BY <1>2, <1>9 DEF ReadFactsAndSign, PathOf, TaskStep
  <2>2. ReadsAreOwn(p) /\ [got[p] EXCEPT !.facts = tx[p]] \in Got
    BY <1>1, <1>6, TaskFacts DEF TaskInv, Got
  <2> QED
    BY <1>5, <1>6, <1>9, <2>1, <2>2 DEF ReadFactsAndSign, TaskRunning, ReadsAreOwn, Got
<1> QED
  BY <1>7, <1>8, <1>9

\* After that a task only counts, waits and ends.
LEMMA QuietKeeps ==
    ASSUME Inv, NEW p \in Plays, NEW from \in TaskRunning,
           NEW to \in {"submitting", "sleeping", "verifying", "result", "failed", "unheard"},
           TaskStep(p, from, to), UNCHANGED <<tx, got, files>>, mempool' \subseteq Tx,
           NEW n \in 0..MaxAttempts, attempt' = [attempt EXCEPT ![p] = n],
           to \in {"submitting", "sleeping"} => n < MaxAttempts,
           to \notin {"failed", "unheard"} => from \in {"submitting", "sleeping", "verifying"},
           to = "result" => Confirmed(tx[p])
    PROVE  Inv'
<1>1. pc[p] = from /\ pc[p] \in TaskRunning /\ to \in TaskRunning \cup TaskEnded
  BY DEF TaskStep, TaskRunning, TaskEnded
<1>2. Touches(p) /\ attempt'[p] = n
  BY <1>1, TaskFacts DEF Touches
<1>3. pc'[p] = to /\ sid' = sid /\ mined' = mined
  BY <1>1, TaskFacts DEF TaskStep, Inv, TypeOK
<1>4. ReadsAreOwn(p)'
  BY <1>1, <1>3, TaskFacts DEF TaskInv, ReadsAreOwn
<1>5. InOrder(p)' /\ FilesAreOwn(p)'
  BY <1>2, <1>3 DEF InOrder, FilesAreOwn, TaskEnded
<1>6. ResultIsMined(p)'
  BY <1>3 DEF ResultIsMined, Confirmed
<1> QED
  BY <1>1, <1>2, <1>4, <1>5, <1>6, TaskKeeps DEF TaskInv

\* Submission, its retries and its failures.
LEMMA SubmitKeeps ==
    ASSUME Inv, NEW p \in Plays,
           \/ SubmitAccepted(p) \/ SubmitRetry(p) \/ SubmitAgain(p)
           \/ SubmitRejected(p) \/ SubmitReplyLost(p)
    PROVE  Inv'
<1>1. pc[p] \in {"submitting", "sleeping"} /\ pc[p] \in TaskRunning
      /\ UNCHANGED <<tx, got, files>>
  BY DEF SubmitAccepted, SubmitRetry, SubmitAgain, SubmitRejected, SubmitReplyLost, TaskStep,
     TaskRunning
<1>2. /\ attempt[p] \in 0..MaxAttempts /\ attempt[p] < MaxAttempts
      /\ attempt[p] + 1 \in 0..MaxAttempts
      /\ attempt = [attempt EXCEPT ![p] = attempt[p]]
      /\ mempool \subseteq Tx /\ mempool \cup {tx[p]} \subseteq Tx
  BY <1>1, TaskFacts, ConstAssumption DEF TaskInv, InOrder, TaskEnded
<1>3. {"submitting", "sleeping", "verifying"} \subseteq TaskRunning
  BY DEF TaskRunning
<1>4. CASE SubmitAccepted(p)
  BY <1>1, <1>2, <1>3, <1>4, QuietKeeps DEF SubmitAccepted, NextAttempt
<1>5. CASE SubmitRetry(p)
  BY <1>1, <1>2, <1>3, <1>5, QuietKeeps DEF SubmitRetry, MayRetry, NextAttempt
<1>6. CASE SubmitAgain(p)
  BY <1>1, <1>2, <1>3, <1>6, QuietKeeps DEF SubmitAgain
<1>7. CASE SubmitRejected(p)
  BY <1>1, <1>2, <1>3, <1>7, QuietKeeps DEF SubmitRejected
<1>8. CASE SubmitReplyLost(p)
  BY <1>1, <1>2, <1>3, <1>8, QuietKeeps DEF SubmitReplyLost
<1> QED
  BY <1>4, <1>5, <1>6, <1>7, <1>8

\* The end of a task.
LEMMA EndKeeps ==
    ASSUME Inv, NEW p \in Plays, VerifyAndReport(p) \/ TaskFails(p) \/ ClientStops(p)
    PROVE  Inv'
<1>1. PICK from \in TaskRunning, to \in {"result", "failed", "unheard"} :
          /\ TaskStep(p, from, to)
          /\ to = "result" => from = "verifying" /\ Confirmed(tx[p])
  BY DEF VerifyAndReport, TaskFails, ClientStops, TaskRunning, TaskEnded
<1>2. UNCHANGED <<mempool, tx, got, attempt, files>>
  BY DEF VerifyAndReport, TaskFails, ClientStops
<1>3. /\ attempt[p] \in 0..MaxAttempts /\ mempool \subseteq Tx
      /\ attempt = [attempt EXCEPT ![p] = attempt[p]]
  BY DEF Inv, TypeOK
<1> QED
  BY <1>1, <1>2, <1>3, QuietKeeps

\* Every step of a task.
LEMMA TaskStepKeeps == ASSUME Inv, NEW p \in Plays, Task(p) PROVE Inv'
BY ConstructKeeps, StartProverKeeps, ProverExitsKeeps, ReadKeeps, SubmitKeeps, EndKeeps
   DEF Task

-----------------------------------------------------------------------------
(* Steps of the handlers and of the chain *)

\* Requests to deploy do not touch the game.
LEMMA DeployKeeps ==
    ASSUME Inv, NEW d \in Deployers, Deploy(d)
    PROVE  Inv'
<1>1. UNCHANGED <<chainVars, commitments, issued, playVars>>
  BY DEF Deploy, DeployKnown, DeployStart, DeploySend, DeployFail, DeployStore, DeployStep
<1>2. /\ coinflip' \in Deployers \cup {None}
      /\ dpc' \in [Deployers -> {"idle", "declaring", "waiting", "done", "failed"}]
      /\ addr' \in [Deployers -> Deployers \cup {None}]
  BY DEF Inv, TypeOK, Deploy, DeployKnown, DeployStart, DeploySend, DeployFail, DeployStore,
     DeployStep
<1>3. TypeOK'
  BY <1>1, <1>2 DEF Inv, TypeOK, chainVars, playVars
<1>4. GameInv'
  BY <1>1 DEF Inv, GameInv, OpenAsIssued, TasksHoldSpent, OneTaskPerCommitment,
     TaskPlaysThePledge, TaskInv, InOrder, FilesAreOwn, ReadsAreOwn, ResultIsMined, Spawned,
     chainVars, playVars
<1> QED
  BY <1>3, <1>4 DEF Inv

\* A commit uses a session id nobody has.
LEMMA CommitKeeps ==
    ASSUME Inv, NEW s \in Sids, NEW c \in Commitment, NEW player \in Players,
           CommitBet(s, c, player)
    PROVE  Inv'
<1>1. PICK h \in 0..head :
          LET b == [commitment |-> c, seed_block |-> Pred(h), player |-> player]
          IN  /\ issued' = [issued EXCEPT ![s] = b]
              /\ commitments' = [commitments EXCEPT ![s] = b]
  BY DEF CommitBet
<1> DEFINE b == [commitment |-> c, seed_block |-> Pred(h), player |-> player]
<1>2. b \in BetCommitment /\ b # None
  BY PredIsBlock, NoneAssumption DEF BetCommitment, Inv, TypeOK
<1>3. issued[s] = None /\ UNCHANGED <<chainVars, deployVars, playVars>>
  BY DEF CommitBet
<1>4. TypeOK'
  BY <1>1, <1>2, <1>3 DEF Inv, TypeOK, chainVars, deployVars, playVars
<1>5. \A r \in Sids : IF r = s THEN issued'[r] = b /\ commitments'[r] = b
                      ELSE issued'[r] = issued[r] /\ commitments'[r] = commitments[r]
  BY <1>1 DEF Inv, TypeOK
<1>6. /\ \A p \in Plays : Spawned(p)' <=> Spawned(p)
      /\ \A p \in Plays : Spawned(p) => sid[p] \in Sids /\ sid[p] # s
  BY <1>3 DEF Inv, GameInv, TasksHoldSpent, Spawned, playVars
<1>7. OpenAsIssued'
  BY <1>2, <1>5 DEF Inv, GameInv, OpenAsIssued
<1>8. TasksHoldSpent' /\ OneTaskPerCommitment' /\ TaskPlaysThePledge'
  BY <1>3, <1>5, <1>6 DEF Inv, GameInv, TasksHoldSpent, OneTaskPerCommitment,
     TaskPlaysThePledge, playVars
<1>9. ASSUME NEW p \in Plays PROVE TaskInv(p)'
  BY <1>3 DEF Inv, GameInv, TaskInv, InOrder, FilesAreOwn, ReadsAreOwn, ResultIsMined, Spawned,
     playVars, chainVars
<1> QED
  BY <1>4, <1>7, <1>8, <1>9 DEF Inv, GameInv

\* What a request that got no task leaves behind.
LEMMA RefusalKeeps ==
    ASSUME Inv, NEW p \in Plays, pc[p] = "idle", Refuse(p),
           UNCHANGED <<chainVars, deployVars, issued, got, attempt, files>>,
           NEW s \in Sids, Consume(s) \/ UNCHANGED commitments
    PROVE  Inv'
<1>1. /\ pc' \in [Plays -> PlayPcs] /\ pc'[p] = "refused"
      /\ \A q \in Plays : q # p => pc'[q] = pc[q]
  BY DEF Inv, TypeOK, Refuse, PlayPcs
<1>2. \A q \in Plays : Spawned(q)' <=> Spawned(q)
  BY <1>1 DEF Spawned, TaskRunning, TaskEnded
<1>3. /\ commitments' \in [Sids -> BetCommitment \cup {None}]
      /\ \A r \in Sids : commitments'[r] \in {None, commitments[r]}
  BY DEF Inv, TypeOK, Consume
<1>4. TypeOK'
  BY <1>1, <1>3 DEF Inv, TypeOK, Refuse, chainVars, deployVars
<1>5. OpenAsIssued' /\ TasksHoldSpent' /\ OneTaskPerCommitment' /\ TaskPlaysThePledge'
  BY <1>2, <1>3 DEF Inv, GameInv, OpenAsIssued, TasksHoldSpent, OneTaskPerCommitment,
     TaskPlaysThePledge, Refuse
<1>6. ASSUME NEW q \in Plays PROVE TaskInv(q)'
  <2>1. TaskInv(q) /\ (q = p \/ pc'[q] = pc[q])
    BY <1>1 DEF Inv, GameInv
  <2>2. UNCHANGED <<sid, tx, got, attempt, files, mined>>
    BY DEF Refuse, chainVars
  <2> QED
    BY <1>1, <1>2, <2>1, <2>2 DEF TaskInv, InOrder, FilesAreOwn, ReadsAreOwn, ResultIsMined,
       TaskEnded
<1> QED
  BY <1>4, <1>5, <1>6 DEF Inv, GameInv

\* The bet a request names is a side of the coin.
LEMMA ClampIsSide == ASSUME NEW b \in QueryBets PROVE Clamp(b) \in {0, 1}
BY ConstAssumption DEF Clamp

\* A reveal that passes the checks takes the commitment out of the map and
\* plays what it says.
LEMMA RevealKeeps ==
    ASSUME Inv, NEW p \in Plays, NEW s \in Sids, NEW player \in Players,
           NEW qbet \in QueryBets, NEW nonce,
           PlayReveal(p, s, player, qbet, nonce)
    PROVE  Inv'
<1> DEFINE c == commitments[s]
           bet == Clamp(qbet)
           t == PlayTx(c, player, bet)
<1>1. /\ pc[p] = "idle" /\ coinflip # None /\ c # None /\ Consume(s)
      /\ UNCHANGED <<chainVars, deployVars, issued, got, attempt, files>>
  BY DEF PlayReveal
<1>2. CASE Refuse(p)
  BY <1>1, <1>2, RefusalKeeps
<1>3. CASE /\ RevealOk(c, player, bet, nonce)
           /\ pc' = [pc EXCEPT ![p] = "spawned"] /\ sid' = [sid EXCEPT ![p] = s]
           /\ tx' = [tx EXCEPT ![p] = t]
  <2>1. /\ c \in BetCommitment /\ c = issued[s] /\ coinflip \in Deployers /\ issued[s] # None
    BY <1>1 DEF Inv, TypeOK, GameInv, OpenAsIssued
  <2>2. /\ t \in Tx /\ t.player = c.player /\ t.bet = c.commitment.bet /\ t.seed = c.seed_block
    BY <1>3, <2>1, ClampIsSide DEF PlayTx, Tx, RevealOk, BetCommitment
  <2>3. /\ pc' \in [Plays -> PlayPcs] /\ pc'[p] = "spawned"
        /\ sid' \in [Plays -> Sids \cup {None}] /\ sid'[p] = s
        /\ tx' \in [Plays -> File] /\ tx'[p] = t
        /\ \A q \in Plays : q # p => pc'[q] = pc[q] /\ sid'[q] = sid[q] /\ tx'[q] = tx[q]
    BY <1>3, <2>2 DEF Inv, TypeOK, PlayPcs, TaskRunning, File
  <2>4. /\ commitments' \in [Sids -> BetCommitment \cup {None}] /\ commitments'[s] = None
        /\ \A r \in Sids : r # s => commitments'[r] = commitments[r]
    BY <1>1 DEF Inv, TypeOK, Consume
  <2>5. TypeOK'
    BY <1>1, <2>3, <2>4 DEF Inv, TypeOK, chainVars, deployVars
  <2>6. /\ Spawned(p)' /\ \A q \in Plays : q # p => (Spawned(q)' <=> Spawned(q))
        /\ \A q \in Plays : Spawned(q) => sid[q] \in Sids /\ sid[q] # s
    BY <1>1, <2>3 DEF Inv, GameInv, TasksHoldSpent, Spawned, TaskRunning
  <2>7. OpenAsIssued'
    BY <1>1, <2>4 DEF Inv, GameInv, OpenAsIssued
  <2>8. TasksHoldSpent'
    BY <1>1, <2>1, <2>2, <2>3, <2>4, <2>6 DEF Inv, GameInv, TasksHoldSpent
  <2>9. OneTaskPerCommitment'
    BY <2>3, <2>6 DEF Inv, GameInv, OneTaskPerCommitment
  <2>10. TaskPlaysThePledge'
    BY <1>1, <2>1, <2>2, <2>3, <2>6 DEF Inv, GameInv, TaskPlaysThePledge
  <2>11. got[p] = NothingRead /\ attempt[p] < MaxAttempts
    BY <1>1 DEF Inv, GameInv, TaskInv, InOrder, TaskEnded
  <2>12. TaskInv(p)'
    BY <1>1, <2>3, <2>11 DEF TaskInv, InOrder, FilesAreOwn, ReadsAreOwn, ResultIsMined,
       NothingRead
  <2>13. ASSUME NEW q \in Plays, q # p PROVE TaskInv(q)'
    <3>1. TaskInv(q)
      BY DEF Inv, GameInv
    <3> QED
      BY <1>1, <2>3, <2>6, <2>13, <3>1 DEF TaskInv, InOrder, FilesAreOwn, ReadsAreOwn,
         ResultIsMined, chainVars
  <2> QED
    BY <2>5, <2>7, <2>8, <2>9, <2>10, <2>12, <2>13 DEF Inv, GameInv
<1> QED
  BY <1>2, <1>3 DEF PlayReveal

\* Blocks are added; what is mined stays mined.
LEMMA MineKeeps == ASSUME Inv, Mine PROVE Inv'
<1>1. UNCHANGED <<deployVars, commitments, issued, playVars>> /\ mined \subseteq mined'
  BY DEF Mine, MineGame, MineOther
<1>2. head' \in Blocks /\ others' \in 0..MaxOther /\ mempool' \subseteq Tx
      /\ mined' \subseteq [tx : Tx, ok : BOOLEAN]
  BY ConstAssumption, SMTT(20) DEF Inv, TypeOK, Mine, MineGame, MineOther, Blocks
<1>3. nonceAt' \in [Blocks -> Nat]
  <2>1. ASSUME NEW n \in Nat, nonceAt' = [b \in Blocks |-> IF b > head THEN n ELSE nonceAt[b]]
        PROVE  nonceAt' \in [Blocks -> Nat]
    BY <2>1 DEF Inv, TypeOK
  <2>2. ASSUME NEW t \in mempool, NEW ok \in BOOLEAN, MineGame(t, ok)
        PROVE  nonceAt' \in [Blocks -> Nat]
    BY <2>1, <2>2 DEF MineGame, Inv, TypeOK, Tx
  <2>3. ASSUME NEW bump \in {0, 1}, MineOther(bump)
        PROVE  nonceAt' \in [Blocks -> Nat]
    BY <2>1, <2>3 DEF MineOther, Inv, TypeOK
  <2> QED
    BY <2>2, <2>3 DEF Mine
<1>4. TypeOK'
  BY <1>1, <1>2, <1>3 DEF Inv, TypeOK, deployVars, playVars
<1>5. GameInv'
  BY <1>1 DEF Inv, GameInv, OpenAsIssued, TasksHoldSpent, OneTaskPerCommitment,
     TaskPlaysThePledge, TaskInv, InOrder, FilesAreOwn, ReadsAreOwn, ResultIsMined, Spawned,
     playVars
<1> QED
  BY <1>4, <1>5 DEF Inv

-----------------------------------------------------------------------------
(* The invariant and what follows from it *)

\* Every request to play.
LEMMA PlayKeeps == ASSUME Inv, NEW p \in Plays, Play(p) PROVE Inv'
<1>1. ASSUME NEW s \in Sids, PlayRefused(p, s) PROVE Inv'
  BY <1>1, RefusalKeeps DEF PlayRefused
<1> QED
  BY <1>1, RevealKeeps DEF Play

\* The invariant holds in every state of every behaviour of the game.
THEOREM GameInvariant == Spec => []Inv
<1>1. Inv /\ [Next]_vars => Inv'
  <2> SUFFICES ASSUME Inv, [Next]_vars PROVE Inv'
    OBVIOUS
  <2>1. CASE UNCHANGED vars
    BY <2>1 DEF Inv, TypeOK, GameInv, OpenAsIssued, TasksHoldSpent, OneTaskPerCommitment,
       TaskPlaysThePledge, TaskInv, InOrder, FilesAreOwn, ReadsAreOwn, ResultIsMined, Spawned,
       vars, chainVars, deployVars, playVars
  <2> QED
    BY <2>1, DeployKeeps, CommitKeeps, PlayKeeps, TaskStepKeeps, EndKeeps, MineKeeps
       DEF Next, Commit
<1> QED
  BY <1>1, GameInit, PTL DEF Spec

\* The state of the game keeps its types; no task submits more often than
\* max_attempts allows.
THEOREM GameTypeCorrect == Spec => []TypeOK
<1>1. Inv => TypeOK
  BY DEF Inv
<1> QED
  BY <1>1, GameInvariant, PTL

\* commitments.remove lets one request play a commitment, however many
\* reveal it.
THEOREM CommitmentsArePlayedOnce == Spec => []OneTaskPerCommitment
<1>1. Inv => OneTaskPerCommitment
  BY DEF Inv, GameInv
<1> QED
  BY <1>1, GameInvariant, PTL

\* A task plays the player, bet and seed block locked at commit.
THEOREM PledgesAreKept == Spec => []TaskPlaysThePledge
<1>1. Inv => TaskPlaysThePledge
  BY DEF Inv, GameInv
<1> QED
  BY <1>1, GameInvariant, PTL

\* However many games share output/coinflip, a task reads back what its own
\* prover wrote.
THEOREM ProofsAreOwn == Spec => []ReadsItsOwnProof
<1>1. Inv => ReadsItsOwnProof
  BY DEF Inv, GameInv, TaskInv, ReadsAreOwn, ReadsItsOwnProof
<1> QED
  BY <1>1, GameInvariant, PTL

\* A result is on chain, and a reported win is one of the committed bet.
THEOREM ResultsAreOnChain == Spec => []ResultIsOnChain
<1>1. ASSUME Inv PROVE ResultIsOnChain
  <2> SUFFICES ASSUME NEW p \in Plays, pc[p] = "result"
               PROVE  /\ [tx |-> tx[p], ok |-> TRUE] \in mined
                      /\ ReportedWon(p) =>
                           CoinOf[<<issued[sid[p]].seed_block, issued[sid[p]].player>>]
                             = issued[sid[p]].commitment.bet
    BY DEF ResultIsOnChain
  <2>1. Spawned(p) /\ TaskInv(p)
    BY <1>1 DEF Inv, GameInv, Spawned, TaskEnded
  <2>2. /\ tx[p].player = issued[sid[p]].player
        /\ tx[p].bet = issued[sid[p]].commitment.bet
        /\ tx[p].seed = issued[sid[p]].seed_block
    BY <1>1, <2>1 DEF Inv, GameInv, TaskPlaysThePledge
  <2> QED
    BY <2>1, <2>2 DEF TaskInv, ResultIsMined, ReadsAreOwn, ReportedWon
<1> QED
  BY <1>1, GameInvariant, PTL

-----------------------------------------------------------------------------
(* The game implements CommitReveal *)

\* A session id that was never revealed has no task, one with a task has
\* only that one.
LEMMA TasksOfSid ==
    ASSUME Inv, NEW s \in Sids
    PROVE  /\ commitments[s] # None \/ issued[s] = None => TasksOf(s) = {}
           /\ \A p \in Plays : Spawned(p) /\ sid[p] = s => TasksOf(s) = {p}
BY DEF Inv, GameInv, TasksHoldSpent, OneTaskPerCommitment, TasksOf

\* Where a bet stands, read off its commitment and its task.
LEMMA PhaseFacts ==
    ASSUME NEW s \in Sids
    PROVE  /\ issued[s] = None => PhaseOf(s) = "none"
           /\ issued[s] # None /\ commitments[s] # None => PhaseOf(s) = "open"
           /\ issued[s] # None /\ commitments[s] = None /\ TasksOf(s) = {} =>
                  PhaseOf(s) = "void"
           /\ TasksOf(s) = {} => SettledOf(s) = None
           /\ \A p \in Plays :
                issued[s] # None /\ commitments[s] = None /\ TasksOf(s) = {p} =>
                    /\ pc[p] \in TaskRunning => PhaseOf(s) = "revealed" /\ SettledOf(s) = None
                    /\ pc[p] = "failed" => PhaseOf(s) = "void" /\ SettledOf(s) = None
                    /\ pc[p] = "result" => /\ PhaseOf(s) = "settled"
                                           /\ SettledOf(s) = [player |-> tx[p].player,
                                                 bet |-> tx[p].bet, seed |-> tx[p].seed]
BY DEF PhaseOf, SettledOf, TaskRunning

\* A bet whose commitment and task did not change stands where it stood.
LEMMA BetUntouched ==
    ASSUME NEW s \in Sids, issued'[s] = issued[s], commitments'[s] = commitments[s],
           TasksOf(s)' = TasksOf(s),
           \A p \in TasksOf(s) : pc'[p] = pc[p] /\ tx'[p] = tx[p]
    PROVE  /\ PledgeBar'[s] = PledgeBar[s] /\ PhaseBar'[s] = PhaseBar[s]
           /\ SettledBar'[s] = SettledBar[s]
<1>1. PhaseOf(s)' = PhaseOf(s)
  BY DEF PhaseOf
<1>2. SettledOf(s)' = SettledOf(s)
  BY DEF SettledOf
<1> QED
  BY <1>1, <1>2 DEF PledgeBar, PhaseBar, SettledBar

\* The bet of s is untouched by the step.
Still(s) ==
    /\ PledgeBar'[s] = PledgeBar[s] /\ PhaseBar'[s] = PhaseBar[s]
    /\ SettledBar'[s] = SettledBar[s]

\* A step that moves only the bet of s, as one action of CommitReveal does.
LEMMA BetMoves ==
    ASSUME NEW s \in Sids, \A r \in Sids : r # s => Still(r)
    PROVE  /\ PledgeBar' = [PledgeBar EXCEPT ![s] = PledgeBar'[s]]
           /\ PhaseBar' = [PhaseBar EXCEPT ![s] = PhaseBar'[s]]
           /\ SettledBar' = [SettledBar EXCEPT ![s] = SettledBar'[s]]
BY DEF Still, PledgeBar, PhaseBar, SettledBar

\* A step that moves no bet.
LEMMA NoBetMoves ==
    ASSUME \A r \in Sids : Still(r)
    PROVE  UNCHANGED <<PledgeBar, PhaseBar, SettledBar>>
BY DEF Still, PledgeBar, PhaseBar, SettledBar

\* Committing opens the bet with its pledge.
LEMMA CommitIsCommit ==
    ASSUME Inv, Inv', NEW s \in Sids, NEW c \in Commitment, NEW player \in Players,
           CommitBet(s, c, player)
    PROVE  Game!Next
<1>1. PICK h \in 0..head :
          LET b == [commitment |-> c, seed_block |-> Pred(h), player |-> player]
          IN  /\ issued' = [issued EXCEPT ![s] = b]
              /\ commitments' = [commitments EXCEPT ![s] = b]
  BY DEF CommitBet
<1> DEFINE b == [commitment |-> c, seed_block |-> Pred(h), player |-> player]
<1>2. b \in BetCommitment /\ b # None
  BY PredIsBlock, NoneAssumption DEF BetCommitment, Inv, TypeOK
<1>3. issued[s] = None /\ UNCHANGED <<pc, sid, tx>>
  BY DEF CommitBet, playVars
<1>4. \A r \in Sids : TasksOf(r)' = TasksOf(r)
  BY <1>3 DEF TasksOf, Spawned
<1>5. \A r \in Sids : r # s => issued'[r] = issued[r] /\ commitments'[r] = commitments[r]
  BY <1>1 DEF Inv, TypeOK
<1>6. \A r \in Sids : r # s => Still(r)
  BY <1>3, <1>4, <1>5, BetUntouched DEF Still
<1>7. issued'[s] = b /\ commitments'[s] = b
  BY <1>1 DEF Inv, TypeOK
<1>8. TasksOf(s) = {} /\ TasksOf(s)' = {}
  BY <1>3, <1>4, TasksOfSid
<1>9. PhaseOf(s) = "none" /\ SettledOf(s) = None
  BY <1>3, <1>8, PhaseFacts
<1>10. PhaseOf(s)' = "open"
  BY <1>2, <1>7 DEF PhaseOf
<1>11. SettledOf(s)' = None
  BY <1>8 DEF SettledOf
<1>12. /\ PhaseBar[s] = "none" /\ PhaseBar'[s] = "open" /\ SettledBar'[s] = SettledBar[s]
       /\ PledgeBar'[s] = PledgeOf(b)
  BY <1>2, <1>7, <1>9, <1>10, <1>11 DEF PhaseBar, SettledBar, PledgeBar
<1>13. SettledBar' = SettledBar
  BY <1>6, <1>12 DEF Still, SettledBar
<1>14. PledgeOf(b) \in [player : Players, bet : {0, 1}, seed : Blocks]
  BY <1>2 DEF PledgeOf, BetCommitment, Commitment
<1>15. Game!Commit(s, PledgeOf(b))
  BY <1>6, <1>12, <1>13, BetMoves DEF Game!Commit
<1> QED
  BY <1>14, <1>15 DEF Game!Next

\* A request that is turned down before it consumes a commitment moves no
\* bet.
LEMMA RefusalIsSilent ==
    ASSUME Inv, NEW p \in Plays, NEW s \in Sids, PlayRefused(p, s)
    PROVE  UNCHANGED <<PledgeBar, PhaseBar, SettledBar>>
<1>1. /\ pc[p] = "idle" /\ pc'[p] = "refused" /\ \A q \in Plays : q # p => pc'[q] = pc[q]
      /\ UNCHANGED <<sid, tx, issued, commitments>>
  BY DEF PlayRefused, Refuse, Inv, TypeOK
<1>2. \A r \in Sids : TasksOf(r)' = TasksOf(r) /\ p \notin TasksOf(r)
  BY <1>1 DEF TasksOf, Spawned, TaskRunning, TaskEnded
<1>3. \A r \in Sids : \A q \in TasksOf(r) : pc'[q] = pc[q] /\ tx'[q] = tx[q]
  BY <1>1, <1>2 DEF TasksOf
<1>4. \A r \in Sids : Still(r)
  BY <1>1, <1>2, <1>3, BetUntouched DEF Still
<1> QED
  BY <1>4, NoBetMoves

\* A reveal spends the commitment: the bet is revealed if it passes the
\* checks and void if it does not.
LEMMA RevealIsReveal ==
    ASSUME Inv, Inv', NEW p \in Plays, NEW s \in Sids, NEW player \in Players,
           NEW qbet \in QueryBets, NEW nonce,
           PlayReveal(p, s, player, qbet, nonce)
    PROVE  Game!Next
<1>1. /\ pc[p] = "idle" /\ commitments[s] # None /\ Consume(s) /\ issued' = issued
      /\ issued[s] # None
  BY DEF PlayReveal, Inv, GameInv, OpenAsIssued
<1>2. /\ commitments'[s] = None
      /\ \A r \in Sids : r # s => commitments'[r] = commitments[r]
  BY <1>1 DEF Consume, Inv, TypeOK
<1>3. TasksOf(s) = {} /\ PhaseOf(s) = "open" /\ SettledOf(s) = None
  BY <1>1, TasksOfSid, PhaseFacts
<1>4. \A q \in Plays : q # p => pc'[q] = pc[q] /\ sid'[q] = sid[q] /\ tx'[q] = tx[q]
  BY DEF PlayReveal, Refuse, Inv, TypeOK
<1>5. \A r \in Sids : p \notin TasksOf(r)
  BY <1>1 DEF TasksOf, Spawned, TaskRunning, TaskEnded
<1>6. ASSUME Spawned(p)' => sid'[p] = s
      PROVE  \A r \in Sids : r # s => Still(r)
  <2> SUFFICES ASSUME NEW r \in Sids, r # s PROVE Still(r)
    OBVIOUS
  <2>1. TasksOf(r)' = TasksOf(r)
    BY <1>4, <1>5, <1>6 DEF TasksOf, Spawned
  <2>2. \A q \in TasksOf(r) : pc'[q] = pc[q] /\ tx'[q] = tx[q]
    BY <1>4, <1>5 DEF TasksOf
  <2> QED
    BY <1>1, <1>2, <2>1, <2>2, BetUntouched DEF Still
<1>7. CASE pc' = [pc EXCEPT ![p] = "spawned"] /\ sid' = [sid EXCEPT ![p] = s]
  <2>1. pc'[p] = "spawned" /\ sid'[p] = s
    BY <1>7 DEF Inv, TypeOK
  <2>2. Spawned(p)' => sid'[p] = s
    BY <2>1
  <2>3. TasksOf(s)' = {p}
    BY <1>3, <1>4, <2>1 DEF TasksOf, Spawned, TaskRunning
  <2>4. PhaseOf(s)' = "revealed" /\ SettledOf(s)' = None
    BY <1>1, <1>2, <2>1, <2>3 DEF PhaseOf, SettledOf, TaskRunning
  <2>5. /\ PhaseBar[s] = "open" /\ PhaseBar'[s] = "revealed" /\ SettledBar'[s] = SettledBar[s]
        /\ PledgeBar'[s] = PledgeBar[s]
    BY <1>1, <1>3, <2>4 DEF PhaseBar, SettledBar, PledgeBar
  <2>6. UNCHANGED <<PledgeBar, SettledBar>>
    BY <1>6, <2>2, <2>5 DEF Still, PledgeBar, SettledBar
  <2>7. Game!Reveal(s)
    BY <1>6, <2>2, <2>5, <2>6, BetMoves DEF Game!Reveal
  <2> QED
    BY <2>7 DEF Game!Next
<1>8. CASE Refuse(p)
  <2>1. pc'[p] = "refused" /\ sid' = sid
    BY <1>8 DEF Inv, TypeOK, Refuse
  <2>2. ~Spawned(p)'
    BY <2>1 DEF Spawned, TaskRunning, TaskEnded
  <2>3. TasksOf(s)' = {}
    BY <1>3, <1>4, <2>2 DEF TasksOf, Spawned
  <2>4. PhaseOf(s)' = "void" /\ SettledOf(s)' = None
    BY <1>1, <1>2, <2>3 DEF PhaseOf, SettledOf
  <2>5. /\ PhaseBar[s] = "open" /\ PhaseBar'[s] = "void" /\ SettledBar'[s] = SettledBar[s]
        /\ PledgeBar'[s] = PledgeBar[s]
    BY <1>1, <1>3, <2>4 DEF PhaseBar, SettledBar, PledgeBar
  <2>6. UNCHANGED <<PledgeBar, SettledBar>>
    BY <1>6, <2>2, <2>5 DEF Still, PledgeBar, SettledBar
  <2>7. Game!Void(s)
    BY <1>6, <2>2, <2>5, <2>6, BetMoves DEF Game!Void
  <2> QED
    BY <2>7 DEF Game!Next
<1> QED
  BY <1>7, <1>8 DEF PlayReveal

\* A step of a task moves the bet of its session id alone, and only when
\* the task ends.
LEMMA TaskIsGameStep ==
    ASSUME Inv, Inv', NEW p \in Plays, Task(p) \/ ClientStops(p)
    PROVE  Game!Next \/ UNCHANGED <<PledgeBar, PhaseBar, SettledBar>>
<1>1. PICK from \in TaskRunning, to \in TaskRunning \cup TaskEnded : TaskStep(p, from, to)
  BY DEF Task, Construct, StartProver, ProverExits, ParseMessages, ReadProof,
     ReadFactsAndSign, SubmitAccepted, SubmitRetry, SubmitAgain, SubmitRejected,
     SubmitReplyLost, VerifyAndReport, TaskFails, ClientStops, TaskRunning, TaskEnded
<1>2. \A q \in Plays : q # p => tx'[q] = tx[q]
  BY DEF Task, Construct, StartProver, ProverExits, ParseMessages, ReadProof,
     ReadFactsAndSign, SubmitAccepted, SubmitRetry, SubmitAgain, SubmitRejected,
     SubmitReplyLost, VerifyAndReport, TaskFails, ClientStops, Inv, TypeOK
<1>3. /\ pc[p] = from /\ pc'[p] = to /\ UNCHANGED <<sid, issued, commitments>>
      /\ \A q \in Plays : q # p => pc'[q] = pc[q]
  BY <1>1 DEF TaskStep, Inv, TypeOK
<1>4. PICK s \in Sids : /\ s = sid[p] /\ Spawned(p)
                        /\ issued[s] # None /\ commitments[s] = None
  BY <1>3, RunningTask
<1>5. \A r \in Sids : TasksOf(r)' = TasksOf(r)
  BY <1>3, <1>4 DEF TasksOf, Spawned
<1>6. TasksOf(s) = {p} /\ TasksOf(s)' = {p}
  BY <1>4, <1>5, TasksOfSid
<1>7. ASSUME NEW r \in Sids, r # s PROVE Still(r)
  <2>1. p \notin TasksOf(r)
    BY <1>4, <1>7 DEF TasksOf
  <2>2. \A q \in TasksOf(r) : pc'[q] = pc[q] /\ tx'[q] = tx[q]
    BY <1>2, <1>3, <2>1 DEF TasksOf
  <2> QED
    BY <1>3, <1>5, <2>2, BetUntouched DEF Still
<1>8. PhaseBar[s] = "revealed" /\ SettledBar[s] = None /\ PledgeBar'[s] = PledgeBar[s]
  BY <1>3, <1>4, <1>6, PhaseFacts DEF PhaseBar, SettledBar, PledgeBar
<1>9. PledgeBar' = PledgeBar
  BY <1>7, <1>8 DEF Still, PledgeBar
<1>10. CASE to \in TaskRunning
  <2>1. PhaseOf(s)' = "revealed" /\ SettledOf(s)' = None
    BY <1>3, <1>4, <1>6, <1>10 DEF PhaseOf, SettledOf, TaskRunning
  <2>2. Still(s)
    BY <1>3, <1>4, <1>8, <2>1 DEF Still, PhaseBar, SettledBar
  <2> QED
    BY <1>7, <2>2, NoBetMoves
<1>11. CASE to \in {"failed", "unheard"}
  <2>1. PhaseOf(s)' = "void" /\ SettledOf(s)' = None
    BY <1>3, <1>4, <1>6, <1>11 DEF PhaseOf, SettledOf, TaskRunning
  <2>2. PhaseBar'[s] = "void" /\ SettledBar'[s] = SettledBar[s]
    BY <1>3, <1>4, <1>8, <2>1 DEF PhaseBar, SettledBar
  <2>3. SettledBar' = SettledBar
    BY <1>7, <2>2 DEF Still, SettledBar
  <2>4. Game!Void(s)
    BY <1>4, <1>7, <1>8, <1>9, <2>2, <2>3, BetMoves DEF Game!Void
  <2> QED
    BY <1>4, <2>4 DEF Game!Next
<1>12. CASE to = "result"
  <2>1. Spawned(p)' /\ TaskPlaysThePledge'
    BY <1>3, <1>12 DEF Spawned, TaskEnded, Inv, GameInv
  <2>2. /\ tx'[p].player = issued[s].player /\ tx'[p].bet = issued[s].commitment.bet
        /\ tx'[p].seed = issued[s].seed_block
    BY <1>3, <1>4, <2>1 DEF TaskPlaysThePledge
  <2>3. PhaseOf(s)' = "settled" /\ SettledOf(s)' = PledgeOf(issued[s])
    <3>1. \A q \in TasksOf(s)' : pc'[q] = "result" <=> q = p
      BY <1>3, <1>6, <1>12
    <3>2. p \in TasksOf(s)' /\ (CHOOSE q \in TasksOf(s)' : pc'[q] = "result") = p
      BY <1>3, <1>6, <1>12, <3>1
    <3>3. PhaseOf(s)' = "settled"
      <4>1. issued'[s] # None /\ commitments'[s] = None
        BY <1>3, <1>4
      <4>2. /\ \E q \in TasksOf(s)' : pc'[q] = "result"
            /\ ~\E q \in TasksOf(s)' : pc'[q] \in TaskRunning
        BY <1>3, <1>6, <1>12, <3>1, <3>2 DEF TaskRunning
      <4> QED
        BY <4>1, <4>2 DEF PhaseOf
    <3>4. SettledOf(s)' = [player |-> tx'[p].player, bet |-> tx'[p].bet, seed |-> tx'[p].seed]
      BY <3>1, <3>2 DEF SettledOf
    <3> QED
      BY <2>2, <3>3, <3>4 DEF PledgeOf
  <2>4. PhaseBar'[s] = "settled" /\ SettledBar'[s] = PledgeBar[s]
    BY <1>3, <1>4, <2>3 DEF PhaseBar, SettledBar, PledgeBar
  <2>5. Game!Settle(s)
    BY <1>4, <1>7, <1>8, <1>9, <2>4, BetMoves DEF Game!Settle
  <2> QED
    BY <1>4, <2>5 DEF Game!Next
<1> QED
  BY <1>10, <1>11, <1>12 DEF TaskEnded

\* Deployments and blocks move no bet.
LEMMA OthersAreSilent ==
    ASSUME Mine \/ (\E d \in Deployers : Deploy(d)) \/ UNCHANGED vars
    PROVE  UNCHANGED <<PledgeBar, PhaseBar, SettledBar>>
<1>1. UNCHANGED <<pc, sid, tx, issued, commitments>>
  BY DEF Mine, MineGame, MineOther, Deploy, DeployKnown, DeployStart, DeploySend, DeployFail,
     DeployStore, DeployStep, vars, playVars
<1> QED
  BY <1>1 DEF PledgeBar, PhaseBar, SettledBar, PhaseOf, SettledOf, TasksOf, Spawned

\* Every step of the server, the prover and the chain is a step of the
\* abstract game or none at all.
LEMMA GameStep ==
    Inv /\ Inv' /\ [Next]_vars => [Game!Next]_<<PledgeBar, PhaseBar, SettledBar>>
<1> SUFFICES ASSUME Inv, Inv', [Next]_vars
             PROVE  Game!Next \/ UNCHANGED <<PledgeBar, PhaseBar, SettledBar>>
  OBVIOUS
<1>1. CASE Commit
  BY <1>1, CommitIsCommit DEF Commit
<1>2. ASSUME NEW p \in Plays, Play(p)
      PROVE  Game!Next \/ UNCHANGED <<PledgeBar, PhaseBar, SettledBar>>
  BY <1>2, RefusalIsSilent, RevealIsReveal DEF Play
<1> QED
  BY <1>1, <1>2, TaskIsGameStep, OthersAreSilent DEF Next

\* The coin-flip routes implement the commit-reveal game: every bet is
\* revealed at most once, and what is settled is what was pledged.
THEOREM CoinFlipImplementsCommitReveal == Spec => ImplementsCommitReveal
<1>1. Init => Game!Init
  BY DEF Init, Game!Init, PledgeBar, PhaseBar, SettledBar, PhaseOf, SettledOf, TasksOf,
     Spawned, TaskRunning, TaskEnded
<1>2. Game!vars = <<PledgeBar, PhaseBar, SettledBar>>
  BY DEF Game!vars
<1> QED
  BY <1>1, <1>2, GameStep, GameInvariant, PTL DEF Spec, ImplementsCommitReveal, Game!Spec,
     Game!vars
=============================================================================
