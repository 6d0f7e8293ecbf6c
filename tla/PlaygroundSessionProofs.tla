----------------------- MODULE PlaygroundSessionProofs -----------------------
(***************************************************************************)
(* Proofs about the session entry and the session's files in Playground:   *)
(* with any requests at once, no update is lost and the blocks of the      *)
(* session come from receipts; with one request after the other, a cycle   *)
(* submits what it proved and the reference block covers the counter.      *)
(***************************************************************************)
EXTENDS PlaygroundProofs

\* The fields of a session.
LEMMA SessionShape ==
    ASSUME TypeOK
    PROVE  /\ session \in Session
           /\ DOMAIN session =
                {"account_address", "contract_address", "last_invoke_tx", "invoke_block",
                 "prove_block", "proof_file", "deploy_block", "last_reference_block"}
BY DEF TypeOK, Session

\* The steps that write to the session, and what they write.
LEMMA SessionWrites ==
    ASSUME TypeOK, [Next]_vars
    PROVE  \/ session' = session
           \/ \E r \in AccountDeploys :
                /\ pc'[r] # pc[r] /\ session' = [session EXCEPT !.account_address = r]
           \/ \E r \in CounterDeploys :
                /\ pc'[r] # pc[r] /\ Confirmed(r)
                /\ session' = [session EXCEPT !.contract_address = r,
                                              !.deploy_block = receipt[r].block,
                                              !.last_reference_block = receipt[r].block]
           \/ \E i \in Invokes :
                /\ pc'[i] # pc[i] /\ session' = [session EXCEPT !.last_invoke_tx = i]
           \/ \E i \in Invokes :
                /\ pc'[i] # pc[i] /\ Confirmed(i)
                /\ session' = [session EXCEPT !.invoke_block = receipt[i].block]
           \/ \E p \in Proves :
                /\ pc'[p] # pc[p] /\ pc[p] = "located" /\ blk[p] # 0
                /\ session' = [session EXCEPT !.prove_block = blk[p] - 1]
           \/ \E p \in Proves :
                /\ pc'[p] # pc[p] /\ session' = [session EXCEPT !.proof_file = TRUE]
           \/ \E c \in Cycles :
                /\ pc[c] = "verifying" /\ pc'[c] = "done" /\ Confirmed(c)
                /\ session' = [session EXCEPT !.last_reference_block = receipt[c].block]
<1> USE Kinds, KindsAssumption DEF TypeOK, Goto, Entry
<1>1. ASSUME NEW r \in Deploys, DeployConfirmed(r), r \notin Funds
      PROVE  \/ /\ r \in AccountDeploys /\ pc'[r] # pc[r]
                /\ session' = [session EXCEPT !.account_address = r]
             \/ /\ r \in CounterDeploys /\ pc'[r] # pc[r] /\ Confirmed(r)
                /\ session' = [session EXCEPT !.contract_address = r,
                                              !.deploy_block = receipt[r].block,
                                              !.last_reference_block = receipt[r].block]
  BY <1>1 DEF DeployConfirmed, DeployedSession, Deploys
<1>2. ASSUME NEW i \in Invokes, InvokeSent(i)
      PROVE  pc'[i] # pc[i] /\ session' = [session EXCEPT !.last_invoke_tx = i]
  BY <1>2 DEF InvokeSent
<1>3. ASSUME NEW i \in Invokes, InvokeConfirmed(i)
      PROVE  /\ pc'[i] # pc[i] /\ Confirmed(i)
             /\ session' = [session EXCEPT !.invoke_block = receipt[i].block]
  BY <1>3 DEF InvokeConfirmed
<1>4. ASSUME NEW p \in Proves, ProveLaunches(p)
      PROVE  /\ pc'[p] # pc[p] /\ pc[p] = "located" /\ blk[p] # 0
             /\ session' = [session EXCEPT !.prove_block = blk[p] - 1]
  BY <1>4 DEF ProveLaunches
<1>5. ASSUME NEW p \in Proves, ProveEnds(p)
      PROVE  \/ session' = session
             \/ pc'[p] # pc[p] /\ session' = [session EXCEPT !.proof_file = TRUE]
  BY <1>5 DEF ProveEnds
<1>6. ASSUME NEW c \in Cycles, CycleLands(c)
      PROVE  /\ pc[c] = "verifying" /\ pc'[c] = "done" /\ Confirmed(c)
             /\ session' = [session EXCEPT !.last_reference_block = receipt[c].block]
  BY <1>6 DEF CycleLands
<1>7. CASE Arrivals \/ Chain \/ UNCHANGED vars
  BY <1>7 DEF Arrivals, Chain, Mine, MineOther, vars, DeployArrives, InvokeArrives,
              ProveArrives, CycleArrives, SubmitArrives
<1>8. ASSUME NEW r \in Deploys, Deploy(r)
      PROVE  session' = session \/ (DeployConfirmed(r) /\ r \notin Funds)
  BY <1>8 DEF Deploy, DeploySent, DeployConfirmed, DeployFails
<1>9. ASSUME NEW i \in Invokes, Invoke(i)
      PROVE  session' = session \/ InvokeSent(i) \/ InvokeConfirmed(i)
  BY <1>9 DEF Invoke, InvokeRejected, InvokeTimesOut
<1>10. ASSUME NEW p \in Proves, Prove(p)
       PROVE  session' = session \/ ProveLaunches(p) \/ ProveEnds(p)
  BY <1>10 DEF Prove, ProveReadsBlock, ProveAwaitsTx, ProveFails, ScriptSavesProof,
               ScriptSavesFacts
<1>11. ASSUME NEW c \in Cycles, Cycle(c)
       PROVE  session' = session \/ CycleLands(c)
  BY <1>11, CycleInnerSteps DEF Cycle, CycleInner
<1>12. ASSUME NEW u \in Submits, Submit(u) PROVE session' = session
  BY <1>12 DEF Submit, SubmitReadsProof, SubmitSigns, SubmitAccepted, SubmitFails
<1>13. ASSUME NEW r \in Requests, ReplyLost(r) PROVE session' = session
  BY <1>13 DEF ReplyLost
<1> HIDE DEF TypeOK, Goto, Entry
<1> QED
  BY <1>1, <1>2, <1>3, <1>4, <1>5, <1>6, <1>7, <1>8, <1>9, <1>10, <1>11, <1>12, <1>13, ZenonT(40)
     DEF Next, Handler

\* A field of the session changes only in a step of a handler that owns it.
THEOREM NoUpdateIsLost == Spec => NoLostUpdate
<1>1. TypeOK /\ [Next]_vars => [OwnerStep]_vars
  <2> SUFFICES ASSUME TypeOK, [Next]_vars PROVE OwnerStep
    OBVIOUS
  <2> USE Kinds, SessionShape DEF OwnerStep, Writers
  <2>1. CASE session' = session
    BY <2>1
  <2>2. ASSUME NEW r \in AccountDeploys, pc'[r] # pc[r],
               session' = [session EXCEPT !.account_address = r]
        PROVE  OwnerStep
    BY <2>2
  <2>3. ASSUME NEW r \in CounterDeploys, pc'[r] # pc[r],
               session' = [session EXCEPT !.contract_address = r,
                                          !.deploy_block = receipt[r].block,
                                          !.last_reference_block = receipt[r].block]
        PROVE  OwnerStep
    BY <2>3
  <2>4. ASSUME NEW i \in Invokes, pc'[i] # pc[i],
               \/ session' = [session EXCEPT !.last_invoke_tx = i]
               \/ session' = [session EXCEPT !.invoke_block = receipt[i].block]
        PROVE  OwnerStep
    BY <2>4
  <2>5. ASSUME NEW p \in Proves, pc'[p] # pc[p],
               \/ session' = [session EXCEPT !.prove_block = blk[p] - 1]
               \/ session' = [session EXCEPT !.proof_file = TRUE]
        PROVE  OwnerStep
    BY <2>5
  <2>6. ASSUME NEW c \in Cycles, pc'[c] # pc[c],
               session' = [session EXCEPT !.last_reference_block = receipt[c].block]
        PROVE  OwnerStep
    BY <2>6
  <2> HIDE DEF OwnerStep, Writers
  <2> QED
    BY <2>1, <2>2, <2>3, <2>4, <2>5, <2>6, SessionWrites
<1> QED
  BY <1>1, TypeCorrect, PTL DEF Spec, NoLostUpdate

-----------------------------------------------------------------------------
(* Blocks that come from receipts *)

\* A receipt stays what it is.
LEMMA ReceiptsStay ==
    ASSUME TypeOK, Receipts, [Next]_vars
    PROVE  \A r \in Requests : receipt[r] # None => receipt'[r] = receipt[r]
<1>1. CASE Arrivals \/ Handler \/ UNCHANGED vars
  BY <1>1, HandlersMovePool DEF PoolMoves
<1>2. ASSUME NEW r \in pool, NEW ok \in BOOLEAN, Mine(r, ok)
      PROVE  \A q \in Requests : receipt[q] # None => receipt'[q] = receipt[q]
  BY <1>2 DEF Mine, TypeOK, Receipts
<1>3. ASSUME NEW bump \in {0, 1}, MineOther(bump)
      PROVE  \A q \in Requests : receipt[q] # None => receipt'[q] = receipt[q]
  BY <1>3 DEF MineOther
<1> QED
  BY <1>1, <1>2, <1>3 DEF Next, Chain

\* How a prove task comes to have located its transaction.
LEMMA LocatedSteps ==
    ASSUME TypeOK, WellFormed, [Next]_vars, NEW p \in Proves, pc'[p] = "located"
    PROVE  \/ pc[p] = "located" /\ blk'[p] = blk[p]
           \/ session.invoke_block # None /\ blk'[p] = session.invoke_block
           \/ \E i \in Invokes : Confirmed(i) /\ blk'[p] = receipt[i].block
<1> USE Kinds, KindsAssumption DEF TypeOK, Goto
<1>1. CASE ProveReadsBlock(p)
  BY <1>1 DEF ProveReadsBlock
<1>2. CASE ProveAwaitsTx(p)
  <2>1. clone[p].last_invoke_tx \in Invokes
    BY <1>2 DEF ProveAwaitsTx, WellFormed, Session, Opt
  <2> QED
    BY <1>2, <2>1 DEF ProveAwaitsTx
<1>3. ASSUME NEW q \in Proves, q # p, ProveArrives(q) \/ Prove(q)
      PROVE  pc'[p] = pc[p] /\ blk'[p] = blk[p]
  BY <1>3 DEF ProveArrives, Arrive, Prove, ProveReadsBlock, ProveAwaitsTx, ProveLaunches,
              ProveFails, ScriptSavesProof, ScriptSavesFacts, ProveEnds, proofVars
<1>4. ProveArrives(p) \/ Prove(p) => ProveReadsBlock(p) \/ ProveAwaitsTx(p)
  BY DEF ProveArrives, Arrive, Prove, ProveLaunches,
         ProveFails, ScriptSavesProof, ScriptSavesFacts, ProveEnds
<1>5. ASSUME NEW r \in Deploys, DeployArrives(r) \/ Deploy(r)
      PROVE  pc'[p] = pc[p] /\ blk'[p] = blk[p]
  BY <1>5 DEF DeployArrives, Arrive, Deploy, DeploySent, DeployConfirmed, DeployFails, proofVars
<1>6. ASSUME NEW i \in Invokes, InvokeArrives(i) \/ Invoke(i)
      PROVE  pc'[p] = pc[p] /\ blk'[p] = blk[p]
  BY <1>6 DEF InvokeArrives, Arrive, Invoke, InvokeSent, InvokeRejected, InvokeConfirmed,
              InvokeTimesOut, proofVars
<1>7. ASSUME NEW c \in Cycles, CycleArrives(c) \/ Cycle(c)
      PROVE  pc'[p] = pc[p] /\ blk'[p] = blk[p]
  BY <1>7, CycleInnerSteps
     DEF CycleArrives, Arrive, Cycle, CycleInner, CycleLands, proofVars
<1>8. ASSUME NEW u \in Submits, SubmitArrives(u) \/ Submit(u)
      PROVE  pc'[p] = pc[p] /\ blk'[p] = blk[p]
  BY <1>8 DEF SubmitArrives, Arrive, Submit, SubmitReadsProof, SubmitSigns, SubmitAccepted,
              SubmitFails, proofVars
<1>9. ASSUME NEW r \in Requests, ReplyLost(r)
      PROVE  pc'[p] = pc[p] /\ blk'[p] = blk[p]
  BY <1>9 DEF ReplyLost, proofVars, Deploys
<1>10. CASE Chain \/ UNCHANGED vars
  BY <1>10 DEF Chain, Mine, MineOther, vars, proofVars
<1> HIDE DEF TypeOK, Goto
<1> QED
  BY <1>1, <1>2, <1>3, <1>4, <1>5, <1>6, <1>7, <1>8, <1>9, <1>10
     DEF Next, Arrivals, Handler

\* Every step keeps the blocks real.
LEMMA RealBlocksStep ==
    ASSUME TypeOK, WellFormed, Receipts, RealBlocks, [Next]_vars
    PROVE  RealBlocks'
<1> USE Kinds
<1>1. ASSUME NEW b, Landed(b) PROVE Landed(b)'
  BY <1>1, ReceiptsStay DEF Landed
<1>2. ASSUME NEW i \in Invokes, Confirmed(i) PROVE Landed(receipt[i].block)
  BY <1>2 DEF Confirmed, Landed
<1>3. \A p \in Proves : pc'[p] = "located" => Landed(blk'[p])
  BY <1>2, LocatedSteps DEF RealBlocks
<1>4. session'.invoke_block # None => Landed(session'.invoke_block)
  <2>1. \/ session'.invoke_block = session.invoke_block
        \/ \E i \in Invokes : Confirmed(i) /\ session'.invoke_block = receipt[i].block
    BY SessionWrites, SessionShape DEF Session
  <2> QED
    BY <1>2, <2>1 DEF RealBlocks
<1>5. session'.prove_block # None => Landed(session'.prove_block + 1)
  <2>1. \/ session'.prove_block = session.prove_block
        \/ \E p \in Proves : pc[p] = "located" /\ session'.prove_block = blk[p] - 1
    BY SessionWrites, SessionShape DEF Session
  <2>2. ASSUME NEW p \in Proves, pc[p] = "located" PROVE (blk[p] - 1) + 1 = blk[p]
    BY <2>2, ConstAssumption DEF WellFormed, TypeOK, Opt, Blocks
  <2> QED
    BY <2>1, <2>2 DEF RealBlocks
<1> QED
  BY <1>1, <1>3, <1>4, <1>5 DEF RealBlocks

\* invoke_block and prove_block come from receipts of invokes that succeeded.
THEOREM InvokeBlocksAreReal == Spec => []InvokeBlockIsReal
<1> DEFINE I == TypeOK /\ WellFormed /\ Receipts /\ RealBlocks
<1>1. Init => I
  <2> SUFFICES ASSUME Init PROVE I
    OBVIOUS
  <2>1. TypeOK /\ WellFormed /\ Receipts
    BY InitTyped, InitIInv DEF IInv
  <2>2. RealBlocks
    BY Kinds DEF Init, NewSession, RealBlocks
  <2> QED
    BY <2>1, <2>2
<1>2. I /\ [Next]_vars => I'
  BY TypeStep, WellFormedStep, ReceiptsStep, RealBlocksStep
<1>3. I => InvokeBlockIsReal
  BY DEF RealBlocks, Landed, InvokeBlockIsReal
<1> HIDE DEF I
<1> QED
  BY <1>1, <1>2, <1>3, PTL DEF Spec

-----------------------------------------------------------------------------
(* One request after the other *)

\* A step of request r in which the others are at rest.
Solo(r) ==
    \A q \in Requests : q # r =>
        /\ ~Active(q) /\ pc'[q] = pc[q] /\ blk'[q] = blk[q] /\ read'[q] = read[q]

\* A request arrives when the others are at rest.
LEMMA ArrivesAlone ==
    ASSUME TypeOK, Sequential = TRUE, NEW r \in Requests, NEW to, Arrive(r, to)
    PROVE  /\ pc[r] = "idle" /\ pc'[r] = to
           /\ \A q \in Requests : q # r => ~Active(q) /\ pc'[q] = pc[q]
BY DEF TypeOK, Arrive, Goto, Active

\* A request that goes on is the only one that could.
LEMMA MovesAlone ==
    ASSUME TypeOK, OneAtATime, NEW r \in Requests, NEW from, NEW to, Goto(r, from, to),
           from \notin Ended \cup {"idle"}
    PROVE  /\ pc[r] = from /\ pc'[r] = to
           /\ \A q \in Requests : q # r => ~Active(q) /\ pc'[q] = pc[q]
BY DEF TypeOK, Goto, OneAtATime, Active

\* Every step of a handler is taken alone.
LEMMA SoloSteps ==
    ASSUME TypeOK, OneAtATime, Sequential = TRUE
    PROVE  /\ \A r \in Deploys : DeployArrives(r) \/ Deploy(r) => Solo(r)
           /\ \A i \in Invokes : InvokeArrives(i) \/ Invoke(i) => Solo(i)
           /\ \A p \in Proves : ProveArrives(p) \/ Prove(p) => Solo(p)
           /\ \A c \in Cycles : CycleArrives(c) \/ Cycle(c) => Solo(c)
           /\ \A u \in Submits : SubmitArrives(u) \/ Submit(u) => Solo(u)
           /\ \A r \in Requests : ReplyLost(r) => Solo(r)
<1> USE Kinds DEF Solo, proofVars
<1>0. /\ "started" \notin Ended \cup {"idle"} /\ "sent" \notin Ended \cup {"idle"}
      /\ "waiting" \notin Ended \cup {"idle"} /\ "located" \notin Ended \cup {"idle"}
      /\ "running" \notin Ended \cup {"idle"} /\ "built" \notin Ended \cup {"idle"}
      /\ "proofWritten" \notin Ended \cup {"idle"} /\ "factsWritten" \notin Ended \cup {"idle"}
      /\ "proved" \notin Ended \cup {"idle"} /\ "proofRead" \notin Ended \cup {"idle"}
      /\ "submitting" \notin Ended \cup {"idle"} /\ "sleeping" \notin Ended \cup {"idle"}
      /\ "verifying" \notin Ended \cup {"idle"}
  BY DEF Ended
<1>1. ASSUME NEW r \in Deploys, DeployArrives(r) \/ Deploy(r) PROVE Solo(r)
  BY <1>0, <1>1, ArrivesAlone, MovesAlone
     DEF DeployArrives, Deploy, DeploySent, DeployConfirmed, DeployFails
<1>2. ASSUME NEW i \in Invokes, InvokeArrives(i) \/ Invoke(i) PROVE Solo(i)
  BY <1>0, <1>2, ArrivesAlone, MovesAlone
     DEF InvokeArrives, Invoke, InvokeSent, InvokeRejected, InvokeConfirmed, InvokeTimesOut
<1>3. ASSUME NEW p \in Proves, ProveArrives(p) \/ Prove(p) PROVE Solo(p)
  <2>1. \A q \in Requests : q # p => ~Active(q) /\ pc'[q] = pc[q]
    BY <1>0, <1>3, ArrivesAlone, MovesAlone
       DEF ProveArrives, Prove, ProveReadsBlock, ProveAwaitsTx, ProveLaunches,
           ProveFails, ScriptSavesProof, ScriptSavesFacts, ProveEnds
  <2>2. \A q \in Requests : q # p => blk'[q] = blk[q] /\ read'[q] = read[q]
    BY <1>3
       DEF ProveArrives, Prove, ProveReadsBlock, ProveAwaitsTx, ProveLaunches,
           ProveFails, ScriptSavesProof, ScriptSavesFacts, ProveEnds, TypeOK
  <2> QED
    BY <2>1, <2>2
<1>4. ASSUME NEW c \in Cycles, CycleArrives(c) \/ Cycle(c) PROVE Solo(c)
  <2>1. \A q \in Requests : q # c => ~Active(q) /\ pc'[q] = pc[q]
    BY <1>0, <1>4, ArrivesAlone, MovesAlone
       DEF CycleArrives, Cycle, CycleConstructs, CycleStartsProver,
           CycleProverSavesProof, CycleProverSucceeds, CycleReadsProof, CycleReadsFacts,
           CycleAccepted, CycleRetries, CycleWakes, CycleLands, CycleFails
  <2>2. \A q \in Requests : q # c => blk'[q] = blk[q] /\ read'[q] = read[q]
    BY <1>4
       DEF CycleArrives, Cycle, CycleConstructs, CycleStartsProver,
           CycleProverSavesProof, CycleProverSucceeds, CycleReadsProof, CycleReadsFacts,
           CycleAccepted, CycleRetries, CycleWakes, CycleLands, CycleFails, TypeOK
  <2> QED
    BY <2>1, <2>2
<1>5. ASSUME NEW u \in Submits, SubmitArrives(u) \/ Submit(u) PROVE Solo(u)
  <2>1. \A q \in Requests : q # u => ~Active(q) /\ pc'[q] = pc[q]
    BY <1>0, <1>5, ArrivesAlone, MovesAlone
       DEF SubmitArrives, Submit, SubmitReadsProof, SubmitSigns, SubmitAccepted,
           SubmitFails
  <2>2. \A q \in Requests : q # u => blk'[q] = blk[q] /\ read'[q] = read[q]
    BY <1>5
       DEF SubmitArrives, Submit, SubmitReadsProof, SubmitSigns, SubmitAccepted,
           SubmitFails, TypeOK
  <2> QED
    BY <2>1, <2>2
<1>6. ASSUME NEW r \in Requests, ReplyLost(r) PROVE Solo(r)
  BY <1>0, <1>6, ArrivesAlone, MovesAlone DEF ReplyLost
<1> QED
  BY <1>1, <1>2, <1>3, <1>4, <1>5, <1>6

\* A step that leaves the requests where they are.
LEMMA ChainSteps ==
    ASSUME Chain \/ UNCHANGED vars
    PROVE  UNCHANGED <<session, pc, blk, work, read, files>>
BY DEF Chain, Mine, MineOther, vars, proofVars

\* The next request waits for the last one.
LEMMA OneAtATimeStep ==
    ASSUME TypeOK, OneAtATime, Sequential = TRUE, [Next]_vars
    PROVE  OneAtATime'
<1>1. ASSUME NEW r \in Requests, Solo(r) PROVE OneAtATime'
  BY <1>1 DEF Solo, OneAtATime, Active
<1>2. CASE Chain \/ UNCHANGED vars
  BY <1>2, ChainSteps DEF OneAtATime, Active
<1> QED
  BY <1>1, <1>2, SoloSteps, Kinds DEF Next, Arrivals, Handler

\* Alone, a cycle finds in the files what it put there.
LEMMA OwnWorkStep ==
    ASSUME TypeOK, OneAtATime, Sequential = TRUE, [Next]_vars, NEW c \in Cycles, OwnWork(c)
    PROVE  OwnWork(c)'
<1> USE Kinds
<1>1. ASSUME NEW r \in Requests, r # c, Solo(r) PROVE OwnWork(c)'
  <2>1. /\ pc[c] \in Ended \cup {"idle"} /\ pc'[c] = pc[c] /\ blk'[c] = blk[c]
        /\ read'[c] = read[c]
    BY <1>1 DEF Solo, Active
  <2> QED
    BY <2>1 DEF OwnWork, Ended
<1>2. CASE Chain \/ UNCHANGED vars
  BY <1>2, ChainSteps DEF OwnWork
<1>3. CASE CycleArrives(c)
  <2>1. pc'[c] \in {"started", "refused"}
    BY <1>3 DEF CycleArrives, Arrive, Goto, TypeOK
  <2> QED
    BY <2>1 DEF OwnWork
<1>4. CASE CycleConstructs(c)
  BY <1>4 DEF CycleConstructs, Goto, TypeOK, OwnWork, Files
<1>5. CASE CycleStartsProver(c)
  BY <1>5 DEF CycleStartsProver, Goto, TypeOK, OwnWork
<1>6. CASE CycleProverSavesProof(c)
  BY <1>6 DEF CycleProverSavesProof, Goto, TypeOK, OwnWork, Files
<1>7. CASE CycleProverSucceeds(c)
  BY <1>7 DEF CycleProverSucceeds, Goto, TypeOK, OwnWork, Files
<1>8. CASE CycleReadsProof(c)
  BY <1>8 DEF CycleReadsProof, Goto, TypeOK, OwnWork
<1>9. CASE CycleReadsFacts(c)
  BY <1>9 DEF CycleReadsFacts, Goto, TypeOK, OwnWork
<1>10. CASE CycleAccepted(c) \/ CycleRetries(c) \/ CycleWakes(c) \/ CycleLands(c)
  BY <1>10 DEF CycleAccepted, CycleRetries, CycleWakes, CycleLands, Goto, TypeOK, OwnWork,
               proofVars
<1>11. CASE CycleFails(c) \/ ReplyLost(c)
  <2>1. pc'[c] = "failed"
    BY <1>11 DEF CycleFails, ReplyLost, Goto, TypeOK
  <2> QED
    BY <2>1 DEF OwnWork
<1>12. CASE CycleArrives(c) \/ Cycle(c) \/ ReplyLost(c)
  BY <1>3, <1>4, <1>5, <1>6, <1>7, <1>8, <1>9, <1>10, <1>11, <1>12 DEF Cycle
<1>13. CASE \E r \in Deploys : DeployArrives(r) \/ Deploy(r)
  BY <1>1, <1>13, SoloSteps, KindsAssumption
<1>14. CASE \E r \in Invokes : InvokeArrives(r) \/ Invoke(r)
  BY <1>1, <1>14, SoloSteps, KindsAssumption
<1>15. CASE \E r \in Proves : ProveArrives(r) \/ Prove(r)
  BY <1>1, <1>15, SoloSteps, KindsAssumption
<1>16. CASE \E r \in Submits : SubmitArrives(r) \/ Submit(r)
  BY <1>1, <1>16, SoloSteps, KindsAssumption
<1>17. CASE \E r \in Cycles : r # c /\ (CycleArrives(r) \/ Cycle(r))
  BY <1>1, <1>17, SoloSteps
<1>18. CASE \E r \in Requests : r # c /\ ReplyLost(r)
  BY <1>1, <1>18, SoloSteps
<1> QED
  BY <1>2, <1>12, <1>13, <1>14, <1>15, <1>16, <1>17, <1>18 DEF Next, Arrivals, Handler

\* A cycle that goes on was under way.
LEMMA InnerIsActive ==
    ASSUME NEW c \in Cycles, CycleInner(c) \/ CycleLands(c)
    PROVE  Active(c)
BY DEF Active, Ended, CycleInner, CycleConstructs, CycleStartsProver, CycleProverSavesProof,
       CycleProverSucceeds, CycleReadsProof, CycleReadsFacts, CycleAccepted,
       CycleRetries, CycleWakes, CycleLands, CycleFails, ReplyLost, Goto

\* Alone, a cycle lands after the counter it started with.
LEMMA CoversStep ==
    ASSUME TypeOK, Receipts, OneAtATime, Sequential = TRUE, Covers, [Next]_vars
    PROVE  Covers'
<1> USE Kinds, KindsAssumption, ConstAssumption
<1>1. CASE Quiet
  BY <1>1 DEF Quiet, Covers, Active
<1>2. ASSUME NEW d \in CounterDeploys, DeployConfirmed(d) PROVE Covers'
  <2>1. /\ session'.contract_address = d /\ session'.deploy_block = receipt[d].block
        /\ session'.last_reference_block = receipt[d].block
        /\ receipt[d] # None /\ head' = head
    BY <1>2 DEF DeployConfirmed, DeployedSession, Entry, Confirmed, TypeOK, Session, Deploys,
                chainVars
  <2>2. d # None /\ receipt[d].block # None /\ receipt[d].block \in Nat
        /\ receipt[d].block <= head
    BY <2>1 DEF Receipts, Deploys, Requests, TypeOK, Blocks
  <2>3. \A c \in Cycles : ~Active(c)'
    BY <1>2, SoloSteps DEF Solo, Deploy, Deploys, Active
  <2> QED
    BY <2>1, <2>2, <2>3 DEF Covers
<1>3. ASSUME NEW c \in Cycles, CycleArrives(c) PROVE Covers'
  <2>1. /\ UNCHANGED <<session, head, receipt>>
        /\ pc[c] = "idle"
        /\ pc'[c] = IF session.contract_address # None /\ ReferenceBlock(session) # None
                    THEN "started" ELSE "refused"
    BY <1>3 DEF CycleArrives, Arrive, Goto, TypeOK, chainVars
  <2>2. receipt[c] = None
    BY <2>1 DEF Receipts, MaybeSent
  <2>3. \A q \in Cycles : q # c => ~Active(q)'
    BY <1>3, SoloSteps DEF Solo, Active
  <2>4. Active(c)' => session.contract_address # None
    BY <2>1 DEF Active, Ended
  <2> QED
    BY <2>1, <2>2, <2>3, <2>4 DEF Covers
<1>4. ASSUME NEW c \in Cycles, CycleInner(c) PROVE Covers'
  <2>1. UNCHANGED <<session, head, receipt>> /\ Active(c)
    BY <1>4, CycleInnerSteps, InnerIsActive
  <2>2. \A q \in Cycles : q # c => ~Active(q)'
    BY <1>4, SoloSteps DEF Solo, Active, CycleInner, Cycle
  <2> QED
    BY <2>1, <2>2 DEF Covers
<1>5. ASSUME NEW c \in Cycles, CycleLands(c) PROVE Covers'
  <2>1. /\ session' = [session EXCEPT !.last_reference_block = receipt[c].block]
        /\ receipt[c] # None /\ head' = head /\ receipt' = receipt /\ Active(c)
    BY <1>5, InnerIsActive DEF CycleLands, Entry, Confirmed, chainVars
  <2>2. \A q \in Cycles : ~Active(q)'
    BY <1>5, SoloSteps DEF Solo, Active, Ended, CycleLands, Goto, TypeOK, Cycle
  <2>3. receipt[c].block \in Nat /\ receipt[c].block # None
    BY <2>1 DEF Receipts, TypeOK, Blocks
  <2>4. session.contract_address # None /\ session.deploy_block < receipt[c].block
    BY <2>1 DEF Covers
  <2>5. session.deploy_block \in Nat
    BY <2>4 DEF Covers, TypeOK, Session, Opt, Blocks
  <2>6. /\ session'.contract_address = session.contract_address
        /\ session'.deploy_block = session.deploy_block
        /\ session'.last_reference_block = receipt[c].block
    BY <2>1 DEF TypeOK, Session
  <2> QED
    BY <2>1, <2>2, <2>3, <2>4, <2>5, <2>6 DEF Covers
<1>6. ASSUME NEW r \in pool, NEW ok \in BOOLEAN, Mine(r, ok) PROVE Covers'
  <2>1. UNCHANGED <<session, pc>> /\ head' = head + 1 /\ head \in Nat /\ r \in Requests
    BY <1>6 DEF Mine, TypeOK, Blocks
  <2>2. receipt'[r].block = head + 1 /\ \A q \in Requests : q # r => receipt'[q] = receipt[q]
    BY <1>6, <2>1 DEF Mine, TypeOK
  <2>3. session.contract_address # None => session.deploy_block \in Nat
    BY DEF Covers, TypeOK, Session, Opt, Blocks
  <2> QED
    BY <2>1, <2>2, <2>3 DEF Covers, Active
<1>7. ASSUME NEW bump \in {0, 1}, MineOther(bump) PROVE Covers'
  <2>1. UNCHANGED <<session, pc, receipt>> /\ head' = head + 1 /\ head \in Nat
    BY <1>7 DEF MineOther, TypeOK, Blocks
  <2>2. session.contract_address # None => session.deploy_block \in Nat
    BY DEF Covers, TypeOK, Session, Opt, Blocks
  <2> QED
    BY <2>1, <2>2 DEF Covers, Active
<1>8. CASE UNCHANGED vars
  BY <1>8 DEF vars, chainVars, Covers, Active
<1> QED
  BY <1>1, <1>2, <1>3, <1>4, <1>5, <1>6, <1>7, <1>8, QuietSteps
     DEF Next, Arrivals, Handler, Chain, Deploys, Deploy, Cycle, CycleInner

\* Of a client that sends one request after the other, the invariant holds.
THEOREM OneAfterTheOther ==
    ASSUME Sequential = TRUE PROVE Spec => [](TypeOK /\ SequentialInv)
<1> DEFINE I == TypeOK /\ WellFormed /\ Receipts /\ SequentialInv
<1>1. Init => I
  <2> SUFFICES ASSUME Init PROVE I
    OBVIOUS
  <2>1. TypeOK /\ WellFormed /\ Receipts
    BY InitTyped, InitIInv DEF IInv
  <2>2. OneAtATime /\ Covers
    BY Kinds DEF Init, NewSession, OneAtATime, Covers, Active
  <2>3. \A c \in Cycles : OwnWork(c)
    BY Kinds DEF Init, OwnWork
  <2> QED
    BY <2>1, <2>2, <2>3 DEF SequentialInv
<1>2. I /\ [Next]_vars => I'
  <2> SUFFICES ASSUME I, [Next]_vars PROVE I'
    OBVIOUS
  <2>1. TypeOK' /\ WellFormed' /\ Receipts'
    BY TypeStep, WellFormedStep, ReceiptsStep
  <2>2. OneAtATime' /\ Covers'
    BY OneAtATimeStep, CoversStep DEF SequentialInv
  <2>3. \A c \in Cycles : OwnWork(c)'
    BY OwnWorkStep DEF SequentialInv
  <2> QED
    BY <2>1, <2>2, <2>3 DEF SequentialInv
<1>3. I => TypeOK /\ SequentialInv
  OBVIOUS
<1> HIDE DEF I
<1> QED
  BY <1>1, <1>2, <1>3, PTL DEF Spec

\* A cycle of such a client submits the proof and the facts of its own
\* transaction.
THEOREM CyclesSubmitTheirOwn == ASSUME Sequential = TRUE PROVE Spec => []SubmitsWhatItProved
<1>1. TypeOK /\ SequentialInv => SubmitsWhatItProved
  BY DEF SequentialInv, OwnWork, SubmitsWhatItProved
<1> QED
  BY <1>1, OneAfterTheOther, PTL

\* The counter of such a client exists at the reference block.
THEOREM ReferencesCoverTheCounter ==
    ASSUME Sequential = TRUE PROVE Spec => []ReferenceCoversContract
<1>1. TypeOK /\ SequentialInv => ReferenceCoversContract
  BY ConstAssumption
     DEF SequentialInv, Covers, ReferenceCoversContract, TypeOK, Session, Opt, Blocks
<1> QED
  BY <1>1, OneAfterTheOther, PTL
=============================================================================
