-------------------------- MODULE PlaygroundProofs --------------------------
(***************************************************************************)
(* Proofs about Playground, for every set of requests and every bound: its *)
(* types, and, for a session with one counter, that the reference block    *)
(* only moves forward and that completed cycles used different ones.       *)
(***************************************************************************)
EXTENDS PlaygroundInvariant, TLAPS

\* A session in which deploy-counter is called at most once.
OneCounter == \A d, e \in CounterDeploys : d = e

-----------------------------------------------------------------------------
(* Types *)

\* Every kind of request is a request.
LEMMA Kinds ==
    /\ \A r \in Deploys : r \in Requests
    /\ \A r \in Invokes : r \in Requests
    /\ \A r \in Proves : r \in Requests
    /\ \A r \in Cycles : r \in Requests
    /\ \A r \in Submits : r \in Requests
BY DEF Requests

\* The control points the handlers jump to.
LEMMA PcNames ==
    /\ "done" \in Pcs /\ "refused" \in Pcs /\ "failed" \in Pcs /\ "warned" \in Pcs
    /\ "idle" \in Pcs /\ "sent" \in Pcs /\ "started" \in Pcs /\ "waiting" \in Pcs
    /\ "located" \in Pcs /\ "running" \in Pcs /\ "proofWritten" \in Pcs
    /\ "factsWritten" \in Pcs /\ "built" \in Pcs /\ "proved" \in Pcs
    /\ "proofRead" \in Pcs /\ "submitting" \in Pcs /\ "sleeping" \in Pcs
    /\ "verifying" \in Pcs
BY DEF Pcs, Ended

\* A jump of one request keeps the control points typed.
LEMMA PcStep ==
    ASSUME NEW r \in Requests, NEW from, NEW to \in Pcs,
           pc \in [Requests -> Pcs], Goto(r, from, to)
    PROVE  pc' \in [Requests -> Pcs]
BY DEF Goto

\* The closures handed to update_session_with keep the session typed.
LEMMA SessionFields ==
    ASSUME NEW s \in Session
    PROVE  /\ \A a \in AccountDeploys : [s EXCEPT !.account_address = a] \in Session
           /\ \A d \in CounterDeploys, b \in Blocks :
                [s EXCEPT !.contract_address = d, !.deploy_block = b,
                          !.last_reference_block = b] \in Session
           /\ \A i \in Invokes : [s EXCEPT !.last_invoke_tx = i] \in Session
           /\ \A b \in Blocks : /\ [s EXCEPT !.invoke_block = b] \in Session
                                /\ [s EXCEPT !.prove_block = b] \in Session
                                /\ [s EXCEPT !.last_reference_block = b] \in Session
           /\ [s EXCEPT !.proof_file = TRUE] \in Session
<1>1. \A a \in AccountDeploys : [s EXCEPT !.account_address = a] \in Session
  BY DEF Session, Opt
<1>2. \A d \in CounterDeploys, b \in Blocks :
        [s EXCEPT !.contract_address = d, !.deploy_block = b,
                  !.last_reference_block = b] \in Session
  BY DEF Session, Opt
<1>3. \A i \in Invokes : [s EXCEPT !.last_invoke_tx = i] \in Session
  BY DEF Session, Opt
<1>4. \A b \in Blocks : /\ [s EXCEPT !.invoke_block = b] \in Session
                         /\ [s EXCEPT !.prove_block = b] \in Session
                         /\ [s EXCEPT !.last_reference_block = b] \in Session
  BY DEF Session, Opt
<1>5. [s EXCEPT !.proof_file = TRUE] \in Session
  BY DEF Session, Opt
<1> QED
  BY <1>1, <1>2, <1>3, <1>4, <1>5

\* The server starts with an empty session, well typed.
LEMMA InitTyped == Init => TypeOK /\ WellFormed
<1> SUFFICES ASSUME Init PROVE TypeOK /\ WellFormed
  OBVIOUS
<1>1. NewSession \in Session
  BY DEF NewSession, Session, Opt
<1>2. TypeOK
  BY <1>1, PcNames, ConstAssumption DEF Init, TypeOK, Opt, Blocks, Files
<1>3. WellFormed
  BY Kinds, ConstAssumption DEF Init, WellFormed
<1> QED
  BY <1>2, <1>3

\* Every step keeps the types, given what the requests have looked up.
LEMMA TypeStep == TypeOK /\ WellFormed /\ [Next]_vars => TypeOK'
<1> SUFFICES ASSUME TypeOK, WellFormed, [Next]_vars PROVE TypeOK'
  OBVIOUS
<1> USE Kinds, PcNames DEF TypeOK
<1>1. ASSUME NEW r \in Deploys, DeployArrives(r) PROVE TypeOK'
  <2> QED
    BY <1>1, PcStep DEF DeployArrives, Arrive, chainVars, proofVars
<1>2. ASSUME NEW r \in Deploys, DeploySent(r) PROVE TypeOK'
  <2>1. pool' \subseteq Requests
    BY <1>2 DEF DeploySent
  <2> QED
    BY <1>2, <2>1, PcStep DEF DeploySent, chainVars, proofVars
<1>3. ASSUME NEW r \in Deploys, DeployConfirmed(r) PROVE TypeOK'
  <2>1. receipt[r].block \in Blocks
    BY <1>3 DEF DeployConfirmed, Confirmed, Opt
  <2>2. session' \in Session
    BY <1>3, <2>1, SessionFields, KindsAssumption DEF DeployConfirmed, DeployedSession, Entry, Deploys
  <2> QED
    BY <1>3, <2>1, <2>2, PcStep DEF DeployConfirmed, chainVars, proofVars
<1>4. ASSUME NEW r \in Deploys, DeployFails(r) PROVE TypeOK'
  <2> QED
    BY <1>4, PcStep DEF DeployFails, chainVars, proofVars
<1>5. ASSUME NEW i \in Invokes, InvokeArrives(i) PROVE TypeOK'
  <2>1. clone' \in [Requests -> Session]
    BY <1>5 DEF InvokeArrives, GetSession
  <2> QED
    BY <1>5, <2>1, PcStep DEF InvokeArrives, Arrive, chainVars, proofVars
<1>6. ASSUME NEW i \in Invokes, InvokeSent(i) PROVE TypeOK'
  <2>1. pool' \subseteq Requests
    BY <1>6 DEF InvokeSent
  <2>2. session' \in Session
    BY <1>6, <2>1, SessionFields DEF InvokeSent, Entry
  <2> QED
    BY <1>6, <2>1, <2>2, PcStep DEF InvokeSent, chainVars, proofVars
<1>7. ASSUME NEW i \in Invokes, InvokeRejected(i) PROVE TypeOK'
  <2> QED
    BY <1>7, PcStep DEF InvokeRejected, chainVars, proofVars
<1>8. ASSUME NEW i \in Invokes, InvokeConfirmed(i) PROVE TypeOK'
  <2>1. receipt[i].block \in Blocks
    BY <1>8 DEF InvokeConfirmed, Confirmed, Opt
  <2>2. session' \in Session
    BY <1>8, <2>1, SessionFields DEF InvokeConfirmed, Entry
  <2> QED
    BY <1>8, <2>1, <2>2, PcStep DEF InvokeConfirmed, chainVars, proofVars
<1>9. ASSUME NEW i \in Invokes, InvokeTimesOut(i) PROVE TypeOK'
  <2> QED
    BY <1>9, PcStep DEF InvokeTimesOut, chainVars, proofVars
<1>10. ASSUME NEW p \in Proves, ProveArrives(p) PROVE TypeOK'
  <2>1. clone' \in [Requests -> Session]
    BY <1>10 DEF ProveArrives, GetSession
  <2> QED
    BY <1>10, <2>1, PcStep DEF ProveArrives, Arrive, chainVars, proofVars
<1>11. ASSUME NEW p \in Proves, ProveReadsBlock(p) PROVE TypeOK'
  <2>1. session.invoke_block \in Opt(Blocks)
    BY <1>11 DEF ProveReadsBlock, Session
  <2>2. blk' \in [Requests -> Opt(Blocks)]
    BY <1>11, <2>1 DEF ProveReadsBlock
  <2> QED
    BY <1>11, <2>1, <2>2, PcStep DEF ProveReadsBlock, chainVars, proofVars
<1>12. ASSUME NEW p \in Proves, ProveAwaitsTx(p) PROVE TypeOK'
  <2>1. clone[p].last_invoke_tx \in Invokes
    BY <1>12 DEF ProveAwaitsTx, WellFormed, Session, Opt, Goto
  <2>2. blk' \in [Requests -> Opt(Blocks)]
    BY <1>12, <2>1 DEF ProveAwaitsTx, Confirmed, Opt
  <2> QED
    BY <1>12, <2>1, <2>2, PcStep DEF ProveAwaitsTx, chainVars, proofVars
<1>13. ASSUME NEW p \in Proves, ProveLaunches(p) PROVE TypeOK'
  <2>1. blk[p] - 1 \in Blocks
    BY <1>13, ConstAssumption DEF ProveLaunches, WellFormed, Opt, Blocks, Goto
  <2>2. blk' \in [Requests -> Opt(Blocks)]
    BY <1>13, <2>1 DEF ProveLaunches, Opt
  <2>3. session' \in Session
    BY <1>13, <2>1, <2>2, SessionFields DEF ProveLaunches, Entry
  <2> QED
    BY <1>13, <2>1, <2>2, <2>3, PcStep DEF ProveLaunches, chainVars, proofVars
<1>14. ASSUME NEW p \in Proves, ProveFails(p) PROVE TypeOK'
  <2> QED
    BY <1>14, PcStep DEF ProveFails, chainVars, proofVars
<1>15. ASSUME NEW p \in Proves, ScriptSavesProof(p) PROVE TypeOK'
  <2>1. clone[p].last_invoke_tx \in Invokes /\ blk[p] \in Blocks
    BY <1>15 DEF ScriptSavesProof, WellFormed, Session, Opt, Goto
  <2>2. files' \in Files
    BY <1>15, <2>1 DEF ScriptSavesProof, Files, Proof, Opt
  <2> QED
    BY <1>15, <2>1, <2>2, PcStep DEF ScriptSavesProof, chainVars, proofVars
<1>16. ASSUME NEW p \in Proves, ScriptSavesFacts(p) PROVE TypeOK'
  <2>1. clone[p].last_invoke_tx \in Invokes /\ blk[p] \in Blocks
    BY <1>16 DEF ScriptSavesFacts, WellFormed, Session, Opt, Goto
  <2>2. files' \in Files
    BY <1>16, <2>1 DEF ScriptSavesFacts, Files, Proof, Opt
  <2> QED
    BY <1>16, <2>1, <2>2, PcStep DEF ScriptSavesFacts, chainVars, proofVars
<1>17. ASSUME NEW p \in Proves, ProveEnds(p) PROVE TypeOK'
  <2>1. session' \in Session
    BY <1>17, SessionFields DEF ProveEnds, Entry
  <2> QED
    BY <1>17, <2>1, PcStep DEF ProveEnds, chainVars, proofVars
<1>18. ASSUME NEW c \in Cycles, CycleArrives(c) PROVE TypeOK'
  <2>1. clone' \in [Requests -> Session]
    BY <1>18 DEF CycleArrives, GetSession
  <2>2. ReferenceBlock(session) \in Opt(Blocks)
    BY <1>18, <2>1 DEF CycleArrives, ReferenceBlock, Session
  <2>3. blk' \in [Requests -> Opt(Blocks)]
    BY <1>18, <2>1, <2>2 DEF CycleArrives
  <2> QED
    BY <1>18, <2>1, <2>2, <2>3, PcStep DEF CycleArrives, Arrive, chainVars, proofVars
<1>19. ASSUME NEW c \in Cycles, CycleConstructs(c) PROVE TypeOK'
  <2>1. blk[c] \in Blocks
    BY <1>19 DEF CycleConstructs, WellFormed, Opt, Goto
  <2>2. nonce' \in [Requests -> Nat]
    BY <1>19, <2>1 DEF CycleConstructs, CycleNonce
  <2>3. files' \in Files
    BY <1>19, <2>1, <2>2 DEF CycleConstructs, Files, Opt
  <2> QED
    BY <1>19, <2>1, <2>2, <2>3, PcStep DEF CycleConstructs, chainVars, proofVars
<1>20. ASSUME NEW c \in Cycles, CycleStartsProver(c) PROVE TypeOK'
  <2>1. work' \in [Requests -> Opt(Cycles)]
    BY <1>20 DEF CycleStartsProver, Files
  <2> QED
    BY <1>20, <2>1, PcStep DEF CycleStartsProver, chainVars, proofVars
<1>21. ASSUME NEW c \in Cycles, CycleProverSavesProof(c) PROVE TypeOK'
  <2>1. work[c] \in Cycles /\ blk[c] \in Blocks
    BY <1>21 DEF CycleProverSavesProof, WellFormed, Opt, Goto
  <2>2. files' \in Files
    BY <1>21, <2>1 DEF CycleProverSavesProof, Files, Proof, Opt
  <2> QED
    BY <1>21, <2>1, <2>2, PcStep DEF CycleProverSavesProof, chainVars, proofVars
<1>22. ASSUME NEW c \in Cycles, CycleProverSucceeds(c) PROVE TypeOK'
  <2>1. work[c] \in Cycles /\ blk[c] \in Blocks
    BY <1>22 DEF CycleProverSucceeds, WellFormed, Opt, Goto
  <2>2. files' \in Files
    BY <1>22, <2>1 DEF CycleProverSucceeds, Files, Proof, Opt
  <2> QED
    BY <1>22, <2>1, <2>2, PcStep DEF CycleProverSucceeds, chainVars, proofVars
<1>23. ASSUME NEW c \in Cycles, CycleReadsProof(c) PROVE TypeOK'
  <2>1. read' \in [Requests -> [proof : Opt(Proof), facts : Opt(Proof)]]
    BY <1>23 DEF CycleReadsProof, Files
  <2> QED
    BY <1>23, <2>1, PcStep DEF CycleReadsProof, chainVars, proofVars
<1>24. ASSUME NEW c \in Cycles, CycleReadsFacts(c) PROVE TypeOK'
  <2>1. read' \in [Requests -> [proof : Opt(Proof), facts : Opt(Proof)]]
    BY <1>24 DEF CycleReadsFacts, Files
  <2> QED
    BY <1>24, <2>1, PcStep DEF CycleReadsFacts, chainVars, proofVars
<1>25. ASSUME NEW c \in Cycles, CycleAccepted(c) PROVE TypeOK'
  <2>1. pool' \subseteq Requests
    BY <1>25 DEF CycleAccepted
  <2>2. attempt[c] + 1 \in 0..MaxAttempts
    BY <1>25, <2>1, ConstAssumption DEF CycleAccepted, WellFormed, Goto
  <2>3. attempt' \in [Requests -> 0..MaxAttempts]
    BY <1>25, <2>1, <2>2 DEF CycleAccepted
  <2> QED
    BY <1>25, <2>1, <2>2, <2>3, PcStep DEF CycleAccepted, chainVars, proofVars
<1>26. ASSUME NEW c \in Cycles, CycleRetries(c) PROVE TypeOK'
  <2>1. attempt[c] + 1 \in 0..MaxAttempts
    BY <1>26, ConstAssumption DEF CycleRetries, MayRetry
  <2>2. attempt' \in [Requests -> 0..MaxAttempts]
    BY <1>26, <2>1 DEF CycleRetries
  <2> QED
    BY <1>26, <2>1, <2>2, PcStep DEF CycleRetries, chainVars, proofVars
<1>27. ASSUME NEW c \in Cycles, CycleWakes(c) PROVE TypeOK'
  <2> QED
    BY <1>27, PcStep DEF CycleWakes, chainVars, proofVars
<1>28. ASSUME NEW c \in Cycles, CycleLands(c) PROVE TypeOK'
  <2>1. receipt[c].block \in Blocks
    BY <1>28 DEF CycleLands, Confirmed, Opt
  <2>2. session' \in Session
    BY <1>28, <2>1, SessionFields DEF CycleLands, Entry
  <2> QED
    BY <1>28, <2>1, <2>2, PcStep DEF CycleLands, chainVars, proofVars
<1>29. ASSUME NEW c \in Cycles, CycleFails(c) PROVE TypeOK'
  <2> QED
    BY <1>29, PcStep DEF CycleFails, chainVars, proofVars
<1>30. ASSUME NEW u \in Submits, SubmitArrives(u) PROVE TypeOK'
  <2>1. clone' \in [Requests -> Session]
    BY <1>30 DEF SubmitArrives, GetSession
  <2> QED
    BY <1>30, <2>1, PcStep DEF SubmitArrives, Arrive, chainVars, proofVars
<1>31. ASSUME NEW u \in Submits, SubmitReadsProof(u) PROVE TypeOK'
  <2>1. read' \in [Requests -> [proof : Opt(Proof), facts : Opt(Proof)]]
    BY <1>31 DEF SubmitReadsProof, Files
  <2> QED
    BY <1>31, <2>1, PcStep DEF SubmitReadsProof, chainVars, proofVars
<1>32. ASSUME NEW u \in Submits, SubmitSigns(u) PROVE TypeOK'
  <2>1. read' \in [Requests -> [proof : Opt(Proof), facts : Opt(Proof)]]
    BY <1>32 DEF SubmitSigns, Files
  <2>2. nonce' \in [Requests -> Nat]
    BY <1>32, <2>1, ConstAssumption DEF SubmitSigns, Blocks
  <2> QED
    BY <1>32, <2>1, <2>2, PcStep DEF SubmitSigns, chainVars, proofVars
<1>33. ASSUME NEW u \in Submits, SubmitAccepted(u) PROVE TypeOK'
  <2>1. pool' \subseteq Requests
    BY <1>33 DEF SubmitAccepted
  <2> QED
    BY <1>33, <2>1, PcStep DEF SubmitAccepted, chainVars, proofVars
<1>34. ASSUME NEW u \in Submits, SubmitFails(u) PROVE TypeOK'
  <2> QED
    BY <1>34, PcStep DEF SubmitFails, chainVars, proofVars
<1>35. ASSUME NEW r \in pool, NEW ok \in BOOLEAN, Mine(r, ok) PROVE TypeOK'
  <2>1. head' \in Blocks /\ [block |-> head + 1, ok |-> ok] \in [block : Blocks, ok : BOOLEAN]
    BY <1>35, ConstAssumption DEF Mine, Blocks
  <2>2. nonceAt' \in [Blocks -> Nat]
    BY <1>35, ConstAssumption DEF Mine, Blocks
  <2>3. receipt' \in [Requests -> Opt([block : Blocks, ok : BOOLEAN])]
    BY <1>35, <2>1 DEF Mine, Opt
  <2> QED
    BY <1>35, <2>1, <2>2, <2>3 DEF Mine, proofVars
<1>36. ASSUME NEW bump \in {0, 1}, MineOther(bump) PROVE TypeOK'
  BY <1>36, ConstAssumption DEF MineOther, proofVars, Blocks, Opt
<1>38. ASSUME NEW r \in Requests, ReplyLost(r) PROVE TypeOK'
  <2>1. pool' \subseteq Requests
    BY <1>38 DEF ReplyLost
  <2> QED
    BY <1>38, <2>1, PcStep DEF ReplyLost, chainVars, proofVars
<1>37. CASE UNCHANGED vars
  BY <1>37 DEF vars, chainVars, proofVars
<1> QED
  BY <1>1, <1>2, <1>3, <1>4, <1>5, <1>6, <1>7, <1>8, <1>9, <1>10,
     <1>11, <1>12, <1>13, <1>14, <1>15, <1>16, <1>17, <1>18, <1>19, <1>20,
     <1>21, <1>22, <1>23, <1>24, <1>25, <1>26, <1>27, <1>28, <1>29, <1>30,
     <1>31, <1>32, <1>33, <1>34, <1>35, <1>36, <1>37, <1>38
     DEF Next, Arrivals, Handler, Chain, Deploy, Invoke, Prove, Cycle, Submit

\* Every step leaves the requests well formed.
LEMMA WellFormedStep == TypeOK /\ WellFormed /\ [Next]_vars => WellFormed'
<1> SUFFICES ASSUME TypeOK, WellFormed, [Next]_vars PROVE WellFormed'
  OBVIOUS
<1> USE Kinds, KindsAssumption, ConstAssumption DEF TypeOK, WellFormed, Goto
<1>1. ASSUME NEW r \in Deploys, DeployArrives(r) PROVE WellFormed'
  BY <1>1 DEF DeployArrives, Arrive, GetSession, chainVars, proofVars
<1>2. ASSUME NEW r \in Deploys, DeploySent(r) PROVE WellFormed'
  BY <1>2 DEF DeploySent, chainVars, proofVars
<1>3. ASSUME NEW r \in Deploys, DeployConfirmed(r) PROVE WellFormed'
  BY <1>3 DEF DeployConfirmed, chainVars, proofVars
<1>4. ASSUME NEW r \in Deploys, DeployFails(r) PROVE WellFormed'
  BY <1>4 DEF DeployFails, chainVars, proofVars
<1>5. ASSUME NEW i \in Invokes, InvokeArrives(i) PROVE WellFormed'
  BY <1>5 DEF InvokeArrives, Arrive, GetSession, chainVars, proofVars
<1>6. ASSUME NEW i \in Invokes, InvokeSent(i) PROVE WellFormed'
  BY <1>6 DEF InvokeSent, chainVars, proofVars
<1>7. ASSUME NEW i \in Invokes, InvokeRejected(i) PROVE WellFormed'
  BY <1>7 DEF InvokeRejected, chainVars, proofVars
<1>8. ASSUME NEW i \in Invokes, InvokeConfirmed(i) PROVE WellFormed'
  BY <1>8 DEF InvokeConfirmed, chainVars, proofVars
<1>9. ASSUME NEW i \in Invokes, InvokeTimesOut(i) PROVE WellFormed'
  BY <1>9 DEF InvokeTimesOut, chainVars, proofVars
<1>10. ASSUME NEW p \in Proves, ProveArrives(p) PROVE WellFormed'
  BY <1>10 DEF ProveArrives, Arrive, GetSession, chainVars, proofVars
<1>11. ASSUME NEW p \in Proves, ProveReadsBlock(p) PROVE WellFormed'
  BY <1>11 DEF ProveReadsBlock, chainVars, proofVars
<1>12. ASSUME NEW p \in Proves, ProveAwaitsTx(p) PROVE WellFormed'
  <2>1. clone[p].last_invoke_tx \in Invokes
    BY <1>12, Kinds DEF ProveAwaitsTx, Goto, Opt, Session, WellFormed
  <2>2. receipt[clone[p].last_invoke_tx].block \in Blocks
    BY <1>12, <2>1, Kinds DEF ProveAwaitsTx, Confirmed, Opt
  <2>3. receipt[clone[p].last_invoke_tx].block # None
    BY <2>2, ConstAssumption DEF Blocks
  <2> QED
    BY <1>12, <2>3 DEF ProveAwaitsTx, chainVars
<1>13. ASSUME NEW p \in Proves, ProveLaunches(p) PROVE WellFormed'
  <2>1. PICK to \in {"running", "failed"} : Goto(p, "located", to)
    BY <1>13 DEF ProveLaunches
  <2>2. blk[p] - 1 # None /\ clone' = clone /\ blk' = [blk EXCEPT ![p] = blk[p] - 1]
        /\ UNCHANGED <<files, work, attempt>>
    BY <1>13, <2>1 DEF ProveLaunches, Opt, Blocks
  <2> QED
    BY <2>1, <2>2
<1>14. ASSUME NEW p \in Proves, ProveFails(p) PROVE WellFormed'
  BY <1>14 DEF ProveFails, chainVars, proofVars
<1>15. ASSUME NEW p \in Proves, ScriptSavesProof(p) PROVE WellFormed'
  BY <1>15 DEF ScriptSavesProof, chainVars, proofVars, Files
<1>16. ASSUME NEW p \in Proves, ScriptSavesFacts(p) PROVE WellFormed'
  BY <1>16 DEF ScriptSavesFacts, chainVars, proofVars, Files
<1>17. ASSUME NEW p \in Proves, ProveEnds(p) PROVE WellFormed'
  BY <1>17 DEF ProveEnds, chainVars, proofVars
<1>18. ASSUME NEW c \in Cycles, CycleArrives(c) PROVE WellFormed'
  BY <1>18 DEF CycleArrives, Arrive, GetSession, chainVars, proofVars
<1>19. ASSUME NEW c \in Cycles, CycleConstructs(c) PROVE WellFormed'
  BY <1>19 DEF CycleConstructs, chainVars, proofVars, Files
<1>20. ASSUME NEW c \in Cycles, CycleStartsProver(c) PROVE WellFormed'
  BY <1>20 DEF CycleStartsProver, chainVars, proofVars
<1>21. ASSUME NEW c \in Cycles, CycleProverSavesProof(c) PROVE WellFormed'
  BY <1>21 DEF CycleProverSavesProof, chainVars, proofVars, Files
<1>22. ASSUME NEW c \in Cycles, CycleProverSucceeds(c) PROVE WellFormed'
  BY <1>22 DEF CycleProverSucceeds, chainVars, proofVars
<1>23. ASSUME NEW c \in Cycles, CycleReadsProof(c) PROVE WellFormed'
  BY <1>23 DEF CycleReadsProof, chainVars, proofVars
<1>24. ASSUME NEW c \in Cycles, CycleReadsFacts(c) PROVE WellFormed'
  BY <1>24 DEF CycleReadsFacts, chainVars, proofVars
<1>25. ASSUME NEW c \in Cycles, CycleAccepted(c) PROVE WellFormed'
  BY <1>25 DEF CycleAccepted, chainVars, proofVars
<1>26. ASSUME NEW c \in Cycles, CycleRetries(c) PROVE WellFormed'
  BY <1>26 DEF CycleRetries, chainVars, proofVars, MayRetry
<1>27. ASSUME NEW c \in Cycles, CycleWakes(c) PROVE WellFormed'
  BY <1>27 DEF CycleWakes, chainVars, proofVars
<1>28. ASSUME NEW c \in Cycles, CycleLands(c) PROVE WellFormed'
  BY <1>28 DEF CycleLands, chainVars, proofVars
<1>29. ASSUME NEW c \in Cycles, CycleFails(c) PROVE WellFormed'
  BY <1>29 DEF CycleFails, chainVars, proofVars
<1>30. ASSUME NEW u \in Submits, SubmitArrives(u) PROVE WellFormed'
  BY <1>30 DEF SubmitArrives, Arrive, GetSession, chainVars, proofVars
<1>31. ASSUME NEW u \in Submits, SubmitReadsProof(u) PROVE WellFormed'
  BY <1>31 DEF SubmitReadsProof, chainVars, proofVars
<1>32. ASSUME NEW u \in Submits, SubmitSigns(u) PROVE WellFormed'
  BY <1>32 DEF SubmitSigns, chainVars, proofVars
<1>33. ASSUME NEW u \in Submits, SubmitAccepted(u) PROVE WellFormed'
  BY <1>33 DEF SubmitAccepted, chainVars, proofVars
<1>34. ASSUME NEW u \in Submits, SubmitFails(u) PROVE WellFormed'
  BY <1>34 DEF SubmitFails, chainVars, proofVars
<1>37. ASSUME NEW r \in Requests, ReplyLost(r) PROVE WellFormed'
  BY <1>37 DEF ReplyLost, chainVars, proofVars
<1>35. CASE Chain
  BY <1>35 DEF Chain, Mine, MineOther, proofVars
<1>36. CASE UNCHANGED vars
  BY <1>36 DEF vars, chainVars, proofVars
<1> QED
  BY <1>1, <1>2, <1>3, <1>4, <1>5, <1>6, <1>7, <1>8, <1>9, <1>10,
     <1>11, <1>12, <1>13, <1>14, <1>15, <1>16, <1>17, <1>18, <1>19, <1>20,
     <1>21, <1>22, <1>23, <1>24, <1>25, <1>26, <1>27, <1>28, <1>29, <1>30,
     <1>31, <1>32, <1>33, <1>34, <1>35, <1>36, <1>37
     DEF Next, Arrivals, Handler, Deploy, Invoke, Prove, Cycle, Submit

\* Types, for every set of requests: the session entry, the files and the
\* requests' locals always hold values of their kinds.
THEOREM TypeCorrect == Spec => []TypeOK
<1>1. TypeOK /\ WellFormed /\ [Next]_vars => (TypeOK /\ WellFormed)'
  BY TypeStep, WellFormedStep
<1> QED
  BY <1>1, InitTyped, PTL DEF Spec

-----------------------------------------------------------------------------
(* What a step may change *)

\* A step that concerns neither cycles nor the counter nor the chain.
Quiet ==
    /\ UNCHANGED <<head, nonceAt, receipt>>
    /\ \A f \in {"contract_address", "deploy_block", "last_reference_block"} :
         session'[f] = session[f]
    /\ \A c \in Cycles : pc'[c] = pc[c] /\ blk'[c] = blk[c] /\ nonce'[c] = nonce[c]
    /\ \A d \in CounterDeploys : pc[d] = "done" => pc'[d] = "done"

\* How a handler's step may move requests in and out of the pool.
PoolMoves ==
    /\ UNCHANGED <<head, nonceAt, receipt>>
    /\ \A r \in Requests :
         /\ r \in pool' => r \in pool \/ (pc[r] \notin MaybeSent /\ pc'[r] \in MaybeSent)
         /\ pc'[r] \notin MaybeSent => pc[r] \notin MaybeSent

\* Requests other than cycles and deployments of the counter are quiet.
LEMMA QuietSteps ==
    ASSUME TypeOK
    PROVE  /\ \A r \in Deploys : DeployArrives(r) \/ DeploySent(r) \/ DeployFails(r) => Quiet
           /\ \A r \in Funds \cup AccountDeploys : DeployConfirmed(r) => Quiet
           /\ \A i \in Invokes : InvokeArrives(i) \/ Invoke(i) => Quiet
           /\ \A p \in Proves : ProveArrives(p) \/ Prove(p) => Quiet
           /\ \A u \in Submits : SubmitArrives(u) \/ Submit(u) => Quiet
           /\ \A r \in Requests \ Cycles : ReplyLost(r) => Quiet
<1> USE Kinds, KindsAssumption
        DEF TypeOK, Quiet, Goto, Arrive, GetSession, Entry, chainVars, proofVars
<1>1. ASSUME NEW r \in Deploys, DeployArrives(r) \/ DeploySent(r) \/ DeployFails(r)
      PROVE  Quiet
  BY <1>1 DEF DeployArrives, DeploySent, DeployFails, Deploys
<1>2. ASSUME NEW r \in Funds \cup AccountDeploys, DeployConfirmed(r) PROVE Quiet
  BY <1>2 DEF DeployConfirmed, DeployedSession, Session, Deploys
<1>3. ASSUME NEW i \in Invokes, InvokeArrives(i) \/ Invoke(i) PROVE Quiet
  BY <1>3 DEF InvokeArrives, Invoke, InvokeSent, InvokeRejected, InvokeConfirmed,
              InvokeTimesOut, Session, Deploys
<1>4. ASSUME NEW p \in Proves, ProveArrives(p) \/ Prove(p) PROVE Quiet
  BY <1>4 DEF ProveArrives, Prove, ProveReadsBlock, ProveAwaitsTx, ProveLaunches,
              ProveFails, ScriptSavesProof, ScriptSavesFacts, ProveEnds, Session, Deploys
<1>5. ASSUME NEW u \in Submits, SubmitArrives(u) \/ Submit(u) PROVE Quiet
  BY <1>5 DEF SubmitArrives, Submit, SubmitReadsProof, SubmitSigns, SubmitAccepted,
              SubmitFails, Deploys
<1>6. ASSUME NEW r \in Requests \ Cycles, ReplyLost(r) PROVE Quiet
  BY <1>6 DEF ReplyLost, Deploys
<1> QED
  BY <1>1, <1>2, <1>3, <1>4, <1>5, <1>6

\* Handlers put only their own request into the pool, once.
LEMMA HandlersMovePool == TypeOK /\ (Arrivals \/ Handler \/ UNCHANGED vars) => PoolMoves
<1> SUFFICES ASSUME TypeOK, Arrivals \/ Handler \/ UNCHANGED vars PROVE PoolMoves
  OBVIOUS
<1> USE Kinds DEF TypeOK, PoolMoves, MaybeSent, Goto, Arrive, chainVars, proofVars
<1>1. ASSUME NEW r \in Deploys, DeployArrives(r) \/ Deploy(r) PROVE PoolMoves
  BY <1>1 DEF DeployArrives, Deploy, DeploySent, DeployConfirmed, DeployFails
<1>2. ASSUME NEW i \in Invokes, InvokeArrives(i) \/ Invoke(i) PROVE PoolMoves
  BY <1>2 DEF InvokeArrives, Invoke, InvokeSent, InvokeRejected, InvokeConfirmed,
              InvokeTimesOut
<1>3. ASSUME NEW p \in Proves, ProveArrives(p) \/ Prove(p) PROVE PoolMoves
  BY <1>3 DEF ProveArrives, Prove, ProveReadsBlock, ProveAwaitsTx, ProveLaunches,
              ProveFails, ScriptSavesProof, ScriptSavesFacts, ProveEnds
<1>4. ASSUME NEW c \in Cycles, CycleArrives(c) \/ Cycle(c) PROVE PoolMoves
  BY <1>4 DEF CycleArrives, Cycle, CycleConstructs, CycleStartsProver,
              CycleProverSavesProof, CycleProverSucceeds, CycleReadsProof,
              CycleReadsFacts, CycleAccepted, CycleRetries, CycleWakes, CycleLands,
              CycleFails
<1>5. ASSUME NEW u \in Submits, SubmitArrives(u) \/ Submit(u) PROVE PoolMoves
  BY <1>5 DEF SubmitArrives, Submit, SubmitReadsProof, SubmitSigns, SubmitAccepted,
              SubmitFails
<1>6. ASSUME NEW r \in Requests, ReplyLost(r) PROVE PoolMoves
  BY <1>6 DEF ReplyLost
<1>7. CASE UNCHANGED vars
  BY <1>7 DEF vars
<1> QED
  BY <1>1, <1>2, <1>3, <1>4, <1>5, <1>6, <1>7 DEF Arrivals, Handler

-----------------------------------------------------------------------------
(* The inductive invariant *)

\* The invariant holds of a server that has just started.
LEMMA InitIInv == Init => IInv
<1> SUFFICES ASSUME Init PROVE IInv
  OBVIOUS
<1>1. WellFormed
  BY InitTyped
<1>2. NoncesGrow
  BY ConstAssumption DEF Init, NoncesGrow, Blocks
<1>3. Receipts
  BY DEF Init, Receipts
<1>4. References
  BY DEF Init, NewSession, References
<1>5. CycleNonces
  BY Kinds DEF Init, CycleNonces
<1> QED
  BY <1>1, <1>2, <1>3, <1>4, <1>5 DEF IInv

\* Only blocks change nonces, and only those beyond the head.
LEMMA NoncesGrowStep == TypeOK /\ NoncesGrow /\ [Next]_vars => NoncesGrow'
<1> SUFFICES ASSUME TypeOK, NoncesGrow, [Next]_vars PROVE NoncesGrow'
  OBVIOUS
<1>1. CASE Arrivals \/ Handler \/ UNCHANGED vars
  BY <1>1, HandlersMovePool DEF PoolMoves, NoncesGrow
<1>2. ASSUME NEW r \in pool, NEW ok \in BOOLEAN, Mine(r, ok) PROVE NoncesGrow'
  BY <1>2, ConstAssumption DEF Mine, TypeOK, NoncesGrow, Blocks
<1>3. ASSUME NEW bump \in {0, 1}, MineOther(bump) PROVE NoncesGrow'
  BY <1>3, ConstAssumption DEF MineOther, TypeOK, NoncesGrow, Blocks
<1> QED
  BY <1>1, <1>2, <1>3 DEF Next, Chain

\* A request is mined at most once, in a block of its own.
LEMMA ReceiptsStep == TypeOK /\ Receipts /\ [Next]_vars => Receipts'
<1> SUFFICES ASSUME TypeOK, Receipts, [Next]_vars PROVE Receipts'
  OBVIOUS
<1>1. CASE Arrivals \/ Handler \/ UNCHANGED vars
  BY <1>1, HandlersMovePool DEF PoolMoves, Receipts
<1>2. ASSUME NEW r \in pool, NEW ok \in BOOLEAN, Mine(r, ok) PROVE Receipts'
  <2>1. r \in Requests /\ head \in Nat /\ head' = head + 1 /\ pool' = pool \ {r} /\ pc' = pc
    BY <1>2, ConstAssumption DEF Mine, TypeOK, Blocks
  <2>2. \A q \in Requests : q # r => receipt'[q] = receipt[q]
    BY <1>2 DEF Mine, TypeOK
  <2>3. receipt'[r].block = head + 1
    BY <1>2, <2>1 DEF Mine, TypeOK
  <2>4. pc[r] \in MaybeSent
    BY <1>2, <2>1 DEF Receipts
  <2> QED
    BY <2>1, <2>2, <2>3, <2>4 DEF Receipts
<1>3. ASSUME NEW bump \in {0, 1}, MineOther(bump) PROVE Receipts'
  BY <1>3, ConstAssumption DEF MineOther, TypeOK, Receipts, Blocks, Opt
<1> QED
  BY <1>1, <1>2, <1>3 DEF Next, Chain

\* The steps of a cycle that leave the session alone.
CycleInner(c) ==
    \/ CycleConstructs(c) \/ CycleStartsProver(c) \/ CycleProverSavesProof(c)
    \/ CycleProverSucceeds(c) \/ CycleReadsProof(c) \/ CycleReadsFacts(c)
    \/ CycleAccepted(c) \/ CycleRetries(c) \/ CycleWakes(c) \/ CycleFails(c)
    \/ ReplyLost(c)

\* What such a step does to its own cycle and to the others.
LEMMA CycleInnerSteps ==
    ASSUME TypeOK, NEW c \in Cycles, CycleInner(c)
    PROVE  /\ UNCHANGED <<head, nonceAt, receipt, session, blk>>
           /\ \A r \in Requests : r # c => pc'[r] = pc[r] /\ nonce'[r] = nonce[r]
           /\ pc[c] \notin {"idle", "refused", "done", "failed"} /\ pc'[c] # "done"
           /\ \/ pc[c] = "started" /\ pc'[c] = "built" /\ nonce'[c] = nonceAt[blk[c]]
              \/ pc[c] # "started" /\ nonce'[c] = nonce[c]
                 /\ pc'[c] \notin {"idle", "refused", "started"}
                 /\ (pc'[c] = "verifying" => pc[c] = "submitting")
              \/ pc'[c] = "failed" /\ nonce'[c] = nonce[c]
BY Kinds
   DEF TypeOK, CycleInner, CycleConstructs, CycleStartsProver, CycleProverSavesProof,
       CycleProverSucceeds, CycleReadsProof, CycleReadsFacts, CycleAccepted,
       CycleRetries, CycleWakes, CycleFails, CycleNonce, ReplyLost, Goto, chainVars,
       proofVars

\* The session keeps a reference block as long as it keeps a counter.
LEMMA ReferencesStep ==
    TypeOK /\ IInv /\ [Next]_vars => References'
<1> SUFFICES ASSUME TypeOK, IInv, [Next]_vars PROVE References'
  OBVIOUS
<1> USE Kinds, KindsAssumption, ConstAssumption
<1>1. CASE Quiet
  BY <1>1 DEF Quiet, IInv, References, TypeOK, Session, Opt
<1>2. ASSUME NEW d \in CounterDeploys, DeployConfirmed(d) PROVE References'
  BY <1>2 DEF DeployConfirmed, DeployedSession, Entry, Confirmed, Goto, IInv, Receipts,
              References, TypeOK, Session, Opt, Deploys, Blocks, chainVars
<1>3. ASSUME NEW c \in Cycles, CycleArrives(c) PROVE References'
  BY <1>3 DEF CycleArrives, Arrive, Goto, IInv, References, TypeOK, Session, Opt,
              Deploys, chainVars
<1>4. ASSUME NEW c \in Cycles, CycleInner(c) PROVE References'
  BY <1>4, CycleInnerSteps DEF IInv, References, TypeOK, Session, Opt, Deploys
<1>5. ASSUME NEW c \in Cycles, CycleLands(c) PROVE References'
  <2>1. /\ session' = [session EXCEPT !.last_reference_block = receipt[c].block]
        /\ pc[c] = "verifying" /\ pc' = [pc EXCEPT ![c] = "done"]
        /\ receipt[c] # None /\ head' = head
    BY <1>5 DEF CycleLands, Entry, Confirmed, Goto, chainVars
  <2>2. receipt[c].block \in 1..head
    BY <2>1 DEF IInv, Receipts
  <2>3. session.contract_address # None
    BY <2>1 DEF IInv, References, CycleNonces
  <2>4. session.contract_address \in CounterDeploys
    BY <2>3 DEF TypeOK, Session, Opt
  <2> QED
    BY <2>1, <2>2, <2>3, <2>4 DEF IInv, References, TypeOK, Session, Deploys, Blocks
<1>6. ASSUME NEW r \in pool, NEW ok \in BOOLEAN, Mine(r, ok) PROVE References'
  BY <1>6 DEF Mine, IInv, References, TypeOK, Session, Opt, Blocks
<1>7. ASSUME NEW bump \in {0, 1}, MineOther(bump) PROVE References'
  BY <1>7 DEF MineOther, IInv, References, TypeOK, Session, Opt, Blocks
<1>8. CASE UNCHANGED vars
  BY <1>8 DEF vars, chainVars, IInv, References
<1> QED
  BY <1>1, <1>2, <1>3, <1>4, <1>5, <1>6, <1>7, <1>8, QuietSteps
     DEF Next, Arrivals, Handler, Chain, Deploys, Deploy, Cycle, CycleInner

\* Where a cycle under way finds its blocks.
LEMMA CycleBlocks ==
    ASSUME TypeOK, IInv, NEW c \in Cycles, pc[c] \notin {"idle", "refused"}
    PROVE  /\ blk[c] \in Blocks /\ session.last_reference_block \in Blocks
           /\ blk[c] <= session.last_reference_block
           /\ session.last_reference_block <= head
<1> USE Kinds
<1>1. blk[c] \in Blocks
  BY DEF TypeOK, IInv, WellFormed, Opt
<1>2. session.last_reference_block \in Blocks
  BY DEF TypeOK, IInv, CycleNonces, Session, Opt
<1>3. blk[c] <= session.last_reference_block
  BY DEF IInv, CycleNonces
<1>4. session.last_reference_block <= head
  BY DEF IInv, CycleNonces, References
<1> QED
  BY <1>1, <1>2, <1>3, <1>4

\* Two cycles wait for their receipts and both are mined: the first mined
\* raised the nonce that the second signed with, so there is no second.
LEMMA OneCycleLands ==
    ASSUME TypeOK, IInv, NEW c \in Cycles, NEW q \in Cycles, c # q,
           pc[c] = "verifying", pc[q] = "verifying",
           receipt[c] # None, receipt[q] # None
    PROVE  FALSE
<1> DEFINE B == receipt[c].block
           Q == receipt[q].block
           lr == session.last_reference_block
<1> USE Kinds, ConstAssumption
<1>1. B \in 1..head /\ Q \in 1..head /\ B # Q
  BY DEF IInv, Receipts
<1>2. head \in Blocks /\ nonceAt \in [Blocks -> Nat]
  BY DEF TypeOK
<1>3. /\ blk[c] \in Blocks /\ blk[q] \in Blocks /\ lr \in Blocks
      /\ blk[c] <= lr /\ blk[q] <= lr
  BY CycleBlocks
<1>4. lr < B /\ lr < Q
  BY DEF IInv, CycleNonces
<1>5. /\ nonceAt[B - 1] = nonceAt[blk[c]] /\ nonceAt[B] = nonceAt[blk[c]] + 1
      /\ nonceAt[Q - 1] = nonceAt[blk[q]] /\ nonceAt[Q] = nonceAt[blk[q]] + 1
  BY DEF IInv, CycleNonces
<1>6. \A a, b \in Blocks : a <= b => nonceAt[a] <= nonceAt[b]
  BY DEF IInv, NoncesGrow
<1> HIDE DEF B, Q, lr
<1>7. B \in Blocks /\ Q \in Blocks /\ B - 1 \in Blocks /\ Q - 1 \in Blocks
  BY <1>1, <1>2 DEF Blocks
<1>8. lr <= B - 1 /\ lr <= Q - 1
  BY <1>3, <1>4, <1>7 DEF Blocks
<1>9. nonceAt[lr] <= nonceAt[B - 1] /\ nonceAt[lr] <= nonceAt[Q - 1]
  BY <1>3, <1>6, <1>7, <1>8
<1>10. nonceAt[blk[c]] <= nonceAt[lr] /\ nonceAt[blk[q]] <= nonceAt[lr]
  BY <1>3, <1>6
<1>11. CASE Q < B
  <2>1. nonceAt[Q] <= nonceAt[B - 1]
    BY <1>1, <1>6, <1>7, <1>11 DEF Blocks
  <2> QED
    BY <2>1, <1>2, <1>3, <1>5, <1>7, <1>9, <1>10
<1>12. CASE B < Q
  <2>1. nonceAt[B] <= nonceAt[Q - 1]
    BY <1>1, <1>6, <1>7, <1>12 DEF Blocks
  <2> QED
    BY <2>1, <1>2, <1>3, <1>5, <1>7, <1>9, <1>10
<1> QED
  BY <1>1, <1>11, <1>12

\* When the only counter of a session is confirmed, no cycle is under way.
LEMMA DeployComesFirst ==
    ASSUME TypeOK, IInv, OneCounter, NEW d \in CounterDeploys, DeployConfirmed(d)
    PROVE  /\ session.last_reference_block = None
           /\ \A c \in Cycles : pc[c] \in {"idle", "refused"}
<1>1. pc[d] = "sent"
  BY DEF DeployConfirmed, Goto
<1>2. session.contract_address = None
  <2>1. SUFFICES ASSUME session.contract_address # None PROVE FALSE
    OBVIOUS
  <2>2. session.contract_address \in CounterDeploys
    BY <2>1 DEF TypeOK, Session, Opt
  <2>3. session.contract_address = d
    BY <2>2 DEF OneCounter
  <2> QED
    BY <1>1, <2>1, <2>3 DEF IInv, References
<1> QED
  BY <1>2 DEF IInv, References, CycleNonces

\* A cycle keeps the nonce of its reference block until it is mined, and the
\* reference block stays behind the block it is mined in.
LEMMA CycleNoncesStep ==
    ASSUME TypeOK, IInv, OneCounter, [Next]_vars
    PROVE  CycleNonces'
<1> USE Kinds, KindsAssumption, ConstAssumption
<1>1. CASE Quiet
  BY <1>1 DEF Quiet, IInv, CycleNonces
<1>2. ASSUME NEW d \in CounterDeploys, DeployConfirmed(d) PROVE CycleNonces'
  <2>1. \A c \in Cycles : pc'[c] = pc[c] /\ pc[c] \in {"idle", "refused"}
    BY <1>2, DeployComesFirst DEF DeployConfirmed, Goto, TypeOK, Deploys
  <2>2. UNCHANGED <<receipt, nonce, nonceAt>>
    BY <1>2 DEF DeployConfirmed, chainVars, proofVars
  <2> QED
    BY <2>1, <2>2 DEF IInv, CycleNonces
<1>3. ASSUME NEW c \in Cycles, CycleArrives(c) PROVE CycleNonces'
  <2>1. /\ UNCHANGED <<receipt, nonce, nonceAt, session>>
        /\ pc[c] = "idle" /\ pc' = [pc EXCEPT ![c] = pc'[c]]
        /\ blk' = [blk EXCEPT ![c] = ReferenceBlock(session)]
        /\ pc'[c] = IF session.contract_address # None /\ ReferenceBlock(session) # None
                    THEN "started" ELSE "refused"
    BY <1>3 DEF CycleArrives, Arrive, Goto, TypeOK, chainVars
  <2>2. receipt[c] = None
    BY <2>1 DEF IInv, Receipts, MaybeSent
  <2>3. pc'[c] = "started" =>
            /\ session.last_reference_block # None
            /\ blk'[c] = session.last_reference_block
    BY <2>1 DEF IInv, References, ReferenceBlock, TypeOK
  <2>4. session.last_reference_block # None =>
            session.last_reference_block <= session.last_reference_block
    BY DEF TypeOK, Session, Opt, Blocks
  <2>5. pc'[c] \in {"started", "refused"}
    BY <2>1
  <2>6. \A q \in Cycles : q # c => pc'[q] = pc[q] /\ blk'[q] = blk[q]
    BY <2>1 DEF TypeOK
  <2> QED
    BY <2>1, <2>2, <2>3, <2>4, <2>5, <2>6 DEF IInv, CycleNonces
<1>4. ASSUME NEW c \in Cycles, CycleInner(c) PROVE CycleNonces'
  <2>1. pc[c] \in {"started", "submitting"} => receipt[c] = None
    BY DEF IInv, Receipts, MaybeSent
  <2> QED
    BY <1>4, <2>1, CycleInnerSteps DEF IInv, CycleNonces
<1>5. ASSUME NEW c \in Cycles, CycleLands(c) PROVE CycleNonces'
  <2>1. /\ session'.last_reference_block = receipt[c].block
        /\ pc[c] = "verifying" /\ pc' = [pc EXCEPT ![c] = "done"]
        /\ receipt[c] # None
        /\ UNCHANGED <<receipt, nonce, nonceAt, blk>>
    BY <1>5 DEF CycleLands, Entry, Confirmed, Goto, chainVars, proofVars, TypeOK, Session
  <2>2. receipt[c].block \in Nat /\ receipt[c].block # None
    BY <2>1 DEF IInv, Receipts, TypeOK, Blocks
  <2>3. session.last_reference_block < receipt[c].block
    BY <2>1 DEF IInv, CycleNonces
  <2>4. \A q \in Cycles : pc[q] \notin {"idle", "refused"} => blk[q] <= receipt[c].block
    BY <2>2, <2>3, CycleBlocks DEF Blocks
  <2>5. \A q \in Cycles : q # c /\ pc[q] = "verifying" => receipt[q] = None
    BY <2>1, OneCycleLands
  <2>6. \A q \in Cycles : q # c => pc'[q] = pc[q]
    BY <2>1 DEF TypeOK
  <2>7. pc'[c] = "done"
    BY <2>1 DEF TypeOK
  <2> QED
    BY <2>1, <2>2, <2>4, <2>5, <2>6, <2>7 DEF IInv, CycleNonces
<1>6. ASSUME NEW r \in pool, NEW ok \in BOOLEAN, Mine(r, ok) PROVE CycleNonces'
  <2>1. /\ UNCHANGED <<session, pc, nonce, blk>> /\ head \in Blocks /\ head + 1 \in Blocks
        /\ r \in Requests /\ (r \in Cycles => nonce[r] = nonceAt[head])
        /\ nonceAt \in [Blocks -> Nat]
    BY <1>6 DEF Mine, proofVars, TypeOK, Blocks
  <2>2. /\ \A b \in Blocks : b <= head => nonceAt'[b] = nonceAt[b]
        /\ r \in Cycles => nonceAt'[head + 1] = nonceAt[head] + 1
    BY <1>6, <2>1 DEF Mine, Blocks
  <2>3. \A q \in Requests : q # r => receipt'[q] = receipt[q]
    BY <1>6 DEF Mine, TypeOK
  <2>4. receipt'[r].block = head + 1
    BY <1>6, <2>1 DEF Mine, TypeOK
  <2>5. \A q \in Requests : receipt[q] # None =>
            receipt[q].block \in 1..head /\ receipt[q].block \in Blocks
            /\ receipt[q].block - 1 \in Blocks
            /\ receipt[q].block - 1 <= head /\ receipt[q].block <= head
    BY <2>1 DEF IInv, Receipts, Blocks
  <2>6. \A c \in Cycles : pc[c] \notin {"idle", "refused"} => nonceAt'[blk[c]] = nonceAt[blk[c]]
    BY <2>1, <2>2, CycleBlocks DEF Blocks
  <2>7. \A c \in Cycles : c # r /\ receipt[c] # None =>
            /\ nonceAt'[receipt[c].block - 1] = nonce[c]
            /\ nonceAt'[receipt[c].block] = nonce[c] + 1
    BY <2>2, <2>5 DEF IInv, CycleNonces
  <2>8. r \in Cycles => /\ nonceAt'[receipt'[r].block - 1] = nonce[r]
                        /\ nonceAt'[receipt'[r].block] = nonce[r] + 1
    BY <2>1, <2>2, <2>4 DEF Blocks
  <2>9. r \in Cycles /\ pc[r] = "verifying" => session.last_reference_block < head + 1
    BY <2>1, CycleBlocks DEF Blocks
  <2>10. r \in Cycles => pc[r] # "done"
    BY <2>1 DEF IInv, Receipts, CycleNonces
  <2> QED
    BY <2>1, <2>3, <2>4, <2>6, <2>7, <2>8, <2>9, <2>10 DEF IInv, CycleNonces
<1>7. ASSUME NEW bump \in {0, 1}, MineOther(bump) PROVE CycleNonces'
  <2>1. /\ UNCHANGED <<session, pc, nonce, blk, receipt>> /\ head \in Blocks
        /\ \A b \in Blocks : b <= head => nonceAt'[b] = nonceAt[b]
    BY <1>7 DEF MineOther, proofVars, TypeOK, Blocks
  <2>2. \A q \in Requests : receipt[q] # None =>
            receipt[q].block \in Blocks /\ receipt[q].block - 1 \in Blocks
            /\ receipt[q].block - 1 <= head /\ receipt[q].block <= head
    BY <2>1 DEF IInv, Receipts, Blocks
  <2>3. \A c \in Cycles : pc[c] \notin {"idle", "refused"} => nonceAt'[blk[c]] = nonceAt[blk[c]]
    BY <2>1, CycleBlocks DEF Blocks
  <2> QED
    BY <2>1, <2>2, <2>3 DEF IInv, CycleNonces
<1>8. CASE UNCHANGED vars
  BY <1>8 DEF vars, chainVars, proofVars, IInv, CycleNonces
<1> QED
  BY <1>1, <1>2, <1>3, <1>4, <1>5, <1>6, <1>7, <1>8, QuietSteps
     DEF Next, Arrivals, Handler, Chain, Deploys, Deploy, Cycle, CycleInner

\* In a session with one counter, whatever else runs at once, a cycle signs
\* with the nonce of its reference block and the reference block stays behind
\* every cycle that still waits for its receipt.
THEOREM InductiveInvariant == ASSUME OneCounter PROVE Spec => [](TypeOK /\ IInv)
<1>1. Init => TypeOK /\ IInv
  BY InitTyped, InitIInv
<1>2. TypeOK /\ IInv /\ [Next]_vars => (TypeOK /\ IInv)'
  <2> SUFFICES ASSUME TypeOK, IInv, [Next]_vars PROVE TypeOK' /\ IInv'
    OBVIOUS
  <2>1. TypeOK /\ WellFormed /\ NoncesGrow /\ Receipts
    BY DEF IInv
  <2>2. TypeOK' /\ WellFormed'
    BY <2>1, TypeStep, WellFormedStep
  <2>3. NoncesGrow' /\ Receipts'
    BY <2>1, NoncesGrowStep, ReceiptsStep
  <2>4. References' /\ CycleNonces'
    BY ReferencesStep, CycleNoncesStep
  <2> QED
    BY <2>2, <2>3, <2>4 DEF IInv
<1> QED
  BY <1>1, <1>2, PTL DEF Spec

-----------------------------------------------------------------------------
(* The properties *)

\* The reference block of a session with one counter never moves back,
\* however many prove-block cycles run at once.
THEOREM ReferenceOnlyAdvances == ASSUME OneCounter PROVE Spec => ReferenceAdvances
<1>1. TypeOK /\ IInv /\ [Next]_vars => [ReferenceStep]_vars
  <2> SUFFICES ASSUME TypeOK, IInv, Next PROVE ReferenceStep
    OBVIOUS
  <2> DEFINE old == session.last_reference_block
  <2> USE Kinds, ConstAssumption DEF ReferenceStep
  <2>0. old # None => old >= old
    BY DEF TypeOK, Session, Opt, Blocks
  <2>1. CASE Quiet
    BY <2>0, <2>1 DEF Quiet
  <2>2. ASSUME NEW d \in CounterDeploys, DeployConfirmed(d) PROVE ReferenceStep
    BY <2>2, DeployComesFirst
  <2>3. ASSUME NEW c \in Cycles, CycleArrives(c) \/ CycleInner(c) PROVE ReferenceStep
    BY <2>0, <2>3, CycleInnerSteps DEF CycleArrives
  <2>4. ASSUME NEW c \in Cycles, CycleLands(c) PROVE ReferenceStep
    <3>1. /\ old' = receipt[c].block /\ pc[c] = "verifying" /\ receipt[c] # None
      BY <2>4 DEF CycleLands, Entry, Confirmed, Goto, TypeOK, Session
    <3>2. receipt[c].block \in Nat
      BY <3>1 DEF IInv, Receipts, TypeOK, Blocks
    <3>3. old < receipt[c].block /\ old \in Nat
      BY <3>1, CycleBlocks DEF IInv, CycleNonces, Blocks
    <3> QED
      BY <3>1, <3>2, <3>3
  <2>5. CASE Chain
    BY <2>0, <2>5 DEF Chain, Mine, MineOther
  <2> QED
    BY <2>1, <2>2, <2>3, <2>4, <2>5, QuietSteps
       DEF Next, Arrivals, Handler, Deploys, Deploy, Cycle, CycleInner
<1> QED
  BY <1>1, InductiveInvariant, PTL DEF Spec, ReferenceAdvances

\* Two cycles that completed in a session with one counter were proved
\* against different reference blocks.
THEOREM DistinctReferences == ASSUME OneCounter PROVE Spec => []CyclesUseDistinctReferences
<1>1. TypeOK /\ IInv => CyclesUseDistinctReferences
  <2> SUFFICES ASSUME TypeOK, IInv, NEW c \in Cycles, NEW d \in Cycles, c # d,
                      pc[c] = "done", pc[d] = "done", blk[c] = blk[d]
               PROVE  FALSE
    BY DEF CyclesUseDistinctReferences
  <2> USE Kinds, ConstAssumption
  <2> DEFINE B == receipt[c].block
             D == receipt[d].block
  <2>1. receipt[c] # None /\ receipt[d] # None
    BY DEF IInv, CycleNonces
  <2>2. B \in 1..head /\ D \in 1..head /\ B # D
    BY <2>1 DEF IInv, Receipts
  <2>3. head \in Blocks /\ nonceAt \in [Blocks -> Nat]
    BY DEF TypeOK
  <2>4. /\ nonceAt[B - 1] = nonce[c] /\ nonceAt[B] = nonce[c] + 1
        /\ nonceAt[D - 1] = nonce[c] /\ nonceAt[D] = nonce[c] + 1
        /\ nonce[c] \in Nat
    BY <2>1 DEF IInv, CycleNonces, TypeOK
  <2>5. \A a, b \in Blocks : a <= b => nonceAt[a] <= nonceAt[b]
    BY DEF IInv, NoncesGrow
  <2> HIDE DEF B, D
  <2>6. B \in Blocks /\ D \in Blocks /\ B - 1 \in Blocks /\ D - 1 \in Blocks
    BY <2>2, <2>3 DEF Blocks
  <2>7. CASE B < D
    BY <2>4, <2>5, <2>6, <2>7 DEF Blocks
  <2>8. CASE D < B
    BY <2>4, <2>5, <2>6, <2>8 DEF Blocks
  <2> QED
    BY <2>2, <2>7, <2>8
<1> QED
  BY <1>1, InductiveInvariant, PTL
=============================================================================
