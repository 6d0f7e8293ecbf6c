------------------------ MODULE BrowserProverProofs ------------------------
(***************************************************************************)
(* Proofs about BrowserProver, for any number of calls, any arguments and  *)
(* any growth of the chain: nothing outlives its call but a worker nothing *)
(* was posted to, requests end on their own, a bundle is of its block, the *)
(* core loads once, and a hash binds the transaction that was built.       *)
(***************************************************************************)
EXTENDS BrowserProverInvariant, FiniteSetTheorems, TLAPS

\* What is proved together.
Inv == TypeOK /\ PageInv

\* The two requests of a call, and the call of a request.
LEMMA RequestsOfCalls ==
    /\ \A c \in Calls : <<c, "generate">> \in Requests /\ <<c, "prove">> \in Requests
    /\ \A r \in Requests : r[1] \in Calls /\ r[2] \in {"generate", "prove"} /\ r = <<r[1], r[2]>>
BY DEF Requests

\* No call has been made at the start.
LEMMA PageInit == Init => Inv
<1> SUFFICES ASSUME Init PROVE Inv
  OBVIOUS
<1>1. 0 \in 0..Cardinality(Calls)
  BY PageAssumption, FS_CardinalityType
<1>2. TypeOK
  BY <1>1, PageAssumption DEF Init, TypeOK, CallTypes, WorkerTypes, Places
<1>3. Shapes /\ CoreInv
  BY DEF Init, Shapes, CoreInv
<1>4. ASSUME NEW r \in Requests PROVE RequestInv(r)
  BY DEF Init, RequestInv
<1>5. ASSUME NEW c \in Calls PROVE TwoRequests(c) /\ BuildInv(c) /\ ProveInv(c) /\ BundleInv(c)
  BY RequestsOfCalls DEF Init, TwoRequests, BuildInv, ProveInv, BundleInv, Settled
<1> QED
  BY <1>2, <1>3, <1>4, <1>5 DEF Inv, PageInv

\* The arguments of a call that was made.
LEMMA InputFacts ==
    ASSUME Inv, NEW c \in Calls, pc[c] # "idle"
    PROVE  IsInput(input[c])
BY InputsAssumption DEF Inv, TypeOK, CallTypes

\* What the invariant says of one call.
LEMMA CallFacts ==
    ASSUME Inv, NEW c \in Calls
    PROVE  /\ Shapes /\ CoreInv /\ TwoRequests(c) /\ BuildInv(c) /\ ProveInv(c) /\ BundleInv(c)
           /\ pc \in [Calls -> Places]
           /\ \A d \in Calls : pc[d] # "idle" => input[d] \in Inputs[d]
           /\ core \in {"none", "pending", "ok", "failed"} /\ head \in 0..MaxHead
BY DEF Inv, TypeOK, CallTypes, PageInv

\* What the invariant says of the requests.
LEMMA RequestFacts ==
    ASSUME Inv
    PROVE  /\ \A r \in Requests : RequestInv(r)
           /\ posted \in [Requests -> BOOLEAN] /\ alive \in [Requests -> BOOLEAN]
           /\ fate \in [Requests -> {"none", "running", "ok", "failed", "threw"}]
           /\ events \in [Requests -> SUBSET {"ok", "failed", "error"}]
           /\ timer \in [Requests -> {"off", "armed", "cleared", "fired"}]
           /\ promise \in [Requests -> {"none", "pending", "ok", "failed"}]
           /\ \A r \in Requests : message[r] # None => message[r].block_number \in 0..MaxHead
           /\ DOMAIN message = Requests
BY DEF Inv, TypeOK, WorkerTypes, PageInv, Shapes

\* What the builders make of a call depends on its arguments and its nonce.
LEMMA SameBuilt ==
    ASSUME NEW c \in Calls, input'[c] = input[c], got'[c].nonce = got[c].nonce
    PROVE  BuiltFor(c)' = BuiltFor(c)
BY DEF BuiltFor, Passed, NeedsBlock

\* A call whose own state and messages stay where they are stays in order.
LEMMA SameProve ==
    ASSUME NEW d, ProveInv(d), pc'[d] = pc[d], input'[d] = input[d], got'[d] = got[d],
           artifact'[d] = artifact[d], built'[d] = built[d], message' = message,
           posted' = posted
    PROVE  ProveInv(d)'
<1>1. OfCall(d, artifact[d])' <=> OfCall(d, artifact[d])
  BY DEF OfCall, TransactionOf
<1> QED
  BY <1>1 DEF ProveInv

-----------------------------------------------------------------------------
(* Steps of a call *)

\* What a step of call c may touch of the calls.
TouchesCall(c) ==
    /\ CallTypes' /\ DOMAIN input' = Calls /\ DOMAIN built' = Calls
    /\ DOMAIN artifact' = Calls /\ DOMAIN bundle' = Calls
    /\ got' \in [Calls -> [nonce : {None, 0, 1}, block : {None} \cup 0..MaxHead]]
    /\ \A d \in Calls : d # c =>
           /\ pc'[d] = pc[d] /\ input'[d] = input[d] /\ got'[d] = got[d]
           /\ built'[d] = built[d] /\ artifact'[d] = artifact[d] /\ bundle'[d] = bundle[d]
    /\ UNCHANGED head

\* The core module is where it was, or its load has begun.
CoreMoves ==
    \/ UNCHANGED <<core, loads>>
    \/ core = "none" /\ core' = "pending" /\ loads' = loads + 1

\* A step of a call that leaves the workers alone keeps the invariant if it
\* leaves the call in order.
LEMMA CallKeeps ==
    ASSUME Inv, NEW c \in Calls, TouchesCall(c), CoreMoves, UNCHANGED workerVars,
           TwoRequests(c)', BuildInv(c)', ProveInv(c)', BundleInv(c)'
    PROVE  Inv'
<1>1. core' \in {"none", "pending", "ok", "failed"} /\ CoreInv' /\ (core = "ok" => core' = "ok")
  BY DEF Inv, TypeOK, PageInv, CoreInv, CoreMoves
<1>2. loads' \in 0..Cardinality(Calls)
  <2>1. Calls # {} /\ Cardinality(Calls) \in Nat
    BY PageAssumption, FS_CardinalityType
  <2>2. Cardinality(Calls) # 0
    BY <2>1, PageAssumption, FS_EmptySet
  <2>3. loads' \in {0, 1}
    BY <1>1 DEF CoreInv
  <2> QED
    BY <2>1, <2>2, <2>3
<1>3. WorkerTypes' /\ TypeOK'
  <2>1. WorkerTypes'
    BY DEF Inv, TypeOK, WorkerTypes, workerVars
  <2> QED
    BY <1>1, <1>2, <2>1 DEF Inv, TypeOK, TouchesCall
<1>4. Shapes'
  BY DEF Inv, PageInv, Shapes, TouchesCall, workerVars
<1>5. ASSUME NEW r \in Requests PROVE RequestInv(r)'
  BY DEF Inv, PageInv, RequestInv, workerVars
<1>6. ASSUME NEW d \in Calls, d # c
      PROVE  TwoRequests(d)' /\ BuildInv(d)' /\ ProveInv(d)' /\ BundleInv(d)'
  <2>1. /\ pc'[d] = pc[d] /\ input'[d] = input[d] /\ got'[d] = got[d]
        /\ built'[d] = built[d] /\ artifact'[d] = artifact[d] /\ bundle'[d] = bundle[d]
        /\ promise' = promise /\ message' = message /\ posted' = posted
    BY <1>6 DEF TouchesCall, workerVars
  <2>2. BuiltFor(d)' = BuiltFor(d)
    BY <2>1, SameBuilt
  <2>3. TwoRequests(d)'
    BY <2>1, CallFacts DEF TwoRequests
  <2>4. BuildInv(d)'
    BY <1>1, <2>1, <2>2, CallFacts DEF BuildInv
  <2>5. ProveInv(d)'
    BY <2>1, CallFacts, SameProve
  <2>6. BundleInv(d)'
    BY <2>1, CallFacts DEF BundleInv, TransactionOf
  <2> QED
    BY <2>3, <2>4, <2>5, <2>6
<1> QED
  BY <1>1, <1>3, <1>4, <1>5, <1>6 DEF Inv, PageInv

\* A call goes on to a place before its requests and touches nothing else.
LEMMA GoesOnKeeps ==
    ASSUME Inv, NEW c \in Calls, NEW to, pc' = [pc EXCEPT ![c] = to],
           pc[c] \notin {"idle", "done"},
           UNCHANGED <<pageVars, input, got, built, artifact, bundle, workerVars>>,
           \/ to = "fetch" /\ pc[c] = "init" /\ core = "ok"
           \/ /\ to = "failed"
              /\ promise[<<c, "generate">>] # "pending" /\ promise[<<c, "prove">>] # "pending"
    PROVE  Inv'
<1>1. /\ pc' \in [Calls -> Places]
      /\ pc'[c] = to /\ \A d \in Calls : d # c => pc'[d] = pc[d]
  BY CallFacts DEF Settled, Places
<1>2. \A d \in Calls : pc'[d] # "idle" => pc[d] # "idle"
  BY <1>1
<1>3. TouchesCall(c) /\ CoreMoves
  BY <1>1, <1>2 DEF TouchesCall, CoreMoves, CallTypes, Inv, TypeOK, PageInv, Shapes, pageVars
<1>4. BuiltFor(c)' = BuiltFor(c)
  BY SameBuilt
<1>5. TwoRequests(c)'
  BY <1>1, CallFacts DEF TwoRequests, Settled, workerVars
<1>6. BuildInv(c)'
  BY <1>1, <1>4, CallFacts DEF BuildInv, pageVars
<1>7. ProveInv(c)' /\ BundleInv(c)'
  BY <1>1, CallFacts DEF ProveInv, BundleInv
<1> QED
  BY <1>3, <1>5, <1>6, <1>7, CallKeeps

\* A call is made.
LEMMA StartKeeps ==
    ASSUME Inv, NEW c \in Calls, CallStarts(c)
    PROVE  Inv'
<1>1. /\ pc[c] = "idle" /\ UNCHANGED <<head, got, built, bundle, workerVars>>
  BY DEF CallStarts
<1>2. PICK in \in Inputs[c] :
         /\ input' = [input EXCEPT ![c] = in]
         /\ \/ in.fn \notin Proving /\ Awaiting(c) /\ UNCHANGED artifact
            \/ /\ in.fn = "get_snip36_proof"
               /\ Goto(c, "wallet") \/ Goto(c, "failed")
               /\ UNCHANGED <<core, loads, artifact>>
            \/ /\ in.fn = "proveSnip36InBrowser" /\ in.tx_json # None
               /\ Goto(c, "resolve")
               /\ artifact' = [artifact EXCEPT
                    ![c] = createProofArtifact(in, in.tx_json, in.block_number)]
               /\ UNCHANGED <<core, loads>>
            \/ /\ in.fn = "proveSnip36InBrowser" /\ in.tx_json = None
               /\ Goto(c, "failed")
               /\ UNCHANGED <<core, loads, artifact>>
  BY DEF CallStarts
<1>3. IsInput(in)
  BY InputsAssumption
<1>4. /\ promise[<<c, "generate">>] = "none" /\ promise[<<c, "prove">>] = "none"
      /\ built[c] = None /\ bundle[c] = None
  BY <1>1, CallFacts DEF TwoRequests, BuildInv, BundleInv, Settled
<1>5. /\ DOMAIN input' = Calls /\ input'[c] = in
      /\ \A d \in Calls : d # c => input'[d] = input[d]
  BY <1>2, CallFacts DEF Shapes
<1>6. PICK to \in {"wallet", "init", "resolve", "failed"} :
         /\ pc' = [pc EXCEPT ![c] = to]
         /\ to \in {"wallet", "init"} => in.fn # "proveSnip36InBrowser"
         /\ to = "resolve" =>
              /\ in.fn = "proveSnip36InBrowser"
              /\ artifact' = [artifact EXCEPT
                    ![c] = createProofArtifact(in, in.tx_json, in.block_number)]
         /\ to # "resolve" => artifact' = artifact
  BY <1>2 DEF Awaiting, Goto, Proving
<1>7. CoreMoves
  BY <1>2 DEF CoreMoves, Awaiting, MustLoad
<1>8. /\ pc' \in [Calls -> Places]
      /\ pc'[c] = to /\ \A d \in Calls : d # c => pc'[d] = pc[d]
  BY <1>6, CallFacts DEF Settled, Places
<1>9. /\ DOMAIN artifact' = Calls /\ \A d \in Calls : d # c => artifact'[d] = artifact[d]
      /\ to = "resolve" =>
             artifact'[c] = createProofArtifact(in, in.tx_json, in.block_number)
  BY <1>6, CallFacts DEF Shapes
<1>10. CallTypes'
  <2>1. \A d \in Calls : pc'[d] # "idle" => input'[d] \in Inputs[d]
    BY <1>5, <1>8, CallFacts
  <2> QED
    BY <1>1, <1>8, <2>1 DEF CallTypes, Inv, TypeOK
<1>11. TouchesCall(c)
  BY <1>1, <1>5, <1>8, <1>9, <1>10, CallFacts DEF TouchesCall, Shapes
<1>12. TwoRequests(c)' /\ BundleInv(c)'
  BY <1>1, <1>4, <1>8 DEF TwoRequests, BundleInv, Settled, workerVars
<1>13. BuildInv(c)'
  BY <1>1, <1>4, <1>5, <1>6, <1>8 DEF BuildInv
<1>14. ProveInv(c)'
  BY <1>3, <1>5, <1>6, <1>8, <1>9 DEF ProveInv, OfCall, createProofArtifact, TransactionOf,
     IsInput
<1> QED
  BY <1>1, <1>7, <1>11, <1>12, <1>13, <1>14, CallKeeps

\* The wallet has answered, or failed to.
LEMMA WalletKeeps == ASSUME Inv, NEW c \in Calls, WalletAnswers(c) PROVE Inv'
<1>1. /\ pc[c] = "wallet" /\ UNCHANGED <<head, input, got, built, artifact, bundle, workerVars>>
  BY DEF WalletAnswers
<1>2. PICK to \in {"init", "failed"} : pc' = [pc EXCEPT ![c] = to]
  BY DEF WalletAnswers, Awaiting, Goto
<1>3. CoreMoves
  BY DEF WalletAnswers, Awaiting, MustLoad, CoreMoves
<1>4. /\ pc' \in [Calls -> Places] /\ pc'[c] = to
      /\ \A d \in Calls : d # c => pc'[d] = pc[d]
  BY <1>2, CallFacts DEF Settled, Places
<1>5. CallTypes'
  <2>1. \A d \in Calls : pc'[d] # "idle" => input'[d] \in Inputs[d]
    BY <1>1, <1>4, CallFacts
  <2> QED
    BY <1>1, <1>4, <2>1 DEF CallTypes, Inv, TypeOK
<1>6. TouchesCall(c)
  BY <1>1, <1>4, <1>5, CallFacts DEF TouchesCall, Shapes
<1>7. TwoRequests(c)' /\ BundleInv(c)'
  BY <1>1, <1>4, CallFacts DEF TwoRequests, BundleInv, Settled, workerVars
<1>8. BuildInv(c)' /\ ProveInv(c)'
  BY <1>1, <1>4, CallFacts DEF BuildInv, ProveInv
<1> QED
  BY <1>1, <1>3, <1>6, <1>7, <1>8, CallKeeps

\* The core has loaded, or failed to.
LEMMA CoreReadyKeeps == ASSUME Inv, NEW c \in Calls, CoreReady(c) PROVE Inv'
<1>1. promise[<<c, "generate">>] = "none" /\ promise[<<c, "prove">>] = "none"
  BY CallFacts DEF CoreReady, TwoRequests, Settled
<1> QED
  BY <1>1, GoesOnKeeps DEF CoreReady, Goto

\* Nonce and block arrive, in either order.
LEMMA FetchKeeps == ASSUME Inv, NEW c \in Calls, NonceArrives(c) \/ BlockArrives(c) PROVE Inv'
<1>1. /\ pc[c] = "fetch"
      /\ UNCHANGED <<pageVars, input, built, artifact, bundle, workerVars>>
  BY DEF NonceArrives, BlockArrives
<1>2. /\ promise[<<c, "generate">>] = "none" /\ promise[<<c, "prove">>] = "none"
      /\ built[c] = None
  BY <1>1, CallFacts DEF TwoRequests, Settled, BuildInv
<1>3. got \in [Calls -> [nonce : {None, 0, 1}, block : {None} \cup 0..MaxHead]]
  BY CallFacts DEF Shapes
<1>4. CASE BlockArrives(c) /\ Goto(c, "failed") /\ UNCHANGED got
  BY <1>1, <1>2, <1>4, GoesOnKeeps DEF Goto
<1>5. CASE UNCHANGED pc /\ \E n \in {0, 1}, b \in {None} \cup 0..MaxHead :
               got' = [got EXCEPT ![c].nonce = n] \/ got' = [got EXCEPT ![c].block = b]
  <2>1. /\ got' \in [Calls -> [nonce : {None, 0, 1}, block : {None} \cup 0..MaxHead]]
        /\ \A d \in Calls : d # c => got'[d] = got[d]
    BY <1>3, <1>5
  <2>2. CallTypes'
    <3>1. \A d \in Calls : /\ got'[d].nonce \in {None, 0, 1}
                           /\ got'[d].block \in {None} \cup 0..MaxHead
      BY <2>1
    <3> QED
      BY <1>1, <1>5, <3>1 DEF CallTypes, Inv, TypeOK
  <2>3. TouchesCall(c) /\ CoreMoves
    BY <1>1, <1>5, <2>1, <2>2, CallFacts DEF TouchesCall, CoreMoves, Shapes, pageVars
  <2>4. TwoRequests(c)' /\ BuildInv(c)' /\ ProveInv(c)' /\ BundleInv(c)'
    BY <1>1, <1>2, <1>5, CallFacts
       DEF TwoRequests, BuildInv, ProveInv, BundleInv, Settled, workerVars, pageVars
  <2> QED
    BY <1>1, <2>3, <2>4, CallKeeps
<1>6. CASE NonceArrives(c)
  <2>1. IsInput(input[c])
    BY <1>1, InputFacts
  <2>2. \E n \in {0, 1} : got' = [got EXCEPT ![c].nonce = n]
    BY <1>6, <2>1 DEF NonceArrives, IsInput
  <2> QED
    BY <1>5, <1>6, <2>2 DEF NonceArrives
<1>7. CASE BlockArrives(c) /\ got' = [got EXCEPT ![c].block = head] /\ UNCHANGED pc
  BY <1>5, <1>7, CallFacts
<1> QED
  BY <1>4, <1>6, <1>7 DEF BlockArrives

\* A call builds its transaction, and is done unless it is to be proved.
LEMMA BuildKeeps == ASSUME Inv, NEW c \in Calls, Build(c) PROVE Inv'
<1>1. /\ pc[c] = "fetch" /\ (NeedsBlock(c) => got[c].block # None)
      /\ UNCHANGED <<pageVars, input, got, bundle, workerVars>>
  BY DEF Build
<1>2. /\ promise[<<c, "generate">>] = "none" /\ promise[<<c, "prove">>] = "none"
      /\ core = "ok" /\ input[c].fn # "proveSnip36InBrowser" /\ bundle[c] = bundle'[c]
      /\ BundleInv(c)
  BY <1>1, CallFacts DEF TwoRequests, Settled, BuildInv
<1>3. CASE Goto(c, "failed") /\ UNCHANGED <<built, artifact>>
  BY <1>1, <1>2, <1>3, GoesOnKeeps DEF Goto
<1>4. ASSUME built' = [built EXCEPT ![c] = BuiltFor(c)],
             NEW to \in {"resolve", "done"}, pc' = [pc EXCEPT ![c] = to],
             to = "resolve" =>
               /\ input[c].fn = "get_snip36_proof"
               /\ artifact' = [artifact EXCEPT ![c] =
                       createProofArtifact(input[c], BuiltFor(c).transaction,
                                           OrElse(input[c].block_number, got[c].block))],
             to # "resolve" => artifact' = artifact
      PROVE  Inv'
  <2>1. /\ pc' \in [Calls -> Places]
        /\ pc'[c] = to /\ \A d \in Calls : d # c => pc'[d] = pc[d]
    BY <1>4, CallFacts DEF Settled, Places
  <2>2. /\ DOMAIN built' = Calls /\ built'[c] = BuiltFor(c)
        /\ \A d \in Calls : d # c => built'[d] = built[d]
    BY <1>4, CallFacts DEF Shapes
  <2>3. /\ DOMAIN artifact' = Calls /\ \A d \in Calls : d # c => artifact'[d] = artifact[d]
        /\ to = "resolve" =>
             artifact'[c] = createProofArtifact(input[c], BuiltFor(c).transaction,
                                           OrElse(input[c].block_number, got[c].block))
    BY <1>4, CallFacts DEF Shapes
  <2>4. CallTypes'
    BY <1>1, <2>1 DEF CallTypes, Inv, TypeOK
  <2>5. TouchesCall(c) /\ CoreMoves
    BY <1>1, <2>1, <2>2, <2>3, <2>4, CallFacts DEF TouchesCall, CoreMoves, Shapes, pageVars
  <2>6. BuiltFor(c)' = BuiltFor(c)
    BY <1>1, SameBuilt
  <2>7. TwoRequests(c)' /\ BundleInv(c)'
    BY <1>1, <1>2, <2>1 DEF TwoRequests, BundleInv, Settled, workerVars
  <2>8. BuildInv(c)'
    BY <1>1, <1>2, <2>1, <2>2, <2>6 DEF BuildInv, pageVars
  <2>9. ProveInv(c)'
    <3>1. CASE to = "resolve"
      <4>1. IsInput(input[c]) /\ input[c].fn = "get_snip36_proof"
        BY <1>1, <1>4, <3>1, InputFacts
      <4>2. TransactionOf(c)' = BuiltFor(c).transaction
        BY <1>1, <2>2, <4>1 DEF TransactionOf
      <4>3. got[c].block \in 0..MaxHead
        BY <1>1, <4>1, CallFacts DEF NeedsBlock, Shapes
      <4>4. /\ OrElse(input[c].block_number, got[c].block) \in 0..MaxHead
            /\ input[c].block_number \in {None, OrElse(input[c].block_number, got[c].block)}
        BY <4>1, <4>3 DEF OrElse, IsInput
      <4>5. OfCall(c, artifact[c])'
        BY <1>1, <2>3, <3>1, <4>2, <4>4 DEF OfCall, createProofArtifact
      <4> QED
        BY <2>1, <3>1, <4>5 DEF ProveInv
    <3>2. CASE to # "resolve"
      BY <2>1, <3>2 DEF ProveInv
    <3> QED
      BY <3>1, <3>2
  <2> QED
    BY <1>1, <2>5, <2>7, <2>8, <2>9, CallKeeps
<1>5. CASE built' = [built EXCEPT ![c] = BuiltFor(c)] /\ input[c].fn = "get_snip36_proof"
           /\ Goto(c, "resolve")
           /\ artifact' = [artifact EXCEPT ![c] =
                       createProofArtifact(input[c], BuiltFor(c).transaction,
                                           OrElse(input[c].block_number, got[c].block))]
  BY <1>4, <1>5 DEF Goto
<1>6. CASE built' = [built EXCEPT ![c] = BuiltFor(c)] /\ Goto(c, "done") /\ UNCHANGED artifact
  BY <1>4, <1>6 DEF Goto
<1> QED
  BY <1>3, <1>5, <1>6 DEF Build

\* The block is settled: the caller's, or the latest one now.
LEMMA ResolveKeeps == ASSUME Inv, NEW c \in Calls, Resolve(c) PROVE Inv'
<1>1. /\ pc[c] = "resolve" /\ UNCHANGED <<pageVars, input, built, artifact, bundle, workerVars>>
  BY DEF Resolve
<1>2. /\ promise[<<c, "generate">>] = "none" /\ promise[<<c, "prove">>] = "none"
      /\ OfCall(c, artifact[c]) /\ BuildInv(c) /\ BundleInv(c)
      /\ got \in [Calls -> [nonce : {None, 0, 1}, block : {None} \cup 0..MaxHead]]
  BY <1>1, CallFacts DEF TwoRequests, Settled, ProveInv, Shapes
<1>3. CASE Goto(c, "failed") /\ UNCHANGED got
  BY <1>1, <1>2, <1>3, GoesOnKeeps DEF Goto
<1>4. CASE got' = [got EXCEPT ![c].block = Latest(artifact[c].block_number)]
           /\ Goto(c, "generate")
  <2> DEFINE b == Latest(artifact[c].block_number)
  <2>1. b \in 0..MaxHead /\ artifact[c].block_number \in {None, b}
    BY <1>2, CallFacts DEF Latest, OrElse, OfCall
  <2>2. /\ pc' \in [Calls -> Places]
        /\ pc'[c] = "generate" /\ \A d \in Calls : d # c => pc'[d] = pc[d]
    BY <1>4, CallFacts DEF Settled, Places, Goto
  <2>3. /\ got' \in [Calls -> [nonce : {None, 0, 1}, block : {None} \cup 0..MaxHead]]
        /\ got'[c].block = b /\ got'[c].nonce = got[c].nonce
        /\ \A d \in Calls : d # c => got'[d] = got[d]
    BY <1>2, <1>4, <2>1
  <2>4. CallTypes'
    <3>1. \A d \in Calls : /\ got'[d].nonce \in {None, 0, 1}
                           /\ got'[d].block \in {None} \cup 0..MaxHead
      BY <2>3
    <3>2. \A d \in Calls : pc'[d] # "idle" => input'[d] \in Inputs[d]
      BY <1>1, <2>2, CallFacts
    <3> QED
      BY <2>2, <3>1, <3>2 DEF CallTypes
  <2>5. TouchesCall(c) /\ CoreMoves
    BY <1>1, <2>2, <2>3, <2>4, CallFacts DEF TouchesCall, CoreMoves, Shapes, pageVars
  <2>6. BuiltFor(c)' = BuiltFor(c)
    BY <1>1, <2>3, SameBuilt
  <2>7. TwoRequests(c)' /\ BuildInv(c)' /\ BundleInv(c)'
    BY <1>1, <1>2, <2>2, <2>6 DEF TwoRequests, BuildInv, BundleInv, Settled, workerVars, pageVars
  <2>8. ProveInv(c)'
    BY <1>1, <1>2, <2>1, <2>2, <2>3 DEF ProveInv, OfCall, TransactionOf
  <2> QED
    BY <1>1, <2>5, <2>7, <2>8, CallKeeps
<1> QED
  BY <1>3, <1>4 DEF Resolve

\* The second request is answered: the bundle names what was executed.
LEMMA ProvedKeeps == ASSUME Inv, NEW c \in Calls, Proved(c) PROVE Inv'
<1> DEFINE a == message[<<c, "prove">>]
           facts == prove_cairo_pie(a.execution_payload).proof_facts
           b == [artifact |-> [a EXCEPT !.proof_facts_preimage = facts],
                 proof |-> prove_cairo_pie(a.execution_payload).proof, proof_facts |-> facts]
<1>1. /\ pc[c] = "proving" /\ promise[<<c, "prove">>] = "ok" /\ Goto(c, "done")
      /\ bundle' = [bundle EXCEPT ![c] = b]
      /\ UNCHANGED <<pageVars, input, got, built, artifact, workerVars>>
  BY DEF Proved
<1>2. /\ promise[<<c, "generate">>] = "ok" /\ BuildInv(c)
      /\ a = artifact[c] /\ OfCall(c, a) /\ a.block_number = got[c].block
      /\ a.execution_payload = [block |-> got[c].block, tx |-> a.transaction]
  <2>1. posted[<<c, "prove">>] = TRUE
    BY <1>1, RequestFacts, RequestsOfCalls DEF RequestInv
  <2> QED
    BY <1>1, <2>1, CallFacts DEF TwoRequests, ProveInv
<1>3. /\ pc' \in [Calls -> Places]
      /\ pc'[c] = "done" /\ \A d \in Calls : d # c => pc'[d] = pc[d]
  BY <1>1, CallFacts DEF Settled, Places, Goto
<1>4. /\ DOMAIN bundle' = Calls /\ bundle'[c] = b
      /\ \A d \in Calls : d # c => bundle'[d] = bundle[d]
  BY <1>1, CallFacts DEF Shapes
<1>5. CallTypes'
  BY <1>1, <1>3 DEF CallTypes, Inv, TypeOK
<1>6. TouchesCall(c) /\ CoreMoves
  BY <1>1, <1>3, <1>4, <1>5, CallFacts DEF TouchesCall, CoreMoves, Shapes, pageVars
<1>7. TwoRequests(c)' /\ ProveInv(c)'
  BY <1>1, <1>2, <1>3 DEF TwoRequests, ProveInv, Settled, workerVars
<1>8. BuildInv(c)'
  BY <1>1, <1>2, <1>3, SameBuilt DEF BuildInv, pageVars
<1>9. /\ b.proof.of = [block |-> a.block_number, tx |-> a.transaction]
      /\ b.artifact.block_number = a.block_number /\ b.artifact.transaction = a.transaction
  BY <1>2 DEF prove_cairo_pie, OfCall
<1>10. BundleInv(c)'
  BY <1>1, <1>2, <1>3, <1>4, <1>9 DEF BundleInv, OfCall, TransactionOf
<1> QED
  BY <1>1, <1>6, <1>7, <1>8, <1>10, CallKeeps

\* A request was rejected.
LEMMA RejectedKeeps == ASSUME Inv, NEW c \in Calls, RequestRejected(c) PROVE Inv'
<1>1. promise[<<c, "generate">>] # "pending" /\ promise[<<c, "prove">>] # "pending"
      /\ pc[c] \notin {"idle", "done"}
  BY CallFacts DEF RequestRejected, TwoRequests
<1> QED
  BY <1>1, GoesOnKeeps DEF RequestRejected, Goto

-----------------------------------------------------------------------------
(* Requests *)

\* A request that was posted, or could not be.
LEMMA PostFacts ==
    ASSUME Inv, NEW r \in Requests, NEW msg, Post(r, msg), promise[r] = "none"
    PROVE  /\ promise'[r] \in {"pending", "failed"} /\ (posted'[r] => message'[r] = msg)
           /\ \A q \in Requests : q # r => promise'[q] = promise[q]
<1>1. posted[r] = FALSE
  BY RequestFacts DEF RequestInv
<1> QED
  BY <1>1, RequestFacts DEF Post

\* A call posts a request it has not made before.
LEMMA PostKeeps ==
    ASSUME Inv, NEW c \in Calls, NEW k \in {"generate", "prove"}, NEW msg,
           Post(<<c, k>>, msg), promise[<<c, k>>] = "none",
           msg # None => msg.block_number \in 0..MaxHead,
           TouchesCall(c), UNCHANGED <<core, loads>>,
           TwoRequests(c)', BuildInv(c)', ProveInv(c)', BundleInv(c)'
    PROVE  Inv'
<1> DEFINE r == <<c, k>>
<1>1. r \in Requests /\ \A d \in Calls : d # c => r # <<d, "generate">> /\ r # <<d, "prove">>
  BY DEF Requests
<1>2. /\ DOMAIN message' = Requests
      /\ alive' \in [Requests -> BOOLEAN] /\ alive'[r] = TRUE
      /\ fate' \in [Requests -> {"none", "running", "ok", "failed", "threw"}]
      /\ fate'[r] = "running" /\ events' = events
      /\ timer' \in [Requests -> {"off", "armed", "cleared", "fired"}] /\ timer'[r] = "armed"
      /\ promise' \in [Requests -> {"none", "pending", "ok", "failed"}]
      /\ posted' \in [Requests -> BOOLEAN]
      /\ \/ message'[r] = msg /\ posted'[r] = TRUE /\ promise'[r] = "pending"
         \/ message'[r] = message[r] /\ posted'[r] = FALSE /\ promise'[r] = "failed"
      /\ \A q \in Requests : q # r =>
             /\ message'[q] = message[q] /\ alive'[q] = alive[q] /\ fate'[q] = fate[q]
             /\ timer'[q] = timer[q] /\ promise'[q] = promise[q] /\ posted'[q] = posted[q]
  <2>1. posted[r] = FALSE
    BY <1>1, RequestFacts DEF RequestInv
  <2>2. /\ alive' = [alive EXCEPT ![r] = TRUE] /\ fate' = [fate EXCEPT ![r] = "running"]
        /\ timer' = [timer EXCEPT ![r] = "armed"] /\ events' = events
    BY DEF Post
  <2>3. CASE /\ message' = [message EXCEPT ![r] = msg] /\ posted' = [posted EXCEPT ![r] = TRUE]
             /\ promise' = [promise EXCEPT ![r] = "pending"]
    BY <1>1, <2>2, <2>3, RequestFacts
  <2>4. CASE promise' = [promise EXCEPT ![r] = "failed"] /\ UNCHANGED <<message, posted>>
    BY <1>1, <2>1, <2>2, <2>4, RequestFacts
  <2> QED
    BY <2>3, <2>4 DEF Post
<1>3. WorkerTypes'
  <2>1. ASSUME NEW q \in Requests, message'[q] # None PROVE message'[q].block_number \in 0..MaxHead
    <3>1. CASE q = r
      BY <1>1, <1>2, <2>1, <3>1, RequestFacts
    <3>2. CASE q # r
      BY <1>2, <2>1, <3>2, RequestFacts
    <3> QED
      BY <3>1, <3>2
  <2> QED
    BY <1>2, <2>1, RequestFacts DEF WorkerTypes
<1>4. TypeOK' /\ Shapes' /\ CoreInv'
  BY <1>2, <1>3 DEF Inv, TypeOK, PageInv, Shapes, CoreInv, TouchesCall
<1>5. ASSUME NEW q \in Requests PROVE RequestInv(q)'
  <2>1. CASE q = r
    <3>1. events[r] = {}
      BY <1>1, RequestFacts DEF RequestInv
    <3> QED
      BY <1>2, <2>1, <3>1 DEF RequestInv
  <2>2. CASE q # r
    <3>1. /\ message'[q] = message[q] /\ alive'[q] = alive[q] /\ fate'[q] = fate[q]
          /\ timer'[q] = timer[q] /\ promise'[q] = promise[q] /\ events'[q] = events[q]
          /\ posted'[q] = posted[q]
      BY <1>2, <2>2
    <3>2. RequestInv(q)
      BY RequestFacts
    <3> QED
      BY <3>1, <3>2 DEF RequestInv
  <2> QED
    BY <2>1, <2>2
<1>6. ASSUME NEW d \in Calls, d # c
      PROVE  TwoRequests(d)' /\ BuildInv(d)' /\ ProveInv(d)' /\ BundleInv(d)'
  <2>1. /\ pc'[d] = pc[d] /\ input'[d] = input[d] /\ got'[d] = got[d]
        /\ built'[d] = built[d] /\ artifact'[d] = artifact[d] /\ bundle'[d] = bundle[d]
    BY <1>6 DEF TouchesCall
  <2>2. /\ promise'[<<d, "generate">>] = promise[<<d, "generate">>]
        /\ promise'[<<d, "prove">>] = promise[<<d, "prove">>]
        /\ message'[<<d, "generate">>] = message[<<d, "generate">>]
        /\ message'[<<d, "prove">>] = message[<<d, "prove">>]
        /\ posted'[<<d, "generate">>] = posted[<<d, "generate">>]
        /\ posted'[<<d, "prove">>] = posted[<<d, "prove">>]
    BY <1>1, <1>2, <1>6, RequestsOfCalls
  <2>3. BuiltFor(d)' = BuiltFor(d)
    BY <2>1, SameBuilt
  <2>4. TwoRequests(d)'
    BY <2>1, <2>2, CallFacts DEF TwoRequests
  <2>5. BuildInv(d)'
    BY <2>1, <2>3, CallFacts DEF BuildInv
  <2>6. ProveInv(d)'
    <3>1. ProveInv(d) /\ (OfCall(d, artifact[d])' <=> OfCall(d, artifact[d]))
      BY <2>1, CallFacts DEF OfCall, TransactionOf
    <3> QED
      BY <2>1, <2>2, <3>1 DEF ProveInv
  <2>7. BundleInv(d)'
    BY <2>1, CallFacts DEF BundleInv, TransactionOf
  <2> QED
    BY <2>4, <2>5, <2>6, <2>7
<1> QED
  BY <1>4, <1>5, <1>6 DEF Inv, PageInv

\* The first request, for the block that was settled.
LEMMA GenerateKeeps == ASSUME Inv, NEW c \in Calls, Generate(c) PROVE Inv'
<1> DEFINE msg == [block_number |-> Latest(PassedOn(c).block_number),
                   transaction |-> artifact[c].transaction]
<1>1. /\ pc[c] = "generate" /\ Goto(c, "executing") /\ Post(<<c, "generate">>, msg)
      /\ UNCHANGED <<pageVars, input, got, built, artifact, bundle>>
  BY DEF Generate
<1>2. /\ promise[<<c, "generate">>] = "none" /\ promise[<<c, "prove">>] = "none"
      /\ OfCall(c, artifact[c]) /\ got[c].block \in 0..MaxHead
      /\ artifact[c].block_number \in {None, got[c].block}
      /\ BuildInv(c) /\ BundleInv(c)
  BY <1>1, CallFacts DEF TwoRequests, Settled, ProveInv
<1>3. PassedOn(c).block_number = got[c].block
  BY <1>2 DEF PassedOn, OfCall
<1>4. msg.block_number = got[c].block
  BY <1>2, <1>3, PageAssumption DEF Latest, OrElse
<1>5. /\ pc' \in [Calls -> Places]
      /\ pc'[c] = "executing" /\ \A d \in Calls : d # c => pc'[d] = pc[d]
  BY <1>1, CallFacts DEF Settled, Places, Goto
<1>6. TouchesCall(c)
  BY <1>1, <1>5, CallFacts DEF TouchesCall, Shapes, CallTypes, Inv, TypeOK, pageVars
<1>7. /\ promise'[<<c, "generate">>] \in {"pending", "failed"}
      /\ promise'[<<c, "prove">>] = "none"
      /\ posted'[<<c, "generate">>] => message'[<<c, "generate">>] = msg
  BY <1>1, <1>2, PostFacts, RequestsOfCalls
<1>8. TwoRequests(c)'
  BY <1>5, <1>7 DEF TwoRequests, Settled
<1>9. BuildInv(c)' /\ BundleInv(c)'
  BY <1>1, <1>2, <1>5, SameBuilt DEF BuildInv, BundleInv, pageVars
<1>10. ProveInv(c)'
  BY <1>1, <1>2, <1>4, <1>5, <1>7 DEF ProveInv, OfCall, TransactionOf
<1> QED
  BY <1>1, <1>2, <1>4, <1>6, <1>8, <1>9, <1>10, PostKeeps DEF pageVars

\* The second request, for the execution the first one returned.
LEMMA ExecutedKeeps == ASSUME Inv, NEW c \in Calls, Executed(c) PROVE Inv'
<1> DEFINE msg == [artifact[c] EXCEPT
                     !.block_number = got[c].block,
                     !.execution_payload = Execution(message[<<c, "generate">>])]
<1>1. /\ pc[c] = "executing" /\ promise[<<c, "generate">>] = "ok"
      /\ artifact' = [artifact EXCEPT ![c] = msg]
      /\ Post(<<c, "prove">>, msg) /\ Goto(c, "proving")
      /\ UNCHANGED <<pageVars, input, got, built, bundle>>
  BY DEF Executed
<1>2. /\ promise[<<c, "prove">>] = "none"
      /\ OfCall(c, artifact[c]) /\ got[c].block \in 0..MaxHead
      /\ artifact[c].block_number \in {None, got[c].block}
      /\ message[<<c, "generate">>] =
             [block_number |-> got[c].block, transaction |-> artifact[c].transaction]
      /\ BuildInv(c) /\ BundleInv(c)
  <2>1. posted[<<c, "generate">>] = TRUE
    BY <1>1, RequestFacts, RequestsOfCalls DEF RequestInv
  <2> QED
    BY <1>1, <2>1, CallFacts DEF TwoRequests, ProveInv
<1>3. /\ msg.block_number = got[c].block /\ msg.transaction = artifact[c].transaction
      /\ msg.execution_payload = [block |-> got[c].block, tx |-> artifact[c].transaction]
      /\ msg = [block_number |-> msg.block_number, transaction |-> msg.transaction,
                chain_id |-> msg.chain_id, execution_payload |-> msg.execution_payload,
                proof_facts_preimage |-> msg.proof_facts_preimage]
  <2> DEFINE x == artifact[c]
             e == [block |-> got[c].block, tx |-> x.transaction]
  <2>1. Execution(message[<<c, "generate">>]) = e
    BY <1>2 DEF Execution
  <2>2. msg = [x EXCEPT !.block_number = got[c].block, !.execution_payload = e]
    BY <2>1
  <2>3. x = [block_number |-> x.block_number, transaction |-> x.transaction,
             chain_id |-> x.chain_id, execution_payload |-> x.execution_payload,
             proof_facts_preimage |-> x.proof_facts_preimage]
    BY <1>2 DEF OfCall
  <2>4. msg = [block_number |-> got[c].block, transaction |-> x.transaction,
               chain_id |-> x.chain_id, execution_payload |-> e,
               proof_facts_preimage |-> x.proof_facts_preimage]
    <3> HIDE DEF x, e, msg
    <3> QED
      BY <2>2, <2>3
  <2> HIDE DEF msg
  <2> QED
    BY <2>4
<1>4. /\ pc' \in [Calls -> Places]
      /\ pc'[c] = "proving" /\ \A d \in Calls : d # c => pc'[d] = pc[d]
  BY <1>1, CallFacts DEF Settled, Places, Goto
<1>5. /\ DOMAIN artifact' = Calls /\ artifact'[c] = msg
      /\ \A d \in Calls : d # c => artifact'[d] = artifact[d]
  BY <1>1, CallFacts DEF Shapes
<1>6. TouchesCall(c)
  <2>1. CallTypes'
    BY <1>1, <1>4 DEF CallTypes, Inv, TypeOK
  <2> QED
    BY <1>1, <1>4, <1>5, <2>1, CallFacts DEF TouchesCall, Shapes, pageVars
<1>7. /\ promise'[<<c, "generate">>] = "ok" /\ promise'[<<c, "prove">>] \in {"pending", "failed"}
      /\ posted'[<<c, "prove">>] => message'[<<c, "prove">>] = msg
  BY <1>1, <1>2, PostFacts, RequestsOfCalls
<1>8. TwoRequests(c)'
  BY <1>4, <1>7 DEF TwoRequests, Settled
<1>9. BuildInv(c)' /\ BundleInv(c)'
  BY <1>1, <1>2, <1>4, SameBuilt DEF BuildInv, BundleInv, pageVars
<1>10. OfCall(c, artifact[c])'
  BY <1>1, <1>2, <1>3, <1>5 DEF OfCall, TransactionOf
<1>11. ProveInv(c)'
  BY <1>1, <1>2, <1>3, <1>4, <1>5, <1>7, <1>10 DEF ProveInv
<1> HIDE DEF msg
<1> QED
  BY <1>1, <1>2, <1>3, <1>6, <1>8, <1>9, <1>11, PostKeeps DEF pageVars

\* What a step of request r may touch: its worker, its timer and its
\* promise, which may be settled if it is pending.
TouchesRequest(r) ==
    /\ alive' \in [Requests -> BOOLEAN]
    /\ fate' \in [Requests -> {"none", "running", "ok", "failed", "threw"}]
    /\ events' \in [Requests -> SUBSET {"ok", "failed", "error"}]
    /\ timer' \in [Requests -> {"off", "armed", "cleared", "fired"}]
    /\ promise' \in [Requests -> {"none", "pending", "ok", "failed"}]
    /\ \A q \in Requests : q # r =>
           /\ alive'[q] = alive[q] /\ fate'[q] = fate[q] /\ events'[q] = events[q]
           /\ timer'[q] = timer[q] /\ promise'[q] = promise[q]
    /\ promise'[r] = promise[r] \/ (promise[r] = "pending" /\ promise'[r] \in {"ok", "failed"})
    /\ UNCHANGED <<pageVars, callVars, message, posted>>

\* Such a step keeps the invariant if it leaves the request in order.
LEMMA WorkerKeeps ==
    ASSUME Inv, NEW r \in Requests, TouchesRequest(r), RequestInv(r)'
    PROVE  Inv'
<1>1. TypeOK' /\ Shapes' /\ CoreInv'
  BY DEF Inv, TypeOK, CallTypes, WorkerTypes, PageInv, Shapes, CoreInv, TouchesRequest,
     pageVars, callVars
<1>2. ASSUME NEW q \in Requests, q # r PROVE RequestInv(q)'
  <2>1. /\ alive'[q] = alive[q] /\ fate'[q] = fate[q] /\ events'[q] = events[q]
        /\ timer'[q] = timer[q] /\ promise'[q] = promise[q] /\ message' = message
        /\ posted' = posted
    BY <1>2 DEF TouchesRequest
  <2>2. RequestInv(q)
    BY RequestFacts
  <2> QED
    BY <2>1, <2>2 DEF RequestInv
<1>3. ASSUME NEW c \in Calls
      PROVE  TwoRequests(c)' /\ BuildInv(c)' /\ ProveInv(c)' /\ BundleInv(c)'
  <2>1. \A q \in Requests :
            promise'[q] = promise[q] \/ (promise[q] = "pending" /\ promise'[q] \in {"ok", "failed"})
    BY DEF TouchesRequest
  <2>2. UNCHANGED <<pageVars, callVars, message, posted>>
    BY DEF TouchesRequest
  <2>3. TwoRequests(c)'
    BY <2>1, <2>2, CallFacts, RequestsOfCalls DEF TwoRequests, callVars
  <2>4. BuildInv(c)'
    BY <2>2, CallFacts, SameBuilt DEF BuildInv, callVars, pageVars
  <2>5. ProveInv(c)' /\ BundleInv(c)'
    BY <2>2, CallFacts DEF ProveInv, OfCall, BundleInv, TransactionOf, callVars
  <2> QED
    BY <2>3, <2>4, <2>5
<1> QED
  BY <1>1, <1>2, <1>3 DEF Inv, PageInv

\* A worker answers or throws.
LEMMA WorkerActs ==
    ASSUME Inv, NEW r \in Requests, WorkerReplies(r) \/ WorkerThrows(r)
    PROVE  Inv'
<1>1. PICK to \in {"ok", "failed", "threw"}, sent \in SUBSET {"ok", "failed", "error"} :
          /\ alive[r] /\ fate' = [fate EXCEPT ![r] = to]
          /\ events' = [events EXCEPT ![r] = events[r] \cup sent]
          /\ \/ to \in {"ok", "failed"} /\ sent = {to} /\ fate[r] = "running"
             \/ to = "threw" /\ sent \subseteq {"error", "failed"}
  <2>1. CASE WorkerReplies(r)
    BY <2>1 DEF WorkerReplies
  <2>2. CASE WorkerThrows(r)
    <3>1. PICK sent \in {{"error", "failed"}} \cup IF fate[r] = "running" THEN {{"error"}} ELSE {} :
              events' = [events EXCEPT ![r] = events[r] \cup sent]
      BY <2>2 DEF WorkerThrows
    <3>2. sent \subseteq {"error", "failed"}
      BY <3>1
    <3> QED
      BY <2>2, <3>1, <3>2 DEF WorkerThrows
  <2> QED
    BY <2>1, <2>2
<1>2. UNCHANGED <<pageVars, callVars, message, posted, alive, timer, promise>>
  BY DEF WorkerReplies, WorkerThrows
<1>3. RequestInv(r) /\ promise[r] # "none"
  BY <1>1, RequestFacts DEF RequestInv
<1>4. /\ fate'[r] = to /\ events'[r] = events[r] \cup sent
      /\ fate' \in [Requests -> {"none", "running", "ok", "failed", "threw"}]
      /\ events' \in [Requests -> SUBSET {"ok", "failed", "error"}]
      /\ \A q \in Requests : q # r => fate'[q] = fate[q] /\ events'[q] = events[q]
  BY <1>1, RequestFacts
<1>5. TouchesRequest(r)
  BY <1>2, <1>4, RequestFacts DEF TouchesRequest
<1>6. RequestInv(r)'
  BY <1>1, <1>2, <1>3, <1>4 DEF RequestInv
<1> QED
  BY <1>5, <1>6, WorkerKeeps

\* A request comes to its end: by an event of its own worker, or by its own
\* timer.
LEMMA RequestEnds ==
    ASSUME Inv, NEW r \in Requests, EventArrives(r) \/ TimerFires(r)
    PROVE  Inv'
<1>1. RequestInv(r) /\ UNCHANGED <<pageVars, callVars, message, posted, fate>>
  BY RequestFacts DEF EventArrives, TimerFires
<1>2. ASSUME NEW rest \in SUBSET {"error"}, rest \subseteq events[r],
             NEW outcome \in {"ok", "failed"}, NEW t \in {"off", "armed", "cleared", "fired"},
             alive' = [alive EXCEPT ![r] = FALSE], events' = [events EXCEPT ![r] = rest],
             timer' = [timer EXCEPT ![r] = t], Settle(r, outcome),
             t = IF timer[r] = "armed" THEN t ELSE timer[r], t # "armed",
             promise[r] = "pending" /\ outcome = "ok" => t = "cleared" /\ fate[r] \in {"ok", "threw"},
             promise[r] = "pending" /\ outcome = "failed" =>
                 t = "fired" \/ fate[r] \in {"failed", "threw"} \/ posted[r] = FALSE
      PROVE  Inv'
  <2>1. /\ alive'[r] = FALSE /\ events'[r] = rest /\ timer'[r] = t
        /\ promise'[r] = IF promise[r] = "pending" THEN outcome ELSE promise[r]
        /\ fate'[r] = fate[r] /\ message'[r] = message[r] /\ posted'[r] = posted[r]
    BY <1>1, <1>2, RequestFacts DEF Settle
  <2>2. TouchesRequest(r)
    BY <1>1, <1>2, <2>1, RequestFacts DEF TouchesRequest, Settle
  <2>3. RequestInv(r)'
    BY <1>1, <1>2, <2>1 DEF RequestInv
  <2> QED
    BY <2>2, <2>3, WorkerKeeps
<1>3. CASE EventArrives(r)
  <2>1. PICK e \in events[r] :
          /\ timer' = [timer EXCEPT ![r] = IF @ = "armed" THEN "cleared" ELSE @]
          /\ alive' = [alive EXCEPT ![r] = FALSE]
          /\ events' = [events EXCEPT ![r] = @ \cap {"error"}, ![r] = (@ \cap {"error"}) \ {e}]
          /\ Settle(r, IF e = "ok" THEN "ok" ELSE "failed")
    BY <1>3 DEF EventArrives, HandlerOf
  <2> DEFINE rest == (events[r] \cap {"error"}) \ {e}
             t == IF timer[r] = "armed" THEN "cleared" ELSE timer[r]
             outcome == IF e = "ok" THEN "ok" ELSE "failed"
  <2>2. rest \in SUBSET {"error"} /\ rest \subseteq events[r] /\ outcome \in {"ok", "failed"}
    OBVIOUS
  <2>3. events' = [events EXCEPT ![r] = rest]
    BY <2>1, RequestFacts
  <2>4. timer' = [timer EXCEPT ![r] = t] /\ t \in {"off", "armed", "cleared", "fired"} /\ t # "armed"
    BY <2>1, RequestFacts
  <2>5. t = IF timer[r] = "armed" THEN t ELSE timer[r]
    OBVIOUS
  <2>6. e \in {"ok", "failed", "error"}
    BY RequestFacts
  <2>7. /\ e = "ok" => fate[r] \in {"ok", "threw"}
        /\ e # "ok" => fate[r] \in {"failed", "threw"}
    BY <1>1, <2>6 DEF RequestInv
  <2>8. promise[r] = "pending" => t = "cleared"
    BY <1>1 DEF RequestInv
  <2>9. Settle(r, outcome)
    BY <2>1
  <2>10. /\ promise[r] = "pending" /\ outcome = "ok" => t = "cleared" /\ fate[r] \in {"ok", "threw"}
         /\ promise[r] = "pending" /\ outcome = "failed" =>
                 t = "fired" \/ fate[r] \in {"failed", "threw"}
    BY <2>6, <2>7, <2>8
  <2> HIDE DEF rest, t, outcome
  <2> QED
    BY <1>2, <2>1, <2>2, <2>3, <2>4, <2>5, <2>9, <2>10
<1>4. CASE TimerFires(r)
  <2>1. /\ timer[r] = "armed" /\ timer' = [timer EXCEPT ![r] = "fired"]
        /\ alive' = [alive EXCEPT ![r] = FALSE]
        /\ events' = [events EXCEPT ![r] = events[r] \cap {"error"}]
        /\ Settle(r, "failed")
    BY <1>4 DEF TimerFires, Terminate
  <2>2. events[r] \cap {"error"} \in SUBSET {"error"} /\ events[r] \cap {"error"} \subseteq events[r]
    OBVIOUS
  <2> QED
    BY <1>2, <2>1, <2>2
<1> QED
  BY <1>3, <1>4

\* The chain grows and the core module loads.
LEMMA PageMoves == ASSUME Inv, ChainGrows \/ LoadEnds PROVE Inv'
<1>1. UNCHANGED <<loads, callVars, workerVars>>
  BY DEF ChainGrows, LoadEnds
<1>2. /\ core' \in {"none", "pending", "ok", "failed"} /\ head' \in 0..MaxHead
      /\ (core = "ok" => core' = "ok") /\ (core = "none" <=> core' = "none")
  BY PageAssumption DEF Inv, TypeOK, ChainGrows, LoadEnds
<1>3. TypeOK'
  BY <1>1, <1>2 DEF Inv, TypeOK, CallTypes, WorkerTypes, callVars, workerVars
<1>4. Shapes' /\ CoreInv'
  BY <1>1, <1>2 DEF Inv, PageInv, Shapes, CoreInv, callVars, workerVars
<1>5. ASSUME NEW r \in Requests PROVE RequestInv(r)'
  BY <1>1, RequestFacts DEF RequestInv, workerVars
<1>6. ASSUME NEW c \in Calls
      PROVE  TwoRequests(c)' /\ BuildInv(c)' /\ ProveInv(c)' /\ BundleInv(c)'
  <2>1. TwoRequests(c)' /\ ProveInv(c)' /\ BundleInv(c)'
    BY <1>1, CallFacts DEF TwoRequests, ProveInv, OfCall, BundleInv, TransactionOf, callVars,
       workerVars
  <2>2. BuildInv(c)'
    BY <1>1, <1>2, CallFacts, SameBuilt DEF BuildInv, callVars
  <2> QED
    BY <2>1, <2>2
<1> QED
  BY <1>3, <1>4, <1>5, <1>6 DEF Inv, PageInv

-----------------------------------------------------------------------------
(* The invariant and what follows from it *)

\* The invariant holds in every state of every behaviour of the page.
THEOREM PageInvariant == Spec => []Inv
<1>1. Inv /\ [Next]_vars => Inv'
  <2> SUFFICES ASSUME Inv, [Next]_vars PROVE Inv'
    OBVIOUS
  <2>1. CASE UNCHANGED vars
    <3>1. UNCHANGED <<pageVars, callVars, workerVars>>
      BY <2>1 DEF vars
    <3>2. TypeOK' /\ Shapes' /\ CoreInv'
      BY <3>1 DEF Inv, TypeOK, CallTypes, WorkerTypes, PageInv, Shapes, CoreInv, pageVars,
         callVars, workerVars
    <3>3. ASSUME NEW r \in Requests PROVE RequestInv(r)'
      BY <3>1, RequestFacts DEF RequestInv, workerVars
    <3>4. ASSUME NEW c \in Calls
          PROVE  TwoRequests(c)' /\ BuildInv(c)' /\ ProveInv(c)' /\ BundleInv(c)'
      BY <3>1, CallFacts, SameBuilt DEF TwoRequests, BuildInv, ProveInv, OfCall, BundleInv,
         TransactionOf, pageVars, callVars, workerVars
    <3> QED
      BY <3>2, <3>3, <3>4 DEF Inv, PageInv
  <2>2. ASSUME NEW c \in Calls, CallStarts(c) \/ Step(c) PROVE Inv'
    BY <2>2, StartKeeps, WalletKeeps, CoreReadyKeeps, FetchKeeps, BuildKeeps, ResolveKeeps, GenerateKeeps,
       ExecutedKeeps, ProvedKeeps, RejectedKeeps DEF Step
  <2> QED
    BY <2>1, <2>2, WorkerActs, RequestEnds, PageMoves DEF Next
<1> QED
  BY <1>1, PageInit, PTL DEF Spec

\* The page's state keeps its types.
THEOREM PageTypeCorrect == Spec => []TypeOK
<1>1. Inv => TypeOK
  BY DEF Inv
<1> QED
  BY <1>1, PageInvariant, PTL

\* A settled call has no worker and no timer left, except a worker it could
\* not post to, with its timer.
THEOREM CallsLeaveNothing == Spec => []NothingOutlivesItsCall
<1>1. ASSUME Inv PROVE NothingOutlivesItsCall
  <2> SUFFICES ASSUME NEW r \in Requests, pc[r[1]] \in Settled,
                      alive[r] \/ timer[r] = "armed"
               PROVE  alive[r] /\ timer[r] = "armed" /\ ~posted[r]
    BY DEF NothingOutlivesItsCall
  <2>1. promise[<<r[1], "generate">>] # "pending" /\ promise[<<r[1], "prove">>] # "pending"
    BY <1>1, RequestsOfCalls, CallFacts DEF TwoRequests
  <2>2. promise[r] # "pending"
    BY <2>1, RequestsOfCalls
  <2> QED
    BY <1>1, <2>2, RequestFacts DEF RequestInv
<1> QED
  BY <1>1, PageInvariant, PTL

\* A request is settled by its own worker, its own timer or its own post.
THEOREM RequestsAreTheirOwn == Spec => []RequestsEndOnTheirOwn
<1>1. ASSUME Inv PROVE RequestsEndOnTheirOwn
  BY <1>1, RequestFacts DEF RequestsEndOnTheirOwn, RequestInv
<1> QED
  BY <1>1, PageInvariant, PTL

\* A bundle is a proof of the execution of the call's transaction on the
\* block it names.
THEOREM BundlesAreOfTheirBlock == Spec => []BundleIsOfItsBlock
<1>1. ASSUME Inv PROVE BundleIsOfItsBlock
  BY <1>1, CallFacts DEF BundleIsOfItsBlock, BundleInv
<1> QED
  BY <1>1, PageInvariant, PTL

\* The core module is loaded once and before anything is built.
THEOREM CoreIsLoadedOnce == Spec => []CoreLoadsOnce
<1>1. ASSUME Inv PROVE CoreLoadsOnce
  BY <1>1, CallFacts DEF CoreLoadsOnce, BuildInv, CoreInv, Inv, PageInv
<1> QED
  BY <1>1, PageInvariant, PTL

-----------------------------------------------------------------------------
(* Hashes *)

\* One hash, one list of felts.
LEMMA PoseidonBinds ==
    ASSUME NEW x, NEW y, poseidon_hash_many(x) = poseidon_hash_many(y)
    PROVE  x = y
<1>1. poseidon_hash_many(x).poseidon = x /\ poseidon_hash_many(y).poseidon = y
  BY DEF poseidon_hash_many
<1> QED
  BY <1>1

\* The hash of an invoke transaction binds what it is made from.
LEMMA HashBinds ==
    ASSUME NEW ts, NEW tk, NEW tn, NEW tt, NEW tb, NEW tf, NEW ct,
           NEW us, NEW uk, NEW un, NEW ut, NEW ub, NEW uf, NEW cu,
           compute_invoke_v3_tx_hash(ts, tk, ct, tn, tt, tb, tf)
             = compute_invoke_v3_tx_hash(us, uk, cu, un, ut, ub, uf)
    PROVE  /\ ts = us /\ tn = un /\ ct = cu
           /\ compute_tip_resource_bounds_hash(tt, tb) = compute_tip_resource_bounds_hash(ut, ub)
           /\ tk = uk /\ tf = uf
<1> DEFINE facts(list) == IF list = <<>> THEN <<>> ELSE <<poseidon_hash_many(list)>>
           e == poseidon_hash_many(<<>>)
           ht == compute_tip_resource_bounds_hash(tt, tb)
           hu == compute_tip_resource_bounds_hash(ut, ub)
           kt == poseidon_hash_many(tk)
           ku == poseidon_hash_many(uk)
<1>1. <<"invoke", 3, ts, ht, e, ct, tn, 0, e, kt>> \o facts(tf)
        = <<"invoke", 3, us, hu, e, cu, un, 0, e, ku>> \o facts(uf)
  BY PoseidonBinds DEF compute_invoke_v3_tx_hash
<1>2. /\ facts(tf) = <<>> \/ \E v : facts(tf) = <<v>>
      /\ facts(uf) = <<>> \/ \E v : facts(uf) = <<v>>
  OBVIOUS
<1> HIDE DEF ht, hu, e, kt, ku, facts
<1>3. /\ <<"invoke", 3, ts, ht, e, ct, tn, 0, e, kt>>
           = <<"invoke", 3, us, hu, e, cu, un, 0, e, ku>>
      /\ facts(tf) = facts(uf)
  BY <1>1, <1>2
<1>4. ts = us /\ ht = hu /\ ct = cu /\ tn = un /\ kt = ku
  BY <1>3
<1>5. tk = uk
  BY <1>4, PoseidonBinds DEF kt, ku
<1>6. tf = uf
  <2>1. CASE tf = <<>> \/ uf = <<>>
    BY <1>3, <2>1 DEF facts
  <2>2. CASE tf # <<>> /\ uf # <<>>
    <3>1. poseidon_hash_many(tf) = poseidon_hash_many(uf)
      BY <1>3, <2>2 DEF facts
    <3> QED
      BY <3>1, PoseidonBinds
  <2> QED
    BY <2>1, <2>2
<1> QED
  BY <1>4, <1>5, <1>6 DEF ht, hu

\* A quotient and a remainder make up one number in one way.
LEMMA OneWay ==
    ASSUME NEW n \in Nat, n > 0, NEW x \in Nat, NEW y \in Nat, NEW r \in 0 .. n - 1,
           NEW s \in 0 .. n - 1, x * n + r = y * n + s
    PROVE  x = y /\ r = s
<1>1. ~(x < y)
  <2> SUFFICES ASSUME x < y PROVE FALSE
    OBVIOUS
  <2>1. PICK k \in Nat : y = x + k + 1
    <3> WITNESS y - x - 1 \in Nat
    <3> QED OBVIOUS
  <2>2. y * n = x * n + k * n + n
    BY <2>1
  <2>3. k * n \in Nat /\ x * n \in Nat
    OBVIOUS
  <2> QED
    BY <2>2, <2>3
<1>2. ~(y < x)
  <2> SUFFICES ASSUME y < x PROVE FALSE
    OBVIOUS
  <2>1. PICK k \in Nat : x = y + k + 1
    <3> WITNESS x - y - 1 \in Nat
    <3> QED OBVIOUS
  <2>2. x * n = y * n + k * n + n
    BY <2>1
  <2>3. k * n \in Nat /\ y * n \in Nat
    OBVIOUS
  <2> QED
    BY <2>2, <2>3
<1>3. x = y
  BY <1>1, <1>2
<1>4. x * n = y * n /\ x * n \in Nat
  BY <1>3
<1> QED
  BY <1>3, <1>4

\* A bound within its widths can be read off its felt.
LEMMA ResourceBinds ==
    ASSUME NEW gas \in Gases,
           NEW a \in [max_amount : 0 .. 2^AmountBits - 1, max_price_per_unit : 0 .. 2^PriceBits - 1],
           NEW b \in [max_amount : 0 .. 2^AmountBits - 1, max_price_per_unit : 0 .. 2^PriceBits - 1],
           concat_resource(a, gas) = concat_resource(b, gas)
    PROVE  a = b
<1> DEFINE A == 2^AmountBits
           P == 2^PriceBits
           n == resource_name_felt[gas]
<1>1. A \in Nat /\ A > 0 /\ P \in Nat /\ P > 0 /\ n \in Nat
  BY WidthAssumption DEF resource_name_felt, Gases
<1>2. /\ a.max_amount \in 0 .. A - 1 /\ b.max_amount \in 0 .. A - 1
      /\ a.max_price_per_unit \in 0 .. P - 1 /\ b.max_price_per_unit \in 0 .. P - 1
      /\ a = [max_amount |-> a.max_amount, max_price_per_unit |-> a.max_price_per_unit]
      /\ b = [max_amount |-> b.max_amount, max_price_per_unit |-> b.max_price_per_unit]
  OBVIOUS
<1>3. (n * A + a.max_amount) * P + a.max_price_per_unit
        = (n * A + b.max_amount) * P + b.max_price_per_unit
  BY DEF concat_resource
<1> HIDE DEF A, P, n
<1>4. n * A \in Nat
  BY <1>1
<1>5. n * A + a.max_amount \in Nat /\ n * A + b.max_amount \in Nat
  BY <1>1, <1>2, <1>4
<1>6. /\ n * A + a.max_amount = n * A + b.max_amount
      /\ a.max_price_per_unit = b.max_price_per_unit
  <2> DEFINE x == n * A + a.max_amount
             y == n * A + b.max_amount
  <2>1. x \in Nat /\ y \in Nat /\ x * P + a.max_price_per_unit = y * P + b.max_price_per_unit
    BY <1>3, <1>5
  <2> HIDE DEF x, y
  <2>2. x = y /\ a.max_price_per_unit = b.max_price_per_unit
    BY <1>1, <1>2, <2>1, OneWay
  <2> QED
    BY <2>2 DEF x, y
<1>7. a.max_amount = b.max_amount
  BY <1>1, <1>2, <1>4, <1>6
<1> QED
  BY <1>2, <1>6, <1>7

\* The hash of tip and bounds binds both.
LEMMA BoundsBind ==
    ASSUME NEW t, NEW u, NEW a \in ResourceBounds, NEW b \in ResourceBounds,
           compute_tip_resource_bounds_hash(t, a) = compute_tip_resource_bounds_hash(u, b)
    PROVE  t = u /\ a = b
<1> DEFINE B == [max_amount : 0 .. 2^AmountBits - 1, max_price_per_unit : 0 .. 2^PriceBits - 1]
<1>1. /\ a = [l1_gas |-> a.l1_gas, l2_gas |-> a.l2_gas, l1_data_gas |-> a.l1_data_gas]
      /\ b = [l1_gas |-> b.l1_gas, l2_gas |-> b.l2_gas, l1_data_gas |-> b.l1_data_gas]
      /\ a.l1_gas \in B /\ a.l2_gas \in B /\ a.l1_data_gas \in B
      /\ b.l1_gas \in B /\ b.l2_gas \in B /\ b.l1_data_gas \in B
  BY DEF ResourceBounds
<1>2. <<t, concat_resource(a.l1_gas, "l1_gas"), concat_resource(a.l2_gas, "l2_gas"),
        concat_resource(a.l1_data_gas, "l1_data_gas")>>
        = <<u, concat_resource(b.l1_gas, "l1_gas"), concat_resource(b.l2_gas, "l2_gas"),
            concat_resource(b.l1_data_gas, "l1_data_gas")>>
  BY PoseidonBinds DEF compute_tip_resource_bounds_hash
<1>3. /\ t = u
      /\ concat_resource(a.l1_gas, "l1_gas") = concat_resource(b.l1_gas, "l1_gas")
      /\ concat_resource(a.l2_gas, "l2_gas") = concat_resource(b.l2_gas, "l2_gas")
      /\ concat_resource(a.l1_data_gas, "l1_data_gas")
           = concat_resource(b.l1_data_gas, "l1_data_gas")
  BY <1>2
<1>4. "l1_gas" \in Gases /\ "l2_gas" \in Gases /\ "l1_data_gas" \in Gases
  BY DEF Gases
<1>5. a.l1_gas = b.l1_gas /\ a.l2_gas = b.l2_gas /\ a.l1_data_gas = b.l1_data_gas
  BY <1>1, <1>3, <1>4, ResourceBinds
<1> QED
  BY <1>1, <1>3, <1>5

\* What a call has built: the JSON holds what was hashed, with bounds within
\* their widths.
LEMMA BuiltFacts ==
    ASSUME Inv, NEW c \in Calls, built[c] # None
    PROVE  \E chain, proof : \E bounds \in ResourceBounds :
               LET t == built[c].transaction IN
               /\ t = Json(t.sender, t.calldata, t.nonce, t.tip, bounds, proof, t.proof_facts)
               /\ built[c].tx_hash =
                    compute_invoke_v3_tx_hash(t.sender, t.calldata, chain, t.nonce, t.tip, bounds,
                                              t.proof_facts)
<1>1. built[c] = BuiltFor(c) /\ input[c].fn # "proveSnip36InBrowser" /\ pc[c] # "idle"
  BY CallFacts DEF BuildInv
<1>2. IsInput(input[c])
  BY <1>1, InputFacts
<1>3. default_bounds \in ResourceBounds /\ zero_fee \in ResourceBounds
  BY WidthAssumption DEF default_bounds, zero_fee, ResourceBounds, Bound
<1> DEFINE p == Passed(c)
<1>4. p.resource_bounds = input[c].resource_bounds
  <2> DEFINE i == [input[c] EXCEPT !.nonce = got[c].nonce]
  <2>1. /\ i.fn = input[c].fn /\ i.resource_bounds = input[c].resource_bounds
        /\ i = [fn |-> i.fn, sender |-> i.sender, private_key |-> i.private_key,
                call |-> i.call, calldata |-> i.calldata, tx_json |-> i.tx_json,
                nonce |-> i.nonce, chain_id |-> i.chain_id,
                resource_bounds |-> i.resource_bounds, block_number |-> i.block_number,
                proof |-> i.proof, proof_facts |-> i.proof_facts]
    BY <1>2 DEF IsInput
  <2>2. i.fn \in {"get_snip36_proof", "buildTransactionForProving", "buildPayload",
                  "buildUnsignedPayload"}
    BY <1>1, <1>2, <2>1 DEF IsInput, Exported, Proving
  <2>3. \/ p = [i EXCEPT !.private_key = None, !.calldata = getExecuteCalldata(i.call),
                         !.chain_id = toChainIdFelt(@)]
        \/ p = [i EXCEPT !.calldata = i.call] \/ p = i \/ p = [i EXCEPT !.private_key = None]
    BY <2>2 DEF Passed
  <2> HIDE DEF i, p
  <2> QED
    BY <2>1, <2>3
<1>5. /\ OrElse(p.resource_bounds, default_bounds) \in ResourceBounds
      /\ OrElse(p.resource_bounds, zero_fee) \in ResourceBounds
  BY <1>2, <1>3, <1>4 DEF OrElse, IsInput
<1> HIDE DEF p
<1>6. CASE built[c] = build_transaction_from_json(p)
  <2> DEFINE b == OrElse(p.resource_bounds, zero_fee)
  <2>1. /\ built[c].transaction = Json(p.sender, p.calldata, p.nonce, 0, b, None, <<>>)
        /\ built[c].tx_hash = compute_invoke_v3_tx_hash(p.sender, p.calldata,
               chain_id_felt(p.chain_id), p.nonce, 0, b, <<>>)
    BY <1>6 DEF build_transaction_from_json, Output
  <2> HIDE DEF b
  <2>2. b \in ResourceBounds
    BY <1>5 DEF b
  <2> DEFINE t == built[c].transaction
  <2>3. /\ t.sender = p.sender /\ t.calldata = p.calldata /\ t.nonce = p.nonce /\ t.tip = 0
        /\ t.proof_facts = <<>>
    BY <2>1 DEF Json
  <2>4. t = Json(t.sender, t.calldata, t.nonce, t.tip, b, None, t.proof_facts)
    BY <2>1, <2>3
  <2>5. built[c].tx_hash = compute_invoke_v3_tx_hash(t.sender, t.calldata,
               chain_id_felt(p.chain_id), t.nonce, t.tip, b, t.proof_facts)
    BY <2>1, <2>3
  <2> QED
    BY <2>2, <2>4, <2>5
<1>7. CASE built[c] = build_payload_from_json(p)
  <2> DEFINE b == OrElse(p.resource_bounds, default_bounds)
  <2>1. /\ built[c].transaction =
               Json(p.sender, p.calldata, p.nonce, 0, b, p.proof, p.proof_facts)
        /\ built[c].tx_hash = compute_invoke_v3_tx_hash(p.sender, p.calldata,
               chain_id_felt(p.chain_id), p.nonce, 0, b, p.proof_facts)
    BY <1>7 DEF build_payload_from_json, Output
  <2> HIDE DEF b
  <2>2. b \in ResourceBounds
    BY <1>5 DEF b
  <2> DEFINE t == built[c].transaction
  <2>3. /\ t.sender = p.sender /\ t.calldata = p.calldata /\ t.nonce = p.nonce /\ t.tip = 0
        /\ t.proof_facts = p.proof_facts
    BY <2>1 DEF Json
  <2>4. t = Json(t.sender, t.calldata, t.nonce, t.tip, b, p.proof, t.proof_facts)
    BY <2>1, <2>3
  <2>5. built[c].tx_hash = compute_invoke_v3_tx_hash(t.sender, t.calldata,
               chain_id_felt(p.chain_id), t.nonce, t.tip, b, t.proof_facts)
    BY <2>1, <2>3
  <2> QED
    BY <2>2, <2>4, <2>5
<1> QED
  BY <1>1, <1>6, <1>7 DEF BuiltFor, p

\* The hash of what was built binds the whole JSON but its proof.
THEOREM HashesBind == Spec => []HashBindsTransaction
<1>1. ASSUME Inv PROVE HashBindsTransaction
  <2> SUFFICES ASSUME NEW c \in Calls, NEW d \in Calls, built[c] # None, built[d] # None,
                      built[c].tx_hash = built[d].tx_hash
               PROVE  [built[c].transaction EXCEPT !.proof = None]
                        = [built[d].transaction EXCEPT !.proof = None]
    BY DEF HashBindsTransaction
  <2> DEFINE t == built[c].transaction
             u == built[d].transaction
  <2>1. PICK ct, tp : \E tb \in ResourceBounds :
               /\ t = Json(t.sender, t.calldata, t.nonce, t.tip, tb, tp, t.proof_facts)
               /\ built[c].tx_hash =
                    compute_invoke_v3_tx_hash(t.sender, t.calldata, ct, t.nonce, t.tip, tb,
                                              t.proof_facts)
    BY <1>1, BuiltFacts
  <2>2. PICK tb \in ResourceBounds :
               /\ t = Json(t.sender, t.calldata, t.nonce, t.tip, tb, tp, t.proof_facts)
               /\ built[c].tx_hash =
                    compute_invoke_v3_tx_hash(t.sender, t.calldata, ct, t.nonce, t.tip, tb,
                                              t.proof_facts)
    BY <2>1
  <2>3. PICK cu, up : \E ub \in ResourceBounds :
               /\ u = Json(u.sender, u.calldata, u.nonce, u.tip, ub, up, u.proof_facts)
               /\ built[d].tx_hash =
                    compute_invoke_v3_tx_hash(u.sender, u.calldata, cu, u.nonce, u.tip, ub,
                                              u.proof_facts)
    BY <1>1, BuiltFacts
  <2>4. PICK ub \in ResourceBounds :
               /\ u = Json(u.sender, u.calldata, u.nonce, u.tip, ub, up, u.proof_facts)
               /\ built[d].tx_hash =
                    compute_invoke_v3_tx_hash(u.sender, u.calldata, cu, u.nonce, u.tip, ub,
                                              u.proof_facts)
    BY <2>3
  <2> HIDE DEF t, u
  <2>5. compute_invoke_v3_tx_hash(t.sender, t.calldata, ct, t.nonce, t.tip, tb, t.proof_facts)
          = compute_invoke_v3_tx_hash(u.sender, u.calldata, cu, u.nonce, u.tip, ub, u.proof_facts)
    BY <2>2, <2>4
  <2>6. /\ t.sender = u.sender /\ t.nonce = u.nonce /\ t.calldata = u.calldata
        /\ t.proof_facts = u.proof_facts
        /\ compute_tip_resource_bounds_hash(t.tip, tb) = compute_tip_resource_bounds_hash(u.tip, ub)
    BY <2>5, HashBinds
  <2>7. t.tip = u.tip /\ tb = ub
    BY <2>6, BoundsBind
  <2> QED
    BY <2>2, <2>4, <2>6, <2>7 DEF Json, t, u
<1> QED
  BY <1>1, PageInvariant, PTL
=============================================================================
