------------------------ MODULE ProvingServiceProofs ------------------------
(***************************************************************************)
(* Proofs about ProvingService, for every finite set of requests, every    *)
(* limit and every configuration: its types, that permits are conserved,   *)
(* that a proof is of the block in its header, and that the semaphore      *)
(* implements Admission.                                                   *)
(***************************************************************************)
EXTENDS ProvingServiceInvariant, FiniteSetTheorems, TLAPS

-----------------------------------------------------------------------------
(* Answers and checks *)

\* The codes errors are answered with: known ones, and never a proof.
LEMMA Codes ==
    /\ \A e \in {"InvalidTransactionType", "InvalidTransactionInput", "Pending",
                 "RunnerError", "ProvingError", "ProgramOutputError"} :
         CodeOf(e) \in Answers /\ CodeOf(e) # Ok
    /\ Ok \in Answers /\ ServiceBusy \in Answers /\ ServiceBusy # Ok
    /\ None \notin Answers
BY ConstAssumption DEF CodeOf, Answers, Ok, BlockNotFound, ValidationFailure,
   UnsupportedTxVersion, InvalidTransactionInput, ServiceBusy, InternalError

\* What the checks can say, and that they stop a pending block.
LEMMA Refusals ==
    ASSUME NEW id \in Ids, NEW t \in Txs
    PROVE  /\ Refusal(id, t) # None =>
                Refusal(id, t) \in {"InvalidTransactionType", "InvalidTransactionInput",
                                    "Pending"}
           /\ Refusal(id, t) = None => id \in Blocks \cup {Latest}
BY ConstAssumption DEF Refusal, Ids

-----------------------------------------------------------------------------
(* Permits *)

PcTyped == pc \in [Requests -> Serving \cup {"idle", "answered", "dropped"}]

\* The requests being served are finitely many.
LEMMA HoldingFinite == IsFiniteSet(Holding) /\ Cardinality(Holding) \in Nat
BY FiniteAssumption, FS_Subset, FS_CardinalityType DEF Holding

\* A request that starts being served takes one permit.
LEMMA PermitTaken ==
    ASSUME PcTyped, PermitsConserved, permits \in Nat,
           NEW r \in Requests, NEW to \in Serving, pc[r] \notin Serving,
           Goto(r, to), permits' = permits - 1
    PROVE  PermitsConserved'
<1>1. Holding' = Holding \cup {r} /\ r \notin Holding
  BY DEF Holding, Goto, PcTyped
<1>2. Cardinality(Holding \cup {r}) = Cardinality(Holding) + 1
  BY <1>1, HoldingFinite, FS_AddElement
<1> QED
  BY <1>1, <1>2, HoldingFinite, ConstAssumption DEF PermitsConserved

\* A request that stops being served, answered or dropped, gives it back.
LEMMA PermitGiven ==
    ASSUME PcTyped, PermitsConserved, permits \in Nat,
           NEW r \in Requests, NEW to, to \notin Serving, pc[r] \in Serving,
           Goto(r, to), GiveBack
    PROVE  PermitsConserved' /\ permits' \in 0..MaxConcurrent
<1>1. Holding' = Holding \ {r} /\ r \in Holding
  BY DEF Holding, Goto, PcTyped
<1>2. Cardinality(Holding \ {r}) = Cardinality(Holding) - 1
  BY <1>1, HoldingFinite, FS_RemoveElement
<1>3. Cardinality(Holding \ {r}) \in Nat
  BY HoldingFinite, FS_RemoveElement, FS_CardinalityType
<1> QED
  BY <1>1, <1>2, <1>3, HoldingFinite, ConstAssumption DEF PermitsConserved, GiveBack

\* A request that stays on its side of the semaphore moves no permit.
LEMMA PermitKept ==
    ASSUME PcTyped, PermitsConserved,
           NEW r \in Requests, NEW to, to \in Serving <=> pc[r] \in Serving,
           Goto(r, to), permits' = permits
    PROVE  PermitsConserved'
<1>1. Holding' = Holding
  BY DEF Holding, Goto, PcTyped
<1> QED
  BY <1>1 DEF PermitsConserved

\* Steps of jobs and of the chain leave requests and permits alone.
LEMMA PermitUntouched ==
    ASSUME PermitsConserved, UNCHANGED futureVars
    PROVE  PermitsConserved'
<1>1. Holding' = Holding
  BY DEF Holding, futureVars
<1> QED
  BY <1>1 DEF PermitsConserved, futureVars

\* What is proved together.
Inv == TypeOK /\ PermitsConserved /\ PipelineInv

\* The service starts with all permits and no requests.
LEMMA ServiceInit == Init => Inv
<1> SUFFICES ASSUME Init PROVE Inv
  OBVIOUS
<1>1. TypeOK
  BY ConstAssumption DEF Init, TypeOK, Blocks
<1>2. Holding = {}
  BY DEF Init, Holding, Serving, Awaiting
<1>3. PermitsConserved
  BY <1>2, FS_EmptySet, ConstAssumption DEF PermitsConserved, Init
<1>4. PipelineInv
  BY ConstAssumption DEF Init, PipelineInv, JobsFollowRequests, JobsHaveInputs,
     HeadersAreReal, ReadsAreOfHeader, Ok
<1> QED
  BY <1>1, <1>3, <1>4 DEF Inv

-----------------------------------------------------------------------------
(* Facts about a request that several steps use *)

\* A request that has not arrived has left no trace.
LEMMA IdleIsBlank ==
    ASSUME Inv, NEW r \in Requests, pc[r] = "idle"
    PROVE  job[r] = "none" /\ header[r] = None /\ answer[r] = None
BY DEF Inv, PipelineInv, JobsFollowRequests, HeadersAreReal, ReadsAreOfHeader

\* A job that executes belongs to a request that waits for it or was dropped,
\* and it asks for a block there can be.
LEMMA ExecutingJob ==
    ASSUME Inv, NEW r \in Requests, job[r] \in {"header", "state", "execute"}
    PROVE  /\ pc[r] \in {"executing", "dropped"} /\ answer[r] = None
           /\ Resolve(at[r]) \in Blocks /\ (at[r] # Latest => Resolve(at[r]) = at[r])
<1>1. pc[r] \in {"executing", "dropped"}
  BY DEF Inv, TypeOK, PipelineInv, JobsFollowRequests, Serving, Awaiting, JobRuns, JobFailed
<1>2. answer[r] = None
  BY <1>1 DEF Inv, PipelineInv, ReadsAreOfHeader
<1>3. at[r] \in Blocks \cup {Latest} /\ head \in Blocks
  BY DEF Inv, TypeOK, PipelineInv, JobsHaveInputs
<1> QED
  BY <1>1, <1>2, <1>3 DEF Resolve

\* An answer that is not a proof, or that ends the proving of a request, is
\* backed by what the virtual OS checked.
LEMMA AnswersAreBacked ==
    ASSUME Inv, NEW r \in Requests, NEW code \in Answers, Answer(r, code),
           UNCHANGED dataVars, code = Ok => pc[r] = "proving"
    PROVE  ReadsAreOfHeader'
<1>1. /\ UNCHANGED <<world, header, reads, proofs>>
      /\ \A q \in Requests : q # r => pc'[q] = pc[q] /\ answer'[q] = answer[q]
      /\ pc'[r] = "answered" /\ answer'[r] = code
  BY DEF Inv, TypeOK, Answer, Goto, nodeVars, dataVars
<1> QED
  BY <1>1 DEF Inv, PipelineInv, ReadsAreOfHeader

-----------------------------------------------------------------------------
(* One lemma for each action: it keeps the invariant *)

\* A call that finds no permit.
LEMMA BusyStep ==
    ASSUME Inv, NEW r \in Requests, NEW id \in Ids, NEW t \in Txs, Busy(r, id, t)
    PROVE  Inv'
<1> USE DEF Inv, PipelineInv, TypeOK, Busy, Arrives, Goto, nodeVars, dataVars,
   Serving, Awaiting, JobRuns, JobFailed
<1>b. job[r] = "none" /\ header[r] = None /\ answer[r] = None
  BY IdleIsBlank
<1>1. TypeOK'
  BY ConstAssumption, Codes
<1>2. PermitsConserved'
  BY PermitKept DEF PcTyped
<1>3. JobsFollowRequests'
  BY ConstAssumption, <1>b DEF JobsFollowRequests
<1>4. JobsHaveInputs'
  BY ConstAssumption, <1>b DEF JobsHaveInputs
<1>5. HeadersAreReal'
  BY ConstAssumption, <1>b DEF HeadersAreReal
<1>6. ReadsAreOfHeader'
  BY ConstAssumption, Codes, <1>b, ZenonT(40) DEF ReadsAreOfHeader
<1> QED
  BY <1>1, <1>2, <1>3, <1>4, <1>5, <1>6

\* A call that a check stops.
LEMMA RefuseStep ==
    ASSUME Inv, NEW r \in Requests, NEW id \in Ids, NEW t \in Txs, Refuse(r, id, t)
    PROVE  Inv'
<1> USE DEF Inv, PipelineInv, TypeOK, Refuse, Arrives, Goto, nodeVars, dataVars,
   Serving, Awaiting, JobRuns, JobFailed
<1>b. job[r] = "none" /\ header[r] = None /\ answer[r] = None
  BY IdleIsBlank
<1>a. CodeOf(Refusal(id, t)) \in Answers /\ CodeOf(Refusal(id, t)) # Ok
  BY Codes, Refusals
<1>1. TypeOK'
  BY ConstAssumption, <1>a
<1>2. PermitsConserved'
  BY PermitKept DEF PcTyped
<1>3. JobsFollowRequests'
  BY ConstAssumption, <1>b DEF JobsFollowRequests
<1>4. JobsHaveInputs'
  BY ConstAssumption, <1>b DEF JobsHaveInputs
<1>5. HeadersAreReal'
  BY ConstAssumption, <1>b DEF HeadersAreReal
<1>6. ReadsAreOfHeader'
  BY ConstAssumption, <1>a, <1>b DEF ReadsAreOfHeader
<1> QED
  BY <1>1, <1>2, <1>3, <1>4, <1>5, <1>6

\* A call that is admitted and starts its job.
LEMMA AdmitStep ==
    ASSUME Inv, NEW r \in Requests, NEW id \in Ids, NEW t \in Txs, Admit(r, id, t)
    PROVE  Inv'
<1>a. permits \in 1..MaxConcurrent /\ permits' = permits - 1 /\ permits' \in 0..MaxConcurrent
  BY ConstAssumption DEF Inv, TypeOK, Admit, HasPermit
<1>p. PermitsConserved'
  <2>1. PcTyped /\ permits \in Nat
    BY <1>a DEF Inv, TypeOK, PcTyped
  <2>2. pc[r] \notin Serving /\ "executing" \in Serving /\ Goto(r, "executing")
    BY DEF Admit, Arrives, Serving, Awaiting
  <2> QED
    BY <1>a, <2>1, <2>2, PermitTaken DEF Inv
<1> USE DEF Inv, PipelineInv, TypeOK, Admit, HasPermit, Arrives, Goto, nodeVars,
   dataVars, Serving, Awaiting, JobRuns, JobFailed
<1>b. job[r] = "none" /\ header[r] = None /\ answer[r] = None
  BY IdleIsBlank
<1>1. TypeOK'
  BY ConstAssumption, <1>a
<1>2. PermitsConserved'
  BY <1>p
<1>3. JobsFollowRequests'
  BY ConstAssumption, <1>b DEF JobsFollowRequests
<1>4. JobsHaveInputs'
  BY ConstAssumption, Refusals DEF JobsHaveInputs
<1>5. HeadersAreReal'
  BY ConstAssumption, <1>b DEF HeadersAreReal
<1>6. ReadsAreOfHeader'
  BY ConstAssumption, Codes, <1>b DEF ReadsAreOfHeader
<1> QED
  BY <1>1, <1>2, <1>3, <1>4, <1>5, <1>6

\* The job fetches the header.
LEMMA JobFetchesHeaderStep ==
    ASSUME Inv, NEW r \in Requests, JobFetchesHeader(r)
    PROVE  Inv'
<1>b. /\ pc[r] \in {"executing", "dropped"} /\ answer[r] = None
      /\ Resolve(at[r]) \in Blocks /\ (at[r] # Latest => Resolve(at[r]) = at[r])
  BY ExecutingJob DEF JobFetchesHeader, JobStep
<1>f. /\ UNCHANGED <<pc, answer, world, proofs>>
      /\ \A q \in Requests : q # r => reads'[q] = reads[q] /\ header'[q] = header[q]
  BY DEF JobFetchesHeader, JobStep, nodeVars, futureVars, Inv, TypeOK
<1>r. ReadsAreOfHeader'
  BY <1>b, <1>f, Codes DEF Inv, PipelineInv, ReadsAreOfHeader
<1>a. Resolve(at[r]) # None
  BY <1>b, ConstAssumption DEF Blocks
<1> USE DEF Inv, PipelineInv, TypeOK, JobFetchesHeader, JobStep, nodeVars, futureVars,
   Serving, Awaiting, JobRuns, JobFailed
<1>1. TypeOK'
  BY ConstAssumption, <1>b
<1>2. PermitsConserved'
  BY PermitUntouched
<1>3. JobsFollowRequests'
  BY ConstAssumption, <1>b DEF JobsFollowRequests
<1>4. JobsHaveInputs'
  BY ConstAssumption, <1>b DEF JobsHaveInputs
<1>5. HeadersAreReal'
  BY ConstAssumption, <1>a, <1>b DEF HeadersAreReal
<1>6. ReadsAreOfHeader'
  BY <1>r
<1> QED
  BY <1>1, <1>2, <1>3, <1>4, <1>5, <1>6

\* The job simulates the transaction.
LEMMA JobPrefetchesStep ==
    ASSUME Inv, NEW r \in Requests, JobPrefetches(r)
    PROVE  Inv'
<1>b. /\ pc[r] \in {"executing", "dropped"} /\ answer[r] = None
      /\ Resolve(at[r]) \in Blocks /\ (at[r] # Latest => Resolve(at[r]) = at[r])
  BY ExecutingJob DEF JobPrefetches, JobStep
<1>f. /\ UNCHANGED <<pc, answer, world, proofs>>
      /\ \A q \in Requests : q # r => reads'[q] = reads[q] /\ header'[q] = header[q]
  BY DEF JobPrefetches, JobStep, nodeVars, futureVars, Inv, TypeOK
<1>r. ReadsAreOfHeader'
  BY <1>b, <1>f, Codes DEF Inv, PipelineInv, ReadsAreOfHeader
<1> USE DEF Inv, PipelineInv, TypeOK, JobPrefetches, JobStep, nodeVars, futureVars,
   Serving, Awaiting, JobRuns, JobFailed
<1>a. {world[Resolve(at[r])]} \in SUBSET {0, 1}
  BY <1>b
<1>1. TypeOK'
  BY ConstAssumption, <1>a, <1>b
<1>2. PermitsConserved'
  BY PermitUntouched
<1>3. JobsFollowRequests'
  BY ConstAssumption, <1>b DEF JobsFollowRequests
<1>4. JobsHaveInputs'
  BY ConstAssumption, <1>b DEF JobsHaveInputs
<1>5. HeadersAreReal'
  BY ConstAssumption, <1>b DEF HeadersAreReal
<1>6. ReadsAreOfHeader'
  BY <1>r
<1> QED
  BY <1>1, <1>2, <1>3, <1>4, <1>5, <1>6

\* The job executes the transaction.
LEMMA JobExecutesStep ==
    ASSUME Inv, NEW r \in Requests, JobExecutes(r)
    PROVE  Inv'
<1>b. /\ pc[r] \in {"executing", "dropped"} /\ answer[r] = None
      /\ Resolve(at[r]) \in Blocks /\ (at[r] # Latest => Resolve(at[r]) = at[r])
  BY ExecutingJob DEF JobExecutes, JobStep
<1>f. /\ UNCHANGED <<pc, answer, world, proofs>>
      /\ \A q \in Requests : q # r => reads'[q] = reads[q] /\ header'[q] = header[q]
  BY DEF JobExecutes, JobStep, nodeVars, futureVars, Inv, TypeOK
<1>r. ReadsAreOfHeader'
  BY <1>b, <1>f, Codes DEF Inv, PipelineInv, ReadsAreOfHeader
<1> USE DEF Inv, PipelineInv, TypeOK, JobExecutes, JobStep, nodeVars, futureVars,
   Serving, Awaiting, JobRuns, JobFailed
<1>a. {world[Resolve(at[r])]} \in SUBSET {0, 1}
  BY <1>b
<1>c. PICK more \in {{}, {world[Resolve(at[r])]}} : reads' = [reads EXCEPT ![r] = reads[r] \cup more]
  BY DEF JobExecutes
<1>d. reads[r] \cup more \in SUBSET {0, 1}
  BY <1>a, <1>c
<1>1. TypeOK'
  BY ConstAssumption, <1>b, <1>c, <1>d
<1>2. PermitsConserved'
  BY PermitUntouched
<1>3. JobsFollowRequests'
  BY ConstAssumption, <1>b DEF JobsFollowRequests
<1>4. JobsHaveInputs'
  BY ConstAssumption, <1>b DEF JobsHaveInputs
<1>5. HeadersAreReal'
  BY ConstAssumption, <1>b DEF HeadersAreReal
<1>6. ReadsAreOfHeader'
  BY <1>r
<1> QED
  BY <1>1, <1>2, <1>3, <1>4, <1>5, <1>6

\* The prover is done.
LEMMA JobProvesStep ==
    ASSUME Inv, NEW r \in Requests, JobProves(r)
    PROVE  Inv'
<1> USE DEF Inv, PipelineInv, TypeOK, JobProves, JobStep, nodeVars, futureVars,
   Serving, Awaiting, JobRuns, JobFailed
<1>1. TypeOK'
  BY ConstAssumption
<1>2. PermitsConserved'
  BY PermitUntouched
<1>3. JobsFollowRequests'
  BY ConstAssumption DEF JobsFollowRequests
<1>4. JobsHaveInputs'
  BY ConstAssumption DEF JobsHaveInputs
<1>5. HeadersAreReal'
  BY ConstAssumption DEF HeadersAreReal
<1>6. ReadsAreOfHeader'
  BY ConstAssumption DEF ReadsAreOfHeader
<1> QED
  BY <1>1, <1>2, <1>3, <1>4, <1>5, <1>6

\* The node has no such block.
LEMMA JobFindsNoBlockStep ==
    ASSUME Inv, NEW r \in Requests, JobFindsNoBlock(r)
    PROVE  Inv'
<1> USE DEF Inv, PipelineInv, TypeOK, JobFindsNoBlock, JobStep, nodeVars, futureVars,
   Serving, Awaiting, JobRuns, JobFailed
<1>1. TypeOK'
  BY ConstAssumption
<1>2. PermitsConserved'
  BY PermitUntouched
<1>3. JobsFollowRequests'
  BY ConstAssumption DEF JobsFollowRequests
<1>4. JobsHaveInputs'
  BY ConstAssumption DEF JobsHaveInputs
<1>5. HeadersAreReal'
  BY ConstAssumption DEF HeadersAreReal
<1>6. ReadsAreOfHeader'
  BY ConstAssumption DEF ReadsAreOfHeader
<1> QED
  BY <1>1, <1>2, <1>3, <1>4, <1>5, <1>6

\* The validation reverts.
LEMMA JobRevertsStep ==
    ASSUME Inv, NEW r \in Requests, JobReverts(r)
    PROVE  Inv'
<1>b. PICK from \in {"state", "execute"} : JobStep(r, from, "reverted")
  BY DEF JobReverts
<1> USE DEF Inv, PipelineInv, TypeOK, JobReverts, JobStep, nodeVars, futureVars,
   Serving, Awaiting, JobRuns, JobFailed
<1>1. TypeOK'
  BY ConstAssumption
<1>2. PermitsConserved'
  BY PermitUntouched
<1>3. JobsFollowRequests'
  BY ConstAssumption, <1>b DEF JobsFollowRequests
<1>4. JobsHaveInputs'
  BY ConstAssumption DEF JobsHaveInputs
<1>5. HeadersAreReal'
  BY ConstAssumption, <1>b DEF HeadersAreReal
<1>6. ReadsAreOfHeader'
  BY ConstAssumption DEF ReadsAreOfHeader
<1> QED
  BY <1>1, <1>2, <1>3, <1>4, <1>5, <1>6

\* The job fails.
LEMMA JobBreaksStep ==
    ASSUME Inv, NEW r \in Requests, JobBreaks(r)
    PROVE  Inv'
<1>b. PICK from \in JobRuns : JobStep(r, from, "broken")
  BY DEF JobBreaks
<1> USE DEF Inv, PipelineInv, TypeOK, JobBreaks, JobStep, nodeVars, futureVars,
   Serving, Awaiting, JobRuns, JobFailed
<1>1. TypeOK'
  BY ConstAssumption
<1>2. PermitsConserved'
  BY PermitUntouched
<1>3. JobsFollowRequests'
  BY ConstAssumption, <1>b DEF JobsFollowRequests
<1>4. JobsHaveInputs'
  BY ConstAssumption DEF JobsHaveInputs
<1>5. HeadersAreReal'
  BY ConstAssumption, <1>b DEF HeadersAreReal
<1>6. ReadsAreOfHeader'
  BY ConstAssumption DEF ReadsAreOfHeader
<1> QED
  BY <1>1, <1>2, <1>3, <1>4, <1>5, <1>6

\* The executor answers its request.
LEMMA ExecutionReturnsStep ==
    ASSUME Inv, NEW r \in Requests, ExecutionReturns(r)
    PROVE  Inv'
<1> USE DEF Inv, PipelineInv, TypeOK, ExecutionReturns, MovesOn, Goto, nodeVars,
   dataVars, Serving, Awaiting, JobRuns, JobFailed
<1>1. TypeOK'
  BY ConstAssumption
<1>2. PermitsConserved'
  BY PermitKept DEF PcTyped
<1>3. JobsFollowRequests'
  BY ConstAssumption DEF JobsFollowRequests
<1>4. JobsHaveInputs'
  BY ConstAssumption DEF JobsHaveInputs
<1>5. HeadersAreReal'
  BY ConstAssumption DEF HeadersAreReal
<1>6. ReadsAreOfHeader'
  BY ConstAssumption DEF ReadsAreOfHeader
<1> QED
  BY <1>1, <1>2, <1>3, <1>4, <1>5, <1>6

\* Classes and proofs arrive.
LEMMA FetchReturnsStep ==
    ASSUME Inv, NEW r \in Requests, FetchReturns(r)
    PROVE  Inv'
<1> USE DEF Inv, PipelineInv, TypeOK, FetchReturns, MovesOn, Goto, nodeVars, dataVars,
   Serving, Awaiting, JobRuns, JobFailed, ProofBlock
<1>1. TypeOK'
  BY ConstAssumption
<1>2. PermitsConserved'
  BY PermitKept DEF PcTyped
<1>3. JobsFollowRequests'
  BY ConstAssumption DEF JobsFollowRequests
<1>4. JobsHaveInputs'
  BY ConstAssumption DEF JobsHaveInputs
<1>5. HeadersAreReal'
  BY ConstAssumption DEF HeadersAreReal
<1>6. ReadsAreOfHeader'
  BY ConstAssumption DEF ReadsAreOfHeader
<1> QED
  BY <1>1, <1>2, <1>3, <1>4, <1>5, <1>6

\* The virtual OS accepts what was read.
LEMMA OsAcceptsStep ==
    ASSUME Inv, NEW r \in Requests, OsAccepts(r)
    PROVE  Inv'
<1> USE DEF Inv, PipelineInv, TypeOK, OsAccepts, MovesOn, Goto, nodeVars, dataVars,
   Serving, Awaiting, JobRuns, JobFailed
<1>a. job[r] = "executed" /\ header[r] # None /\ proofs[r] = header[r]
  BY DEF JobsFollowRequests, HeadersAreReal, ReadsAreOfHeader
<1>1. TypeOK'
  BY ConstAssumption
<1>2. PermitsConserved'
  BY PermitKept DEF PcTyped
<1>3. JobsFollowRequests'
  BY ConstAssumption DEF JobsFollowRequests
<1>4. JobsHaveInputs'
  BY ConstAssumption, <1>a DEF JobsHaveInputs
<1>5. HeadersAreReal'
  BY ConstAssumption, <1>a DEF HeadersAreReal
<1>6. ReadsAreOfHeader'
  BY ConstAssumption, <1>a DEF ReadsAreOfHeader
<1> QED
  BY <1>1, <1>2, <1>3, <1>4, <1>5, <1>6

\* A failed job is reported.
LEMMA JobErrorReturnsStep ==
    ASSUME Inv, NEW r \in Requests, JobErrorReturns(r)
    PROVE  Inv'
<1>a. PermitsConserved' /\ permits' \in 0..MaxConcurrent
  <2>1. PcTyped /\ permits \in Nat
    BY ConstAssumption DEF Inv, TypeOK, PcTyped
  <2>2. pc[r] \in Serving /\ "answered" \notin Serving /\ Goto(r, "answered") /\ GiveBack
    BY DEF JobErrorReturns, Answer, Serving, Awaiting
  <2> QED
    BY <2>1, <2>2, PermitGiven DEF Inv
<1>r. ReadsAreOfHeader'
  BY Codes, AnswersAreBacked DEF JobErrorReturns
<1> USE DEF Inv, PipelineInv, TypeOK, JobErrorReturns, Answer, Goto, nodeVars,
   dataVars, Serving, Awaiting, JobRuns, JobFailed
<1>1. TypeOK'
  BY ConstAssumption, Codes, <1>a
<1>2. PermitsConserved'
  BY <1>a
<1>3. JobsFollowRequests'
  BY ConstAssumption DEF JobsFollowRequests
<1>4. JobsHaveInputs'
  BY ConstAssumption DEF JobsHaveInputs
<1>5. HeadersAreReal'
  BY ConstAssumption DEF HeadersAreReal
<1>6. ReadsAreOfHeader'
  BY <1>r
<1> QED
  BY <1>1, <1>2, <1>3, <1>4, <1>5, <1>6

\* A class or a proof is missing.
LEMMA FetchFailsStep ==
    ASSUME Inv, NEW r \in Requests, FetchFails(r)
    PROVE  Inv'
<1>a. PermitsConserved' /\ permits' \in 0..MaxConcurrent
  <2>1. PcTyped /\ permits \in Nat
    BY ConstAssumption DEF Inv, TypeOK, PcTyped
  <2>2. pc[r] \in Serving /\ "answered" \notin Serving /\ Goto(r, "answered") /\ GiveBack
    BY DEF FetchFails, Answer, Serving, Awaiting
  <2> QED
    BY <2>1, <2>2, PermitGiven DEF Inv
<1>r. ReadsAreOfHeader'
  BY Codes, AnswersAreBacked DEF FetchFails
<1> USE DEF Inv, PipelineInv, TypeOK, FetchFails, Answer, Goto, nodeVars, dataVars,
   Serving, Awaiting, JobRuns, JobFailed
<1>1. TypeOK'
  BY ConstAssumption, Codes, <1>a
<1>2. PermitsConserved'
  BY <1>a
<1>3. JobsFollowRequests'
  BY ConstAssumption DEF JobsFollowRequests
<1>4. JobsHaveInputs'
  BY ConstAssumption DEF JobsHaveInputs
<1>5. HeadersAreReal'
  BY ConstAssumption DEF HeadersAreReal
<1>6. ReadsAreOfHeader'
  BY <1>r
<1> QED
  BY <1>1, <1>2, <1>3, <1>4, <1>5, <1>6

\* The virtual OS rejects its input.
LEMMA OsRejectsStep ==
    ASSUME Inv, NEW r \in Requests, OsRejects(r)
    PROVE  Inv'
<1>a. PermitsConserved' /\ permits' \in 0..MaxConcurrent
  <2>1. PcTyped /\ permits \in Nat
    BY ConstAssumption DEF Inv, TypeOK, PcTyped
  <2>2. pc[r] \in Serving /\ "answered" \notin Serving /\ Goto(r, "answered") /\ GiveBack
    BY DEF OsRejects, Answer, Serving, Awaiting
  <2> QED
    BY <2>1, <2>2, PermitGiven DEF Inv
<1>r. ReadsAreOfHeader'
  BY Codes, AnswersAreBacked DEF OsRejects
<1> USE DEF Inv, PipelineInv, TypeOK, OsRejects, Answer, Goto, nodeVars, dataVars,
   Serving, Awaiting, JobRuns, JobFailed
<1>1. TypeOK'
  BY ConstAssumption, Codes, <1>a
<1>2. PermitsConserved'
  BY <1>a
<1>3. JobsFollowRequests'
  BY ConstAssumption DEF JobsFollowRequests
<1>4. JobsHaveInputs'
  BY ConstAssumption DEF JobsHaveInputs
<1>5. HeadersAreReal'
  BY ConstAssumption DEF HeadersAreReal
<1>6. ReadsAreOfHeader'
  BY <1>r
<1> QED
  BY <1>1, <1>2, <1>3, <1>4, <1>5, <1>6

\* The proof goes to the client.
LEMMA ProofReturnsStep ==
    ASSUME Inv, NEW r \in Requests, ProofReturns(r)
    PROVE  Inv'
<1>a. PermitsConserved' /\ permits' \in 0..MaxConcurrent
  <2>1. PcTyped /\ permits \in Nat
    BY ConstAssumption DEF Inv, TypeOK, PcTyped
  <2>2. pc[r] \in Serving /\ "answered" \notin Serving /\ Goto(r, "answered") /\ GiveBack
    BY DEF ProofReturns, Answer, Serving, Awaiting
  <2> QED
    BY <2>1, <2>2, PermitGiven DEF Inv
<1>b. PICK code \in Answers : Answer(r, code)
  BY Codes DEF ProofReturns
<1>r. ReadsAreOfHeader'
  BY <1>b, AnswersAreBacked DEF ProofReturns
<1> USE DEF Inv, PipelineInv, TypeOK, ProofReturns, Answer, Goto, nodeVars, dataVars,
   Serving, Awaiting, JobRuns, JobFailed
<1>1. TypeOK'
  BY ConstAssumption, <1>a, <1>b
<1>2. PermitsConserved'
  BY <1>a
<1>3. JobsFollowRequests'
  BY ConstAssumption, <1>b DEF JobsFollowRequests
<1>4. JobsHaveInputs'
  BY ConstAssumption, <1>b DEF JobsHaveInputs
<1>5. HeadersAreReal'
  BY ConstAssumption, <1>b DEF HeadersAreReal
<1>6. ReadsAreOfHeader'
  BY <1>r
<1> QED
  BY <1>1, <1>2, <1>3, <1>4, <1>5, <1>6

\* A client hangs up.
LEMMA DisconnectStep ==
    ASSUME Inv, NEW r \in Requests, Disconnect(r)
    PROVE  Inv'
<1>a. PermitsConserved' /\ permits' \in 0..MaxConcurrent
  <2>1. PcTyped /\ permits \in Nat
    BY ConstAssumption DEF Inv, TypeOK, PcTyped
  <2>2. pc[r] \in Serving /\ "dropped" \notin Serving /\ Goto(r, "dropped") /\ GiveBack
    BY DEF Disconnect, Serving, Awaiting
  <2> QED
    BY <2>1, <2>2, PermitGiven DEF Inv
<1> USE DEF Inv, PipelineInv, TypeOK, Disconnect, Goto, nodeVars, dataVars, Serving,
   Awaiting, JobRuns, JobFailed
<1>1. TypeOK'
  BY ConstAssumption, <1>a
<1>2. PermitsConserved'
  BY <1>a
<1>3. JobsFollowRequests'
  BY ConstAssumption DEF JobsFollowRequests
<1>4. JobsHaveInputs'
  BY ConstAssumption DEF JobsHaveInputs
<1>5. HeadersAreReal'
  BY ConstAssumption DEF HeadersAreReal
<1>6. ReadsAreOfHeader'
  BY ConstAssumption, Codes DEF ReadsAreOfHeader
<1> QED
  BY <1>1, <1>2, <1>3, <1>4, <1>5, <1>6

\* A block is mined: older blocks keep their values.
LEMMA MineStep ==
    ASSUME Inv, Mine
    PROVE  Inv'
<1> USE DEF Inv, PipelineInv, TypeOK, Mine, Blocks, futureVars, dataVars
<1>a. \A r \in Requests : header[r] # None => header[r] \in 0..head /\ world'[header[r]] = world[header[r]]
  BY ConstAssumption DEF HeadersAreReal
<1>1. TypeOK'
  BY ConstAssumption
<1>2. PermitsConserved'
  BY PermitUntouched
<1>3. JobsFollowRequests'
  BY ConstAssumption DEF JobsFollowRequests
<1>4. JobsHaveInputs'
  BY ConstAssumption DEF JobsHaveInputs
<1>5. HeadersAreReal'
  BY ConstAssumption DEF HeadersAreReal
<1>6. ReadsAreOfHeader'
  BY ConstAssumption, <1>a DEF ReadsAreOfHeader
<1> QED
  BY <1>1, <1>2, <1>3, <1>4, <1>5, <1>6

\* Nothing happens.
LEMMA StutterStep ==
    ASSUME Inv, UNCHANGED vars
    PROVE  Inv'
<1> USE DEF Inv, PipelineInv, TypeOK, vars, nodeVars, futureVars, dataVars
<1>1. TypeOK'
  BY ConstAssumption
<1>2. PermitsConserved'
  BY PermitUntouched
<1>3. JobsFollowRequests'
  BY ConstAssumption DEF JobsFollowRequests
<1>4. JobsHaveInputs'
  BY ConstAssumption DEF JobsHaveInputs
<1>5. HeadersAreReal'
  BY ConstAssumption DEF HeadersAreReal
<1>6. ReadsAreOfHeader'
  BY ConstAssumption DEF ReadsAreOfHeader
<1> QED
  BY <1>1, <1>2, <1>3, <1>4, <1>5, <1>6

-----------------------------------------------------------------------------
(* The theorems *)

\* Every step of the service keeps the invariant.
LEMMA ServiceNext == Inv /\ [Next]_vars => Inv'
<1> SUFFICES ASSUME Inv, [Next]_vars PROVE Inv'
  OBVIOUS
<1>1. ASSUME NEW r \in Requests, Call(r) PROVE Inv'
  BY <1>1, BusyStep, RefuseStep, AdmitStep DEF Call
<1>2. ASSUME NEW r \in Requests, Job(r) PROVE Inv'
  BY <1>2, JobFetchesHeaderStep, JobPrefetchesStep, JobExecutesStep, JobProvesStep,
     JobFindsNoBlockStep, JobRevertsStep, JobBreaksStep DEF Job
<1>3. ASSUME NEW r \in Requests, Future(r) PROVE Inv'
  BY <1>3, ExecutionReturnsStep, JobErrorReturnsStep, FetchReturnsStep, FetchFailsStep,
     OsAcceptsStep, OsRejectsStep, ProofReturnsStep DEF Future
<1>4. ASSUME NEW r \in Requests, Disconnect(r) PROVE Inv'
  BY <1>4, DisconnectStep
<1>5. CASE Mine
  BY <1>5, MineStep
<1>6. CASE UNCHANGED vars
  BY <1>6, StutterStep
<1> QED
  BY <1>1, <1>2, <1>3, <1>4, <1>5, <1>6 DEF Next

\* Permits, the state of the futures and the progress of the jobs stay in
\* agreement in every behaviour.
THEOREM ServiceInvariant == Spec => []Inv
BY ServiceInit, ServiceNext, PTL DEF Spec

\* The state of the service keeps its types; in particular the semaphore
\* never holds more permits than max_concurrent_requests.
THEOREM ServiceTypeCorrect == Spec => []TypeOK
<1>1. Inv => TypeOK
  BY DEF Inv
<1> QED
  BY <1>1, ServiceInvariant, PTL

\* A permit is out exactly for each request being served, however requests
\* end: answered, refused, failed at any stage, or dropped by the client.
THEOREM PermitsAreConserved == Spec => []PermitsConserved
<1>1. Inv => PermitsConserved
  BY DEF Inv
<1> QED
  BY <1>1, ServiceInvariant, PTL

\* A proof that is handed out is of the block in its header, and was executed
\* on values of that block, although every call resolves "latest" anew.
THEOREM ProofsAreOfTheirBlock == Spec => []ProofIsOfItsBlock
<1>1. Inv => ProofIsOfItsBlock
  BY DEF Inv, PipelineInv, HeadersAreReal, ReadsAreOfHeader, ProofIsOfItsBlock
<1> QED
  BY <1>1, ServiceInvariant, PTL

-----------------------------------------------------------------------------
(* The semaphore implements Admission *)

\* Admission and the service count alike.
LEMMA SameCount == Gate!Cardinality(Holding) = Cardinality(Holding)
BY DEF Gate!Cardinality, Cardinality

\* A permit is free exactly when there is room inside.
LEMMA PermitsAreRoom ==
    ASSUME Inv
    PROVE  /\ HasPermit => Cardinality(Holding) < MaxConcurrent
           /\ ~HasPermit => Cardinality(Holding) = MaxConcurrent
<1>1. permits \in Nat /\ Cardinality(Holding) \in Nat /\ MaxConcurrent \in Nat
  BY HoldingFinite, ConstAssumption DEF Inv, TypeOK
<1> QED
  BY <1>1 DEF Inv, PermitsConserved, HasPermit

\* A request that is answered as it arrives goes straight to Gone.
LEMMA PassesBy ==
    ASSUME PcTyped, NEW r \in Requests, pc[r] = "idle", Goto(r, "answered")
    PROVE  Gate!Fresh(r) /\ Holding' = Holding /\ Gone' = Gone \cup {r}
BY DEF PcTyped, Goto, Holding, Gone, Gate!Fresh, Serving, Awaiting

\* A request that is admitted goes inside.
LEMMA GoesInside ==
    ASSUME PcTyped, NEW r \in Requests, pc[r] = "idle", Goto(r, "executing")
    PROVE  Gate!Fresh(r) /\ Holding' = Holding \cup {r} /\ Gone' = Gone
BY DEF PcTyped, Goto, Holding, Gone, Gate!Fresh, Serving, Awaiting

\* A request that is answered or dropped while it is served leaves.
LEMMA GoesOut ==
    ASSUME PcTyped, NEW r \in Requests, pc[r] \in Serving,
           NEW to \in {"answered", "dropped"}, Goto(r, to)
    PROVE  Gate!Leave(r)
BY DEF PcTyped, Goto, Holding, Gone, Gate!Leave, Serving, Awaiting

\* A request that moves on while it is served stays inside.
LEMMA StaysInside ==
    ASSUME PcTyped, NEW r \in Requests, pc[r] \in Serving,
           NEW to \in Serving, Goto(r, to)
    PROVE  UNCHANGED <<Holding, Gone>>
BY DEF PcTyped, Goto, Holding, Gone, Serving, Awaiting

\* Jobs and the chain are invisible at the gate.
LEMMA Invisible ==
    ASSUME UNCHANGED pc
    PROVE  UNCHANGED <<Holding, Gone>>
BY DEF Holding, Gone

\* Every step of the service is a step of Admission, or none.
LEMMA GateStep == Inv /\ [Next]_vars => [Gate!Next]_<<Holding, Gone>>
<1> SUFFICES ASSUME Inv, [Next]_vars PROVE [Gate!Next]_<<Holding, Gone>>
  OBVIOUS
<1>0. PcTyped
  BY DEF Inv, TypeOK, PcTyped
<1>1. ASSUME NEW r \in Requests, Call(r) PROVE Gate!Next
  <2>1. PICK id \in Ids, t \in Txs : Busy(r, id, t) \/ Refuse(r, id, t) \/ Admit(r, id, t)
    BY <1>1 DEF Call
  <2>2. CASE Busy(r, id, t)
    <3>1. pc[r] = "idle" /\ Goto(r, "answered") /\ ~HasPermit
      BY <2>2 DEF Busy, Arrives
    <3>2. Gate!TurnAway(r)
      BY <1>0, <3>1, PassesBy, PermitsAreRoom, SameCount DEF Gate!TurnAway
    <3> QED
      BY <3>2 DEF Gate!Next
  <2>3. CASE Refuse(r, id, t)
    <3>1. pc[r] = "idle" /\ Goto(r, "answered") /\ HasPermit
      BY <2>3 DEF Refuse, Arrives
    <3>2. Gate!Bounce(r)
      BY <1>0, <3>1, PassesBy, PermitsAreRoom, SameCount DEF Gate!Bounce
    <3> QED
      BY <3>2 DEF Gate!Next
  <2>4. CASE Admit(r, id, t)
    <3>1. pc[r] = "idle" /\ Goto(r, "executing") /\ HasPermit
      BY <2>4 DEF Admit, Arrives
    <3>2. Gate!Enter(r)
      BY <1>0, <3>1, GoesInside, PermitsAreRoom, SameCount DEF Gate!Enter
    <3> QED
      BY <3>2 DEF Gate!Next
  <2> QED
    BY <2>1, <2>2, <2>3, <2>4
<1>2. ASSUME NEW r \in Requests, Job(r) PROVE UNCHANGED <<Holding, Gone>>
  <2>1. UNCHANGED pc
    BY <1>2 DEF Job, JobFetchesHeader, JobPrefetches, JobExecutes, JobProves,
       JobFindsNoBlock, JobReverts, JobBreaks, JobStep, futureVars
  <2> QED
    BY <2>1, Invisible
<1>3. ASSUME NEW r \in Requests, ExecutionReturns(r) \/ FetchReturns(r) \/ OsAccepts(r)
      PROVE  UNCHANGED <<Holding, Gone>>
  <2>1. pc[r] \in Serving /\ \E to \in Serving : Goto(r, to)
    BY <1>3 DEF ExecutionReturns, FetchReturns, OsAccepts, MovesOn, Serving, Awaiting
  <2> QED
    BY <1>0, <2>1, StaysInside
<1>4. ASSUME NEW r \in Requests,
             \/ JobErrorReturns(r) \/ FetchFails(r) \/ OsRejects(r) \/ ProofReturns(r)
             \/ Disconnect(r)
      PROVE  Gate!Next
  <2>1. pc[r] \in Serving /\ \E to \in {"answered", "dropped"} : Goto(r, to)
    BY <1>4 DEF JobErrorReturns, FetchFails, OsRejects, ProofReturns, Disconnect, Answer,
       Serving, Awaiting
  <2>2. Gate!Leave(r)
    BY <1>0, <2>1, GoesOut
  <2> QED
    BY <2>2 DEF Gate!Next
<1>5. CASE Mine \/ UNCHANGED vars
  <2>1. UNCHANGED pc
    BY <1>5 DEF Mine, vars, futureVars
  <2> QED
    BY <2>1, Invisible
<1> QED
  BY <1>1, <1>2, <1>3, <1>4, <1>5 DEF Next, Future

\* The semaphore of the service implements the admission rule: never more
\* than max_concurrent_requests inside, a call is turned away only when the
\* service is full, and every request that leaves makes room.
THEOREM ServiceImplementsAdmission == Spec => ImplementsAdmission
<1>1. Init => Gate!Init
  BY DEF Init, Gate!Init, Holding, Gone, Serving, Awaiting
<1>2. ImplementsAdmission <=> Gate!Init /\ [][Gate!Next]_<<Holding, Gone>>
  BY DEF ImplementsAdmission, Gate!Spec
<1> QED
  BY <1>1, <1>2, GateStep, ServiceInvariant, PTL DEF Spec
=============================================================================
