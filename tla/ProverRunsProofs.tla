-------------------------- MODULE ProverRunsProofs --------------------------
(***************************************************************************)
(* Proofs about ProverRuns, for any number of prove requests, artifact     *)
(* calls and environments, and for every size of pipes and channels: no    *)
(* runner is left behind, a client is told what fits its run and session   *)
(* and nothing after it, a runner obeys the flags of its caller and its list   *)
(* of origins is normal.                                                   *)
(***************************************************************************)
EXTENDS ProverRunsInvariant, Iteration, TLAPS

\* What is proved together.
Inv == TypeOK /\ RunsInv

\* The bound on tries covers both things it counts.
LEMMA TriesBound ==
    MaxCount \in Nat /\ MaxTries <= MaxCount /\ PipeSize + 1 <= MaxCount
<1> DEFINE S == {MaxTries, PipeSize + 1}
<1>1. \E x \in S : \A y \in S : x >= y
  BY RunsAssumption
<1>2. Max(S) \in S /\ \A y \in S : Max(S) >= y
  BY <1>1 DEF Max
<1> QED
  BY <1>2, RunsAssumption DEF MaxCount

\* Nothing runs at the start.
LEMMA RunsInit == Init => Inv
<1> SUFFICES ASSUME Init PROVE Inv
  OBVIOUS
<1>1. TypeOK
  BY TriesBound, RunsAssumption DEF Init, TypeOK, CallTypes, StreamTypes, Outcomes, CallEnded, Alive
<1>2. ConfiguredByCaller /\ DOMAIN chan = Scripts
  BY DEF Init, ConfiguredByCaller
<1>3. ASSUME NEW c \in Callers PROVE CallInv(c)
  BY RunsAssumption DEF Init, CallInv, ScriptPcs, ArtifactPcs, Alive, Callers
<1>4. ASSUME NEW s \in Scripts PROVE TaskInv(s) /\ EventInv(s)
  <2>1. s \in Callers
    BY DEF Callers
  <2>2. TaskInv(s)
    BY <2>1 DEF Init, TaskInv, Quiet, Alive, Outcomes
  <2>3. EventInv(s)
    BY DEF Init, EventInv, Outcomes
  <2> QED
    BY <2>2, <2>3
<1> QED
  BY <1>1, <1>2, <1>3, <1>4 DEF Inv, RunsInv

-----------------------------------------------------------------------------
(* Steps of runners, scripts and calls *)

\* What a step of caller c or of its runner may touch: its own place, its
\* runner, its pipes and its files.
Touches(c) ==
    /\ CallTypes'
    /\ config' \in [Callers -> {None} \cup {ConfigOf(d, e) : d \in Callers, e \in Envs}]
    /\ \A d \in Callers : d # c =>
           /\ pc'[d] = pc[d] /\ tries'[d] = tries[d] /\ runner'[d] = runner[d]
           /\ config'[d] = config[d] /\ work'[d] = work[d] /\ pipe'[d] = pipe[d]
    /\ \A s \in Scripts : s # c => files'[s] = files[s]
    /\ UNCHANGED streamVars

\* The runner of c is up exactly when it has a configuration, which is made
\* from the flags of c.
Configured(c) ==
    /\ runner'[c] = "up" <=> config'[c] # None
    /\ \/ config'[c] \in {None, config[c]}
       \/ \E e \in Envs : ConfigOf(c, e).ok /\ config'[c] = ConfigOf(c, e)

\* The server's task is reading while its script is at work.
LEMMA WorkingScript ==
    ASSUME Inv, NEW s \in Scripts, pc[s] \notin {"idle", "exited"}
    PROVE  task[s] = "reading" /\ s \in Callers
BY DEF Inv, TypeOK, StreamTypes, RunsInv, TaskInv, Quiet, Callers, Outcomes

\* A step that touches no more, of a caller at work, keeps the invariant.
LEMMA CallerKeeps ==
    ASSUME Inv, NEW c \in Callers, c \in Scripts => pc[c] \notin {"idle", "exited"},
           Touches(c), Configured(c), CallInv(c)', pc'[c] # "idle"
    PROVE  Inv'
<1>1. TypeOK'
  <2>1. ASSUME NEW d \in Callers PROVE runner'[d] = "up" <=> config'[d] # None
    <3>1. runner[d] = "up" <=> config[d] # None
      BY DEF Inv, TypeOK
    <3>2. d # c => runner'[d] = runner[d] /\ config'[d] = config[d]
      BY DEF Touches
    <3> QED
      BY <3>1, <3>2 DEF Configured
  <2>2. StreamTypes'
    BY DEF Inv, TypeOK, StreamTypes, Touches, streamVars
  <2> QED
    BY <2>1, <2>2 DEF TypeOK, Touches
<1>2. ConfiguredByCaller'
  <2>1. ASSUME NEW d \in Callers, config'[d] # None
        PROVE  \E e \in Envs : ConfigOf(d, e).ok /\ config'[d] = ConfigOf(d, e)
    BY <2>1 DEF Inv, RunsInv, ConfiguredByCaller, Touches, Configured
  <2> QED
    BY <2>1 DEF ConfiguredByCaller, Touches
<1>3. DOMAIN chan' = Scripts
  BY DEF Inv, RunsInv, Touches, streamVars
<1>4. ASSUME NEW d \in Callers, d # c PROVE CallInv(d)'
  BY <1>4 DEF Inv, RunsInv, CallInv, MayHaveRunner, Touches
<1>5. ASSUME NEW s \in Scripts PROVE TaskInv(s)' /\ EventInv(s)'
  <2>1. TaskInv(s) /\ EventInv(s) /\ s \in Callers /\ UNCHANGED streamVars
    BY DEF Inv, RunsInv, Callers, Touches
  <2>2. CASE s = c
    <3>1. task[s] = "reading"
      BY <2>2, WorkingScript
    <3>2. TaskInv(s)'
      BY <2>1, <2>2, <3>1 DEF TaskInv, Outcomes, streamVars
    <3>3. EventInv(s)'
      BY <2>1, <3>1 DEF EventInv, streamVars
    <3> QED
      BY <3>2, <3>3
  <2>3. CASE s # c
    <3>1. /\ pc'[s] = pc[s] /\ runner'[s] = runner[s] /\ pipe'[s] = pipe[s]
          /\ files'[s] = files[s]
      BY <2>1, <2>3 DEF Touches
    <3>2. TaskInv(s)'
      BY <2>1, <3>1 DEF TaskInv, Fits, Quiet, streamVars
    <3>3. EventInv(s)'
      BY <2>1, <3>1 DEF EventInv, Fits, streamVars
    <3> QED
      BY <3>2, <3>3
  <2> QED
    BY <2>2, <2>3
<1> QED
  BY <1>1, <1>2, <1>3, <1>4, <1>5 DEF Inv, RunsInv

\* What the invariant says of one caller.
LEMMA CallerFacts ==
    ASSUME Inv, NEW c \in Callers
    PROVE  /\ CallInv(c) /\ (runner[c] = "up" <=> config[c] # None)
           /\ config \in [Callers -> {None} \cup {ConfigOf(d, e) : d \in Callers, e \in Envs}]
           /\ (c \in Scripts \/ c \in Artifacts) /\ (c \in Artifacts => c \notin Scripts)
BY RunsAssumption DEF Inv, TypeOK, RunsInv, ConfiguredByCaller, Callers

\* Each variable of a caller has its type.
LEMMA CallerTypes ==
    ASSUME Inv
    PROVE  /\ pc \in [Callers -> {"idle", "fetch", "build", "launch", "probe", "ask", "wait",
                           "save", "facts", "cleanup", "exited"} \cup CallEnded]
           /\ tries \in [Callers -> 0..MaxCount]
           /\ runner \in [Callers -> {"none", "dead"} \cup Alive]
           /\ port \in Callers \cup {None}
           /\ work \in [Callers -> Callers \cup {None}]
           /\ reply \in [Callers -> {"none", "started", "result", "error"}]
           /\ pipe \in [Callers -> [{"out", "err"} -> 0..PipeSize]]
           /\ files \in [Scripts -> SUBSET {"proof", "facts"}]
BY DEF Inv, TypeOK, CallTypes

\* A line that is written fits into its pipe.
LEMMA WriteFits ==
    ASSUME Inv, NEW c \in Callers, NEW p \in {"out", "err"}, WriteLine(c, p)
    PROVE  /\ pipe' \in [Callers -> [{"out", "err"} -> 0..PipeSize]]
           /\ \A d \in Callers : d # c => pipe'[d] = pipe[d]
<1>1. pipe[c][p] \in 0..PipeSize /\ pipe[c] \in [{"out", "err"} -> 0..PipeSize]
  BY CallerTypes
<1>2. CASE pipe' = pipe
  BY <1>2, CallerTypes
<1>3. CASE pipe[c][p] < PipeSize /\ pipe' = [pipe EXCEPT ![c][p] = @ + 1]
  <2>1. pipe[c][p] + 1 \in 0..PipeSize
    BY <1>1, <1>3, RunsAssumption
  <2>2. [pipe[c] EXCEPT ![p] = pipe[c][p] + 1] \in [{"out", "err"} -> 0..PipeSize]
    BY <1>1, <2>1
  <2> QED
    BY <1>3, <2>2, CallerTypes
<1> QED
  BY <1>2, <1>3 DEF WriteLine, CanWrite

\* A script echoes into its own pipe.
LEMMA EchoFits ==
    ASSUME Inv, NEW c \in Callers, Echo(c)
    PROVE  /\ pipe' \in [Callers -> [{"out", "err"} -> 0..PipeSize]]
           /\ \A d \in Callers : d # c => pipe'[d] = pipe[d]
BY WriteFits, CallerTypes DEF Echo

\* A runner that lives belongs to a caller at work, if that is a script.
LEMMA RunnerOwner ==
    ASSUME Inv, NEW c \in Callers, runner[c] \in Alive
    PROVE  (c \in Scripts => pc[c] \notin {"idle", "exited"}) /\ pc[c] # "idle"
BY CallerFacts DEF CallInv, MayHaveRunner

\* A killed runner takes its configuration and its port with it.
LEMMA DeadFacts ==
    ASSUME Inv, NEW c \in Callers, Dead(c)
    PROVE  /\ runner' \in [Callers -> {"none", "dead"} \cup Alive]
           /\ runner'[c] \notin Alive
           /\ config' \in [Callers -> {None} \cup {ConfigOf(d, e) : d \in Callers, e \in Envs}]
           /\ config'[c] = None
           /\ port' \in Callers \cup {None}
           /\ \A d \in Callers : d # c => runner'[d] = runner[d] /\ config'[d] = config[d]
           /\ Configured(c)
BY CallerFacts, CallerTypes DEF Dead, Alive, Configured

\* The runner binds its port, gives up or crashes.
LEMMA RunnerKeeps ==
    ASSUME Inv, NEW c \in Callers, RunnerBinds(c) \/ RunnerGivesUp(c) \/ RunnerCrashes(c)
    PROVE  Inv'
<1>1. runner[c] \in Alive /\ UNCHANGED <<callVars, pipe, streamVars, files>>
  BY DEF RunnerBinds, RunnerGivesUp, RunnerCrashes, Alive
<1>2. ASSUME runner' \in [Callers -> {"none", "dead"} \cup Alive],
             config' \in [Callers -> {None} \cup {ConfigOf(d, e) : d \in Callers, e \in Envs}],
             port' \in Callers \cup {None},
             \A d \in Callers : d # c => runner'[d] = runner[d] /\ config'[d] = config[d],
             Configured(c)
      PROVE  Inv'
  <2>1. Touches(c)
    BY <1>1, <1>2, CallerTypes DEF Touches, CallTypes, callVars
  <2>2. CallInv(c)'
    BY <1>1, CallerFacts DEF CallInv, MayHaveRunner, callVars
  <2>3. pc'[c] # "idle"
    BY <1>1, RunnerOwner DEF callVars
  <2> QED
    BY <1>1, <1>2, <2>1, <2>2, <2>3, RunnerOwner, CallerKeeps
<1>3. CASE RunnerBinds(c)
  <2>1. PICK e \in Envs : ConfigOf(c, e).ok /\ config' = [config EXCEPT ![c] = ConfigOf(c, e)]
    BY <1>3 DEF RunnerBinds
  <2>2. ConfigOf(c, e) # None
    BY FlagsAssumption
  <2>3. runner' = [runner EXCEPT ![c] = "up"] /\ port' = c
    BY <1>3 DEF RunnerBinds
  <2>4. Configured(c)
    BY <2>1, <2>2, <2>3, CallerFacts, CallerTypes DEF Configured
  <2> QED
    BY <1>2, <2>1, <2>3, <2>4, CallerFacts, CallerTypes DEF Alive
<1>4. CASE RunnerGivesUp(c)
  <2>1. runner[c] = "starting" /\ runner' = [runner EXCEPT ![c] = "dead"]
        /\ config' = config /\ port' = port
    BY <1>4 DEF RunnerGivesUp
  <2>2. Configured(c)
    BY <2>1, CallerFacts, CallerTypes DEF Configured
  <2> QED
    BY <1>2, <2>1, <2>2, CallerFacts, CallerTypes
<1>5. CASE RunnerCrashes(c)
  BY <1>2, <1>5, DeadFacts DEF RunnerCrashes
<1> QED
  BY <1>3, <1>4, <1>5

\* A runner logs a line for each thing it does with a request.
LEMMA ServeKeeps ==
    ASSUME Inv, NEW c \in Callers, RunnerServes(c)
    PROVE  Inv'
<1>1. PICK to \in {"started", "result", "error"} :
          /\ pc[c] = "wait" /\ runner[work[c]] = "up" /\ WriteLine(work[c], "out")
          /\ reply' = [reply EXCEPT ![c] = to]
          /\ UNCHANGED <<runnerVars, pc, tries, work, streamVars, files>>
  BY DEF RunnerServes, Serve
<1>2. PICK d \in Callers : d = work[c]
  BY <1>1, CallerFacts DEF CallInv
<1>3. runner[d] \in Alive
  BY <1>1, <1>2 DEF Alive
<1>4. /\ pipe' \in [Callers -> [{"out", "err"} -> 0..PipeSize]]
      /\ \A q \in Callers : q # d => pipe'[q] = pipe[q]
  BY <1>1, <1>2, WriteFits
<1>5. Touches(d)
  BY <1>1, <1>4, CallerTypes, CallerFacts DEF Touches, CallTypes, runnerVars
<1>6. Configured(d) /\ CallInv(d)' /\ pc'[d] # "idle"
  BY <1>1, <1>3, CallerFacts, RunnerOwner DEF Configured, CallInv, MayHaveRunner, runnerVars
<1> QED
  BY <1>3, <1>5, <1>6, RunnerOwner, CallerKeeps

\* A caller at work goes on, and its runner is left alone.
LEMMA CallMoves ==
    ASSUME Inv, NEW c \in Callers, pc[c] \notin {"idle", "exited"} \cup CallEnded,
           NEW to, pc' = [pc EXCEPT ![c] = to], to # "idle", to # "fetch",
           c \in Scripts => to \in ScriptPcs, c \in Artifacts => to \in ArtifactPcs,
           tries' \in [Callers -> 0..MaxCount],
           \A d \in Callers : d # c => tries'[d] = tries[d],
           to = "build" => tries'[c] <= PipeSize, to = "probe" => tries'[c] < MaxTries,
           work' \in [Callers -> Callers \cup {None}],
           \A d \in Callers : d # c => work'[d] = work[d],
           to = "wait" => work'[c] \in Callers,
           pipe' \in [Callers -> [{"out", "err"} -> 0..PipeSize]],
           \A d \in Callers : d # c => pipe'[d] = pipe[d],
           files' \in [Scripts -> SUBSET {"proof", "facts"}],
           \A s \in Scripts : s # c => files'[s] = files[s],
           UNCHANGED <<runnerVars, reply, streamVars>>,
           runner[c] \in Alive =>
               \/ to \in {"probe", "ask", "wait", "save", "facts", "cleanup"}
               \/ c \in Artifacts /\ to = "failed"
    PROVE  Inv'
<1>1. /\ pc' \in [Callers -> {"idle", "fetch", "build", "launch", "probe", "ask", "wait",
                           "save", "facts", "cleanup", "exited"} \cup CallEnded]
      /\ pc'[c] = to /\ \A d \in Callers : d # c => pc'[d] = pc[d]
  BY CallerTypes, CallerFacts DEF ScriptPcs, ArtifactPcs
<1>2. Touches(c)
  BY <1>1, CallerTypes, CallerFacts DEF Touches, CallTypes, runnerVars
<1>3. Configured(c)
  BY CallerFacts DEF Configured, runnerVars
<1>4. CallInv(c)'
  BY <1>1 DEF CallInv, MayHaveRunner, runnerVars
<1> QED
  BY <1>1, <1>2, <1>3, <1>4, CallerKeeps

\* Readiness and the request, for scripts and artifacts alike.
LEMMA RequestKeeps ==
    ASSUME Inv, NEW c \in Callers, Request(c)
    PROVE  Inv'
<1>1. pc[c] \in {"probe", "ask", "wait"} /\ UNCHANGED <<runnerVars, reply, streamVars, files>>
  BY DEF Request, ProbeSucceeds, ProbeFails, Ask, RequestFails
<1>2. pc[c] \notin {"idle", "exited"} \cup CallEnded
  BY <1>1 DEF CallEnded
<1>3. /\ {"probe", "ask", "wait"} \subseteq ScriptPcs \cap ArtifactPcs
      /\ "cleanup" \in ScriptPcs /\ "failed" \in ArtifactPcs
  BY DEF ScriptPcs, ArtifactPcs, CallEnded
<1> USE <1>1, <1>2, <1>3, CallerTypes, CallerFacts, CallMoves
<1>4. CASE ProbeSucceeds(c)
  BY <1>4, EchoFits DEF ProbeSucceeds, Goto
<1>5. ASSUME GiveUp(c), UNCHANGED work,
             tries' \in [Callers -> 0..MaxCount],
             \A d \in Callers : d # c => tries'[d] = tries[d],
             pipe' \in [Callers -> [{"out", "err"} -> 0..PipeSize]],
             \A d \in Callers : d # c => pipe'[d] = pipe[d]
      PROVE  Inv'
  <2>1. CASE c \in Scripts
    <3>1. pc' = [pc EXCEPT ![c] = "cleanup"] /\ c \notin Artifacts
      BY <1>5, <2>1 DEF GiveUp, Goto
    <3> QED
      BY <1>5, <2>1, <3>1
  <2>2. CASE c \notin Scripts
    <3>1. pc' = [pc EXCEPT ![c] = "failed"] /\ c \in Artifacts
      BY <1>5, <2>2 DEF GiveUp, Goto
    <3> QED
      BY <1>5, <2>2, <3>1
  <2> QED
    BY <2>1, <2>2
<1>6. CASE ProbeFails(c) /\ runner[c] = "dead"
  BY <1>5, <1>6, EchoFits DEF ProbeFails
<1>7. CASE ProbeFails(c) /\ runner[c] # "dead"
  <2>1. /\ pc[c] = "probe" /\ tries[c] < MaxTries /\ tries[c] \in Nat
        /\ tries' = [tries EXCEPT ![c] = tries[c] + 1] /\ work' = work
    BY <1>7 DEF ProbeFails, CallInv
  <2>2. tries'[c] = tries[c] + 1 /\ tries[c] + 1 <= MaxTries /\ tries[c] + 1 \in 0..MaxCount
    BY <2>1, TriesBound, RunsAssumption
  <2>3. tries' \in [Callers -> 0..MaxCount] /\ \A d \in Callers : d # c => tries'[d] = tries[d]
    BY <2>1, <2>2
  <2>4. CASE tries[c] + 1 = MaxTries
    <3>1. pc' = [pc EXCEPT ![c] = "ask"] /\ Echo(c)
      BY <1>7, <2>4 DEF ProbeFails, Goto
    <3> QED
      BY <2>1, <2>3, <3>1, EchoFits
  <2>5. CASE tries[c] + 1 # MaxTries
    <3>1. pc' = pc /\ pipe' = pipe
      BY <1>7, <2>5 DEF ProbeFails
    <3>2. pc' = [pc EXCEPT ![c] = "probe"]
      BY <2>1, <3>1
    <3>3. tries'[c] < MaxTries
      BY <2>2, <2>5, RunsAssumption
    <3> QED
      BY <2>1, <2>3, <3>1, <3>2, <3>3
  <2> QED
    BY <2>4, <2>5
<1> HIDE CallMoves
<1>11. ASSUME Ask(c)
       PROVE  /\ tries' \in [Callers -> 0..MaxCount] /\ pipe' = pipe
              /\ \A d \in Callers : d # c => tries'[d] = tries[d]
  <2>1. tries' = [tries EXCEPT ![c] = 0] /\ 0 \in 0..MaxCount
    BY <1>11, TriesBound, RunsAssumption DEF Ask
  <2> QED
    BY <1>11, <2>1 DEF Ask
<1> USE CallMoves
<1>8. CASE Ask(c) /\ Reachable
  <2>1. port \in Callers /\ work' = [work EXCEPT ![c] = port] /\ pc' = [pc EXCEPT ![c] = "wait"]
    BY <1>8 DEF Ask, Reachable, Goto
  <2> QED
    BY <1>8, <1>11, <2>1
<1>9. CASE Ask(c) /\ ~Reachable
  BY <1>5, <1>9, <1>11 DEF Ask
<1>10. CASE RequestFails(c)
  BY <1>5, <1>10 DEF RequestFails
<1> QED
  BY <1>4, <1>6, <1>7, <1>8, <1>9, <1>10 DEF Request

\* An artifact call starts a runner, or fails before it does.
LEMMA ArtifactStartKeeps ==
    ASSUME Inv, NEW a \in Artifacts, ArtifactStarts(a)
    PROVE  Inv'
<1>1. a \in Callers /\ a \notin Scripts
  BY CallerFacts DEF Callers
<1>2. PICK to \in {"failed", "probe"} :
          /\ pc[a] = "idle" /\ pc' = [pc EXCEPT ![a] = to]
          /\ runner' = IF to = "failed" THEN runner ELSE [runner EXCEPT ![a] = "starting"]
          /\ UNCHANGED <<config, port, tries, work, reply, pipe, streamVars, files>>
  BY DEF ArtifactStarts, Goto
<1>3. /\ tries[a] = 0 /\ 0 < MaxTries /\ runner[a] \notin Alive /\ config[a] = None
      /\ runner'[a] \in {runner[a], "starting"}
  BY <1>1, <1>2, CallerFacts, CallerTypes, RunsAssumption DEF CallInv, MayHaveRunner, Alive
<1>4. Touches(a)
  BY <1>1, <1>2, CallerTypes, CallerFacts DEF Touches, CallTypes, CallEnded, Alive
<1>5. Configured(a)
  BY <1>1, <1>2, <1>3, CallerFacts, CallerTypes DEF Configured, Alive
<1>6. pc'[a] = to
  BY <1>1, <1>2, CallerTypes
<1>7. CallInv(a)'
  BY <1>1, <1>2, <1>3, <1>6 DEF CallInv, MayHaveRunner, ArtifactPcs, CallEnded
<1> QED
  BY <1>1, <1>4, <1>5, <1>6, <1>7, CallerKeeps

\* A caller that kills its runner and is done.
LEMMA KillKeeps ==
    ASSUME Inv, NEW c \in Callers, pc[c] \notin {"idle", "exited"}, Dead(c),
           NEW to, pc' = [pc EXCEPT ![c] = to],
           c \in Scripts => to = "exited", c \in Artifacts => to \in {"done", "refused"},
           UNCHANGED <<tries, work, reply, pipe, streamVars, files>>
    PROVE  Inv'
<1>1. to \in {"exited"} \cup CallEnded /\ to # "idle" /\ pc'[c] = to
  BY CallerFacts, CallerTypes DEF CallEnded
<1>2. Touches(c)
  BY <1>1, CallerTypes, CallerFacts, DeadFacts DEF Touches, CallTypes
<1>3. CallInv(c)'
  BY <1>1, CallerFacts, DeadFacts DEF CallInv, MayHaveRunner, ArtifactPcs, ScriptPcs, CallEnded
<1> QED
  BY <1>1, <1>2, <1>3, DeadFacts, CallerKeeps

\* The artifact's call, from its start to the kill.
LEMMA ArtifactKeeps ==
    ASSUME Inv, NEW a \in Artifacts, ArtifactStarts(a) \/ Artifact(a)
    PROVE  Inv'
<1>1. a \in Callers /\ a \notin Scripts
  BY CallerFacts DEF Callers
<1>2. CASE ArtifactAnswered(a)
  <2>1. PICK end \in bundle_from_response(reply[a]) : pc' = [pc EXCEPT ![a] = end]
    BY <1>2 DEF ArtifactAnswered, Goto
  <2>2. end \in {"done", "refused"}
    BY <2>1 DEF bundle_from_response
  <2> QED
    BY <1>1, <1>2, <2>1, <2>2, KillKeeps DEF ArtifactAnswered
<1> QED
  BY <1>1, <1>2, ArtifactStartKeeps, RequestKeeps DEF Artifact

\* The script's own steps: fetch, build, launch, save, clean up.
LEMMA ScriptKeeps ==
    ASSUME Inv, NEW s \in Scripts, Script(s)
    PROVE  Inv'
<1>1. s \in Callers /\ s \notin Artifacts
  BY CallerFacts, RunsAssumption DEF Callers
<1>2. {"fetch", "build", "launch", "probe", "ask", "wait", "save", "facts", "cleanup", "exited"}
          \subseteq ScriptPcs
  BY DEF ScriptPcs
<1>3. pc[s] \in {"fetch", "build", "launch", "probe", "ask", "wait", "save", "facts", "cleanup"}
      /\ pc[s] \notin {"idle", "exited"} \cup CallEnded
  BY DEF Script, ScriptStops, ScriptFetches, ScriptBuilds, ScriptLaunches, ScriptAnswered,
     ScriptSaves, ScriptCleansUp, Request, ProbeSucceeds, ProbeFails, Ask, RequestFails, CallEnded
<1>4. pc[s] \in {"fetch", "build", "launch"} => runner[s] \notin Alive
  BY <1>1, CallerFacts DEF CallInv, MayHaveRunner
<1>5. CASE ScriptStops(s) \/ ScriptFetches(s)
  <2>1. PICK to \in {"exited", "build", "launch"} : pc' = [pc EXCEPT ![s] = to]
    BY <1>5 DEF ScriptStops, ScriptFetches, Goto
  <2>2. pc[s] = "fetch" /\ Echo(s) /\ UNCHANGED <<runnerVars, tries, work, reply, streamVars, files>>
    BY <1>5 DEF ScriptStops, ScriptFetches
  <2>3. tries[s] = 0 /\ 0 <= PipeSize
    BY <1>1, <2>2, CallerFacts, RunsAssumption DEF CallInv
  <2> QED
    BY <1>1, <1>2, <1>3, <1>4, <2>1, <2>2, <2>3, EchoFits, CallerTypes, CallMoves
<1>6. CASE ScriptBuilds(s)
  <2>1. /\ pc[s] = "build" /\ WriteLine(s, "err") /\ tries' = [tries EXCEPT ![s] = tries[s] + 1]
        /\ UNCHANGED <<runnerVars, work, reply, streamVars, files>>
    BY <1>6 DEF ScriptBuilds
  <2>2. tries[s] \in Nat /\ tries[s] <= PipeSize
    BY <1>1, <2>1, CallerFacts, CallerTypes DEF CallInv
  <2>3. tries[s] + 1 \in 0..MaxCount /\ tries'[s] = tries[s] + 1
    BY <1>1, <2>1, <2>2, TriesBound, CallerTypes, RunsAssumption
  <2>4. tries' \in [Callers -> 0..MaxCount] /\ \A d \in Callers : d # s => tries'[d] = tries[d]
    BY <1>1, <2>1, <2>3, CallerTypes
  <2>5. PICK to \in {"launch", "build", "exited"} :
            pc' = [pc EXCEPT ![s] = to] /\ (to = "build" => tries[s] # PipeSize)
    BY <1>6 DEF ScriptBuilds, Goto
  <2>6. to = "build" => tries'[s] <= PipeSize
    BY <2>2, <2>3, <2>5, RunsAssumption
  <2> QED
    BY <1>1, <1>2, <1>3, <1>4, <2>1, <2>4, <2>5, <2>6, WriteFits, CallerTypes, CallMoves, ZenonT(40)
<1>7. CASE ScriptLaunches(s)
  <2>1. /\ pc[s] = "launch" /\ runner' = [runner EXCEPT ![s] = "starting"]
        /\ tries' = [tries EXCEPT ![s] = 0] /\ pc' = [pc EXCEPT ![s] = "probe"] /\ Echo(s)
        /\ UNCHANGED <<config, port, work, reply, streamVars, files>>
    BY <1>7 DEF ScriptLaunches, Goto
  <2>2. 0 \in 0..MaxCount /\ 0 < MaxTries
    BY TriesBound, RunsAssumption
  <2>3. Touches(s)
    BY <1>1, <2>1, <2>2, CallerTypes, CallerFacts, EchoFits DEF Touches, CallTypes, Alive
  <2>4. runner[s] # "up" /\ config[s] = None
    BY <1>1, <1>4, <2>1, CallerFacts DEF Alive
  <2>5. Configured(s)
    BY <1>1, <2>1, <2>4, CallerTypes DEF Configured
  <2>6. pc'[s] = "probe" /\ tries'[s] = 0
    BY <1>1, <2>1, CallerTypes
  <2>7. CallInv(s)'
    BY <1>1, <1>2, <2>2, <2>6 DEF CallInv, MayHaveRunner
  <2> QED
    BY <1>1, <1>3, <2>3, <2>5, <2>6, <2>7, CallerKeeps
<1>8. CASE ScriptAnswered(s)
  <2>1. PICK to \in {"save", "cleanup"} : pc' = [pc EXCEPT ![s] = to]
    BY <1>8 DEF ScriptAnswered, Goto
  <2>2. (Echo(s) \/ UNCHANGED pipe) /\ UNCHANGED <<runnerVars, tries, work, reply, streamVars, files>>
    BY <1>8 DEF ScriptAnswered
  <2> QED
    BY <1>1, <1>2, <1>3, <2>1, <2>2, EchoFits, CallerTypes, CallMoves
<1>9. CASE ScriptSaves(s)
  <2>1. PICK to \in {"facts", "cleanup"}, F \in SUBSET {"proof", "facts"} :
            pc' = [pc EXCEPT ![s] = to] /\ files' = [files EXCEPT ![s] = F]
    <3>1. files[s] \subseteq {"proof", "facts"} /\ files = [files EXCEPT ![s] = files[s]]
      BY CallerTypes
    <3> QED
      BY <1>9, <3>1 DEF ScriptSaves, Goto
  <2>2. (Echo(s) \/ UNCHANGED pipe) /\ UNCHANGED <<runnerVars, tries, work, reply, streamVars>>
    BY <1>9 DEF ScriptSaves
  <2>3. files' \in [Scripts -> SUBSET {"proof", "facts"}]
        /\ \A r \in Scripts : r # s => files'[r] = files[r]
    BY <2>1, CallerTypes
  <2>4. /\ pipe' \in [Callers -> [{"out", "err"} -> 0..PipeSize]]
        /\ \A d \in Callers : d # s => pipe'[d] = pipe[d]
    BY <1>1, <2>2, EchoFits, CallerTypes
  <2>5. to \in ScriptPcs /\ to \in {"probe", "ask", "wait", "save", "facts", "cleanup"}
    BY DEF ScriptPcs
  <2> QED
    BY <1>1, <1>3, <2>1, <2>2, <2>3, <2>4, <2>5, CallerTypes, CallMoves
<1>10. CASE ScriptCleansUp(s)
  BY <1>1, <1>3, <1>10, KillKeeps DEF ScriptCleansUp, Goto
<1> QED
  BY <1>1, <1>5, <1>6, <1>7, <1>8, <1>9, <1>10, RequestKeeps DEF Script

-----------------------------------------------------------------------------
(* Steps of the server's tasks and of the clients *)

\* What a step of the stream of s may touch.
TouchesStream(s) ==
    /\ StreamTypes' /\ DOMAIN chan' = Scripts
    /\ \A r \in Scripts : r # s =>
           /\ chan'[r] = chan[r] /\ seen'[r] = seen[r] /\ task'[r] = task[r]
    /\ \A n \in Sessions : recorded[n] = TRUE => recorded'[n] = TRUE
    /\ CallTypes'
    /\ \A d \in Callers : d # s => pc'[d] = pc[d] /\ pipe'[d] = pipe[d]
    /\ UNCHANGED <<runnerVars, tries, work, reply, files>>

\* A step that touches no more and leaves its stream in order keeps the
\* invariant.
LEMMA StreamKeeps ==
    ASSUME Inv, NEW s \in Scripts, TouchesStream(s), CallInv(s)', TaskInv(s)', EventInv(s)'
    PROVE  Inv'
<1>1. TypeOK' /\ ConfiguredByCaller'
  BY DEF Inv, TypeOK, RunsInv, ConfiguredByCaller, TouchesStream, runnerVars
<1>2. ASSUME NEW d \in Callers, d # s PROVE CallInv(d)'
  BY <1>2 DEF Inv, RunsInv, CallInv, MayHaveRunner, TouchesStream, runnerVars
<1>3. ASSUME NEW r \in Scripts, r # s PROVE TaskInv(r)' /\ EventInv(r)'
  <2>1. TaskInv(r) /\ EventInv(r) /\ r \in Callers
    BY DEF Inv, RunsInv, Callers
  <2>2. /\ chan'[r] = chan[r] /\ seen'[r] = seen[r] /\ task'[r] = task[r]
        /\ pc'[r] = pc[r] /\ pipe'[r] = pipe[r] /\ UNCHANGED <<runner, files>>
    BY <1>3, <2>1 DEF TouchesStream, runnerVars
  <2>3. \A e : Fits(r, e) => Fits(r, e)'
    BY <2>2 DEF Fits, TouchesStream, Sessions
  <2>4. TaskInv(r)'
    BY <2>1, <2>2, <2>3 DEF TaskInv, Quiet
  <2>5. EventInv(r)'
    BY <2>1, <2>2, <2>3 DEF EventInv
  <2> QED
    BY <2>4, <2>5
<1> QED
  BY <1>1, <1>2, <1>3 DEF Inv, RunsInv, TouchesStream

\* What the invariant says of one stream.
LEMMA StreamFacts ==
    ASSUME Inv, NEW s \in Scripts
    PROVE  /\ s \in Callers /\ CallInv(s) /\ TaskInv(s) /\ EventInv(s)
           /\ DOMAIN chan = Scripts
           /\ \A r \in Scripts : /\ chan[r] \in Seq({"log"} \cup Outcomes)
                                 /\ Len(chan[r]) <= ChanSize
           /\ client \in [Scripts -> {"here", "gone"}]
           /\ seen \in [Scripts -> {"none", "log"} \cup Outcomes]
           /\ task \in [Scripts -> {"idle", "starting", "reading", "ended"} \cup Outcomes]
           /\ recorded \in [Sessions -> BOOLEAN] /\ SessionOf[s] \in Sessions
           /\ CallTypes
BY DEF Inv, TypeOK, StreamTypes, RunsInv, Callers, Sessions

\* A channel takes an event if it has room, and drops it if nobody listens.
LEMMA SendFacts ==
    ASSUME Inv, NEW s \in Scripts, NEW event \in {"log"} \cup Outcomes, Send(s, event)
    PROVE  /\ DOMAIN chan' = Scripts
           /\ \A r \in Scripts : /\ chan'[r] \in Seq({"log"} \cup Outcomes)
                                 /\ Len(chan'[r]) <= ChanSize
                                 /\ r # s => chan'[r] = chan[r]
           /\ \/ chan'[s] = chan[s]
              \/ /\ Len(chan'[s]) = Len(chan[s]) + 1
                 /\ \A i \in 1..Len(chan[s]) : chan'[s][i] = chan[s][i]
                 /\ chan'[s][Len(chan'[s])] = event
<1>1. CASE chan' = chan
  BY <1>1, StreamFacts
<1>2. CASE Len(chan[s]) < ChanSize /\ chan' = [chan EXCEPT ![s] = Append(chan[s], event)]
  <2>1. /\ DOMAIN chan' = Scripts /\ chan'[s] = Append(chan[s], event)
        /\ \A r \in Scripts : r # s => chan'[r] = chan[r]
    BY <1>2, StreamFacts
  <2>2. chan[s] \in Seq({"log"} \cup Outcomes) /\ Len(chan[s]) \in Nat
    BY StreamFacts
  <2>3. /\ chan'[s] \in Seq({"log"} \cup Outcomes) /\ Len(chan'[s]) = Len(chan[s]) + 1
        /\ \A i \in 1..Len(chan[s]) : chan'[s][i] = chan[s][i]
        /\ chan'[s][Len(chan[s]) + 1] = event
    BY <2>1, <2>2
  <2>4. Len(chan'[s]) <= ChanSize
    BY <1>2, <2>2, <2>3, RunsAssumption
  <2> QED
    BY <2>1, <2>3, <2>4, StreamFacts
<1> QED
  BY <1>1, <1>2 DEF Send

\* Before a task ends, no outcome is on its way.
LEMMA NoOutcomeYet ==
    ASSUME Inv, NEW s \in Scripts, task[s] # "ended"
    PROVE  seen[s] \notin Outcomes /\ \A i \in 1..Len(chan[s]) : chan[s][i] \notin Outcomes
BY StreamFacts DEF EventInv

\* A log line sent by a task that has not ended leaves the events in order.
LEMMA LogKeepsOrder ==
    ASSUME Inv, NEW s \in Scripts, task[s] # "ended", Send(s, "log"), seen' = seen
    PROVE  EventInv(s)'
<1>1. "log" \notin Outcomes /\ Len(chan[s]) \in Nat
  BY StreamFacts DEF Outcomes
<1>2. \A i \in 1..Len(chan'[s]) : chan'[s][i] \notin Outcomes
  BY <1>1, SendFacts, NoOutcomeYet
<1> QED
  BY <1>2, NoOutcomeYet DEF EventInv

\* The task starts, finds the block and spawns the script.
LEMMA TaskStartKeeps ==
    ASSUME Inv, NEW s \in Scripts, TaskStarts(s) \/ TaskSpawns(s)
    PROVE  Inv'
<1>0. task[s] \in {"idle", "starting"} /\ pc[s] = "idle" /\ Quiet(s) /\ files[s] = {}
      /\ tries[s] = 0
  BY StreamFacts DEF TaskStarts, TaskSpawns, TaskInv, CallInv
<1>1. CASE TaskStarts(s)
  <2>1. /\ Send(s, "log") /\ task' = [task EXCEPT ![s] = "starting"]
        /\ UNCHANGED <<runnerVars, callVars, pipe, client, seen, recorded, files>>
    BY <1>1 DEF TaskStarts
  <2>2. TouchesStream(s)
    BY <2>1, StreamFacts, SendFacts
       DEF TouchesStream, StreamTypes, CallTypes, callVars, runnerVars
  <2>3. CallInv(s)'
    BY <2>1, StreamFacts DEF CallInv, MayHaveRunner, callVars, runnerVars
  <2>4. TaskInv(s)'
    BY <1>0, <2>1, StreamFacts DEF TaskInv, Quiet, Outcomes, callVars, runnerVars
  <2>5. EventInv(s)'
    BY <1>0, <2>1, LogKeepsOrder
  <2> QED
    BY <2>2, <2>3, <2>4, <2>5, StreamKeeps
<1>2. CASE TaskSpawns(s)
  <2>1. PICK to \in {"idle", "fetch"} :
            /\ pc' = [pc EXCEPT ![s] = to]
            /\ task' = [task EXCEPT ![s] = IF to = "idle" THEN "error" ELSE "reading"]
    <3>1. pc = [pc EXCEPT ![s] = "idle"]
      BY <1>0, CallerTypes
    <3> QED
      BY <1>2, <3>1 DEF TaskSpawns, Goto
  <2>2. UNCHANGED <<runnerVars, tries, work, reply, pipe, chan, client, seen, recorded, files>>
    BY <1>2 DEF TaskSpawns
  <2>3. /\ pc'[s] = to /\ \A d \in Callers : d # s => pc'[d] = pc[d]
        /\ task'[s] = IF to = "idle" THEN "error" ELSE "reading"
        /\ task' \in [Scripts -> {"idle", "starting", "reading", "ended"} \cup Outcomes]
        /\ \A r \in Scripts : r # s => task'[r] = task[r]
    BY <2>1, StreamFacts, CallerTypes DEF Outcomes
  <2>4. CallTypes'
    BY <2>1, <2>2, CallerTypes DEF CallTypes, runnerVars
  <2>5. TouchesStream(s)
    BY <2>2, <2>3, <2>4, StreamFacts DEF TouchesStream, StreamTypes
  <2>6. CallInv(s)'
    BY <1>0, <2>2, <2>3, StreamFacts, RunsAssumption
       DEF CallInv, MayHaveRunner, Quiet, ScriptPcs, runnerVars, Callers
  <2>7. TaskInv(s)'
    <3>1. files'[s] = {} /\ (to = "idle" => Quiet(s)')
      BY <1>0, <2>2, <2>3 DEF Quiet, runnerVars
    <3> QED
      BY <2>3, <3>1 DEF TaskInv, Fits, Outcomes
  <2>8. EventInv(s)'
    BY <1>0, <2>2, NoOutcomeYet DEF EventInv
  <2> QED
    BY <2>5, <2>6, <2>7, <2>8, StreamKeeps
<1> QED
  BY <1>1, <1>2

\* A line is forwarded by a task that has not checked its files yet.
LEMMA ForwardKeeps ==
    ASSUME Inv, NEW s \in Scripts, NEW p \in {"out", "err"}, Forward(s, p)
    PROVE  Inv'
<1>1. /\ pipe[s][p] > 0 /\ Send(s, "log") /\ pipe' = [pipe EXCEPT ![s][p] = pipe[s][p] - 1]
      /\ UNCHANGED <<runnerVars, callVars, client, seen, task, recorded, files>>
  BY DEF Forward
<1>2. pipe[s][p] \in 0..PipeSize /\ pipe[s] \in [{"out", "err"} -> 0..PipeSize]
  BY StreamFacts, CallerTypes
<1>3. ~Quiet(s)
  BY <1>1, <1>2 DEF Quiet
<1>4. pc[s] # "idle" /\ task[s] = "reading"
  BY <1>3, StreamFacts DEF TaskInv
<1>5. /\ pipe' \in [Callers -> [{"out", "err"} -> 0..PipeSize]]
      /\ \A d \in Callers : d # s => pipe'[d] = pipe[d]
  <2>1. pipe[s][p] - 1 \in 0..PipeSize
    BY <1>1, <1>2, RunsAssumption
  <2>2. [pipe[s] EXCEPT ![p] = pipe[s][p] - 1] \in [{"out", "err"} -> 0..PipeSize]
    BY <1>2, <2>1
  <2> QED
    BY <1>1, <2>2, StreamFacts, CallerTypes
<1>6. TouchesStream(s)
  BY <1>1, <1>5, StreamFacts, SendFacts, CallerTypes, SMTT(20)
     DEF TouchesStream, StreamTypes, CallTypes, callVars, runnerVars
<1>7. CallInv(s)'
  BY <1>1, StreamFacts DEF CallInv, MayHaveRunner, callVars, runnerVars
<1>8. TaskInv(s)'
  BY <1>1, <1>4, StreamFacts DEF TaskInv, Outcomes, callVars
<1>9. EventInv(s)'
  BY <1>1, <1>4, LogKeepsOrder
<1> QED
  BY <1>6, <1>7, <1>8, <1>9, StreamKeeps

\* The files are checked once the pipes are closed and empty.
LEMMA TaskCheckKeeps ==
    ASSUME Inv, NEW s \in Scripts, TaskChecks(s)
    PROVE  Inv'
<1>1. /\ task[s] = "reading" /\ Drained(s)
      /\ UNCHANGED <<runnerVars, callVars, pipe, chan, client, seen, files>>
  BY DEF TaskChecks
<1>2. Quiet(s)
  BY <1>1, StreamFacts DEF TaskInv, Quiet, Drained, PipesClosed
<1>3. PICK outcome \in Outcomes :
          /\ task' = [task EXCEPT ![s] = outcome]
          /\ recorded' \in [Sessions -> BOOLEAN]
          /\ \A n \in Sessions : recorded[n] = TRUE => recorded'[n] = TRUE
          /\ Fits(s, outcome)'
  <2>1. CASE HasProof(s)
    <3>1. /\ task' = [task EXCEPT ![s] = "complete"]
          /\ recorded' = [recorded EXCEPT ![SessionOf[s]] = TRUE]
      BY <2>1 DEF TaskChecks
    <3>2. Fits(s, "complete")'
      BY <3>1, StreamFacts DEF Fits
    <3> QED
      BY <3>1, <3>2, StreamFacts DEF Outcomes
  <2>2. CASE ~HasProof(s)
    <3>1. task' = [task EXCEPT ![s] = "error"] /\ UNCHANGED <<recorded, files>>
      BY <1>1, <2>2 DEF TaskChecks
    <3>2. "proof" \notin files[s]
      BY <2>2 DEF HasProof
    <3> QED
      BY <3>1, <3>2, StreamFacts DEF Outcomes, Fits
  <2> QED
    BY <2>1, <2>2
<1>4. /\ task' \in [Scripts -> {"idle", "starting", "reading", "ended"} \cup Outcomes]
      /\ task'[s] = outcome /\ \A r \in Scripts : r # s => task'[r] = task[r]
  BY <1>3, StreamFacts
<1>5. TouchesStream(s)
  BY <1>1, <1>3, <1>4, StreamFacts DEF TouchesStream, StreamTypes, CallTypes, callVars, runnerVars
<1>6. CallInv(s)'
  BY <1>1, StreamFacts DEF CallInv, MayHaveRunner, callVars, runnerVars
<1>7. TaskInv(s)'
  <2>1. pc'[s] = "exited" /\ Quiet(s)'
    BY <1>1, <1>2 DEF Quiet, Drained, PipesClosed, callVars, runnerVars
  <2> QED
    BY <1>3, <1>4, <2>1 DEF TaskInv, Outcomes
<1>8. EventInv(s)'
  BY <1>1, <1>3, NoOutcomeYet DEF EventInv
<1> QED
  BY <1>5, <1>6, <1>7, <1>8, StreamKeeps

\* The outcome is the last thing the task sends.
LEMMA TaskEndKeeps ==
    ASSUME Inv, NEW s \in Scripts, TaskEnds(s)
    PROVE  Inv'
<1>1. /\ task[s] \in Outcomes /\ Send(s, task[s]) /\ task' = [task EXCEPT ![s] = "ended"]
      /\ UNCHANGED <<runnerVars, callVars, pipe, client, seen, recorded, files>>
  BY DEF TaskEnds
<1>2. /\ task[s] \in {"log"} \cup Outcomes /\ task[s] # "ended"
      /\ Fits(s, task[s])
  BY <1>1, StreamFacts DEF Outcomes, TaskInv, Fits
<1>3. /\ task' \in [Scripts -> {"idle", "starting", "reading", "ended"} \cup Outcomes]
      /\ task'[s] = "ended" /\ \A r \in Scripts : r # s => task'[r] = task[r]
  BY <1>1, StreamFacts
<1>4. TouchesStream(s)
  <2>1. /\ DOMAIN chan' = Scripts
        /\ \A r \in Scripts : /\ chan'[r] \in Seq({"log"} \cup Outcomes)
                              /\ Len(chan'[r]) <= ChanSize
                              /\ r # s => chan'[r] = chan[r]
    BY <1>1, <1>2, SendFacts
  <2> QED
    BY <1>1, <1>3, <2>1, StreamFacts
       DEF TouchesStream, StreamTypes, CallTypes, callVars, runnerVars
<1>5. CallInv(s)'
  BY <1>1, StreamFacts DEF CallInv, MayHaveRunner, callVars, runnerVars
<1>6. TaskInv(s)'
  <2>1. Quiet(s)' /\ files' = files /\ pc' = pc
    BY <1>1, StreamFacts DEF TaskInv, Quiet, callVars, runnerVars
  <2>2. pc[s] = "idle" => files[s] = {}
    BY StreamFacts DEF TaskInv
  <2>3. Fits(s, "ended")'
    BY DEF Fits
  <2> QED
    BY <1>3, <2>1, <2>2, <2>3 DEF TaskInv
<1>7. EventInv(s)'
  <2>1. Len(chan[s]) \in Nat
    BY StreamFacts
  <2>2. \/ chan'[s] = chan[s]
        \/ /\ Len(chan'[s]) = Len(chan[s]) + 1
           /\ \A i \in 1..Len(chan[s]) : chan'[s][i] = chan[s][i]
           /\ chan'[s][Len(chan'[s])] = task[s]
    BY <1>1, <1>2, SendFacts
  <2>3. \A i \in 1..Len(chan[s]) : chan[s][i] \notin Outcomes
    BY <1>2, NoOutcomeYet
  <2>4. \A i \in 1..Len(chan'[s]) : chan'[s][i] \in Outcomes =>
            i = Len(chan'[s]) /\ chan'[s][i] = task[s]
    BY <2>1, <2>2, <2>3
  <2>5. seen'[s] \notin Outcomes
    BY <1>1, <1>2, NoOutcomeYet
  <2> QED
    BY <1>1, <1>2, <1>3, <2>4, <2>5 DEF EventInv, Fits
<1> QED
  BY <1>4, <1>5, <1>6, <1>7, StreamKeeps

\* A client takes the oldest event, or hangs up.
LEMMA ClientKeeps ==
    ASSUME Inv, NEW s \in Scripts, ClientReads(s) \/ ClientLeaves(s)
    PROVE  Inv'
<1>1. UNCHANGED <<runnerVars, callVars, pipe, task, recorded, files>>
  BY DEF ClientReads, ClientLeaves
<1>2. chan[s] \in Seq({"log"} \cup Outcomes) /\ Len(chan[s]) \in Nat
  BY StreamFacts
<1>3. TouchesStream(s) /\ EventInv(s)'
  <2>1. CASE ClientReads(s)
    <3>1. /\ chan[s] # <<>> /\ seen' = [seen EXCEPT ![s] = Head(chan[s])]
          /\ chan' = [chan EXCEPT ![s] = Tail(chan[s])] /\ client' = client
      BY <2>1 DEF ClientReads
    <3>2. /\ Head(chan[s]) = chan[s][1] /\ Head(chan[s]) \in {"log"} \cup Outcomes
          /\ Tail(chan[s]) \in Seq({"log"} \cup Outcomes) /\ Len(chan[s]) > 0
          /\ Len(Tail(chan[s])) = Len(chan[s]) - 1
          /\ \A i \in 1..Len(Tail(chan[s])) : Tail(chan[s])[i] = chan[s][i + 1]
      BY <1>2, <3>1
    <3>3. /\ DOMAIN chan' = Scripts /\ chan'[s] = Tail(chan[s])
          /\ \A r \in Scripts : r # s => chan'[r] = chan[r]
          /\ seen' \in [Scripts -> {"none", "log"} \cup Outcomes]
          /\ seen'[s] = chan[s][1] /\ \A r \in Scripts : r # s => seen'[r] = seen[r]
      BY <3>1, <3>2, StreamFacts
    <3>4. \A r \in Scripts : chan'[r] \in Seq({"log"} \cup Outcomes) /\ Len(chan'[r]) <= ChanSize
      <4>1. Len(chan[s]) <= ChanSize /\ ChanSize \in Nat
        BY StreamFacts, RunsAssumption
      <4>2. Tail(chan[s]) \in Seq({"log"} \cup Outcomes) /\ Len(Tail(chan[s])) <= ChanSize
        BY <1>2, <3>2, <4>1
      <4>3. \A r \in Scripts : chan'[r] = Tail(chan[s]) \/ chan'[r] = chan[r]
        BY <3>3
      <4> QED
        BY <4>2, <4>3, StreamFacts
    <3>5. TouchesStream(s)
      BY <1>1, <3>1, <3>3, <3>4, StreamFacts
         DEF TouchesStream, StreamTypes, CallTypes, callVars, runnerVars
    <3>6. \A i \in 1..Len(chan'[s]) : chan'[s][i] \in Outcomes =>
              task[s] = "ended" /\ i = Len(chan'[s]) /\ Fits(s, chan'[s][i])
      <4> SUFFICES ASSUME NEW i \in 1..Len(chan'[s]), chan'[s][i] \in Outcomes
                   PROVE  task[s] = "ended" /\ i = Len(chan'[s]) /\ Fits(s, chan'[s][i])
        OBVIOUS
      <4>1. i + 1 \in 1..Len(chan[s]) /\ chan'[s][i] = chan[s][i + 1]
        BY <1>2, <3>2, <3>3
      <4>2. task[s] = "ended" /\ i + 1 = Len(chan[s]) /\ Fits(s, chan[s][i + 1])
        BY <4>1, StreamFacts DEF EventInv
      <4> QED
        BY <1>2, <3>2, <3>3, <4>1, <4>2
    <3>7. seen'[s] \in Outcomes =>
              task[s] = "ended" /\ chan'[s] = <<>> /\ Fits(s, seen'[s])
      <4> SUFFICES ASSUME chan[s][1] \in Outcomes
                   PROVE  task[s] = "ended" /\ chan'[s] = <<>> /\ Fits(s, chan[s][1])
        BY <3>3
      <4>1. 1 \in 1..Len(chan[s])
        BY <1>2, <3>2
      <4>2. task[s] = "ended" /\ 1 = Len(chan[s]) /\ Fits(s, chan[s][1])
        BY <4>1, StreamFacts DEF EventInv
      <4>3. chan'[s] = <<>>
        BY <1>2, <3>2, <3>3, <4>2
      <4> QED
        BY <4>2, <4>3
    <3>8. EventInv(s)'
      <4>1. ASSUME NEW i \in 1..Len(chan'[s]), chan'[s][i] \in Outcomes
            PROVE  /\ task'[s] = "ended" /\ i = Len(chan'[s])
                   /\ Fits(s, chan[s][i])'
        BY <1>1, <3>6, <4>1 DEF Fits
      <4>2. ASSUME seen'[s] \in Outcomes
            PROVE  task'[s] = "ended" /\ chan'[s] = <<>> /\ Fits(s, seen[s])'
        BY <1>1, <3>7, <4>2 DEF Fits
      <4> QED
        BY <4>1, <4>2 DEF EventInv
    <3> QED
      BY <3>5, <3>8
  <2>2. CASE ClientLeaves(s)
    <3>1. /\ client' = [client EXCEPT ![s] = "gone"] /\ seen' = seen
          /\ chan' = [chan EXCEPT ![s] = <<>>]
      BY <2>2 DEF ClientLeaves
    <3>2. /\ DOMAIN chan' = Scripts /\ chan'[s] = <<>>
          /\ \A r \in Scripts : r # s => chan'[r] = chan[r]
          /\ client' \in [Scripts -> {"here", "gone"}]
      BY <3>1, StreamFacts
    <3>3. \A r \in Scripts : chan'[r] \in Seq({"log"} \cup Outcomes) /\ Len(chan'[r]) <= ChanSize
      <4>1. <<>> \in Seq({"log"} \cup Outcomes) /\ Len(<<>>) <= ChanSize
        BY RunsAssumption
      <4>2. \A r \in Scripts : chan'[r] = <<>> \/ chan'[r] = chan[r]
        BY <3>2
      <4> QED
        BY <4>1, <4>2, StreamFacts
    <3>4. TouchesStream(s)
      BY <1>1, <3>1, <3>2, <3>3, StreamFacts
         DEF TouchesStream, StreamTypes, CallTypes, callVars, runnerVars
    <3>5. EventInv(s)'
      <4>1. ASSUME NEW i \in 1..Len(chan'[s]) PROVE FALSE
        <5>1. Len(chan'[s]) = 0
          BY <3>2
        <5> QED
          BY <4>1, <5>1
      <4>2. seen[s] \in Outcomes => task[s] = "ended" /\ Fits(s, seen[s])
        BY StreamFacts DEF EventInv
      <4>3. seen'[s] \in Outcomes =>
                task'[s] = "ended" /\ chan'[s] = <<>> /\ Fits(s, seen[s])'
        BY <1>1, <3>1, <3>2, <4>2 DEF Fits
      <4> QED
        BY <4>1, <4>3 DEF EventInv
    <3> QED
      BY <3>4, <3>5
  <2> QED
    BY <2>1, <2>2
<1>4. CallInv(s)'
  BY <1>1, StreamFacts DEF CallInv, MayHaveRunner, callVars, runnerVars
<1>5. TaskInv(s)'
  BY <1>1, StreamFacts DEF TaskInv, Fits, Quiet, callVars, runnerVars
<1> QED
  BY <1>3, <1>4, <1>5, StreamKeeps

-----------------------------------------------------------------------------
(* The invariant and what follows from it *)

\* The invariant holds in every state of every behaviour.
THEOREM RunsInvariant == Spec => []Inv
<1>1. Inv /\ [Next]_vars => Inv'
  <2> SUFFICES ASSUME Inv, [Next]_vars PROVE Inv'
    OBVIOUS
  <2>1. CASE UNCHANGED vars
    <3>1. UNCHANGED <<runnerVars, callVars, pipe, streamVars, files>>
      BY <2>1 DEF vars
    <3>2. TypeOK' /\ ConfiguredByCaller'
      BY <3>1 DEF Inv, TypeOK, CallTypes, StreamTypes, RunsInv, ConfiguredByCaller, runnerVars,
         callVars, streamVars
    <3>3. ASSUME NEW c \in Callers PROVE CallInv(c)'
      BY <3>1 DEF Inv, RunsInv, CallInv, MayHaveRunner, runnerVars, callVars
    <3>4. ASSUME NEW s \in Scripts PROVE TaskInv(s)' /\ EventInv(s)'
      BY <3>1 DEF Inv, RunsInv, TaskInv, Quiet, EventInv, Fits, runnerVars, callVars,
         streamVars
    <3> QED
      BY <3>1, <3>2, <3>3, <3>4 DEF Inv, RunsInv, streamVars
  <2>2. ASSUME NEW c \in Callers,
               RunnerBinds(c) \/ RunnerGivesUp(c) \/ RunnerCrashes(c) \/ RunnerServes(c)
        PROVE  Inv'
    BY <2>2, RunnerKeeps, ServeKeeps
  <2>3. ASSUME NEW s \in Scripts,
               \/ TaskStarts(s) \/ Script(s) \/ Task(s)
               \/ \E p \in {"out", "err"} : Forward(s, p)
               \/ ClientReads(s) \/ ClientLeaves(s)
        PROVE  Inv'
    BY <2>3, TaskStartKeeps, ScriptKeeps, ForwardKeeps, TaskCheckKeeps, TaskEndKeeps,
       ClientKeeps DEF Task
  <2> QED
    BY <2>1, <2>2, <2>3, ArtifactKeeps DEF Next
<1> QED
  BY <1>1, RunsInit, PTL DEF Spec

\* Callers, runners, pipes and streams keep their types: pipes and channels
\* their sizes, readiness its attempts.
THEOREM RunsTypeCorrect == Spec => []TypeOK
<1>1. Inv => TypeOK
  BY DEF Inv
<1> QED
  BY <1>1, RunsInvariant, PTL

\* Scripts and answered calls leave no runner behind, on any path.
THEOREM NoRunnerIsLeft == Spec => []NoStrayRunner
<1>1. ASSUME Inv PROVE NoStrayRunner
  BY <1>1 DEF Inv, RunsInv, CallInv, MayHaveRunner, NoStrayRunner, InProgress, CallEnded
<1> QED
  BY <1>1, RunsInvariant, PTL

\* "complete" is told where the session has a proof recorded, "error" never
\* to a run that saved one, for any number of runs of a session at once.
THEOREM OutcomesFit == Spec => []OutcomeFitsSession
<1>1. ASSUME Inv PROVE OutcomeFitsSession
  <2> SUFFICES ASSUME NEW s \in Scripts
               PROVE  /\ seen[s] = "complete" => recorded[SessionOf[s]]
                      /\ seen[s] = "error" => "proof" \notin files[s]
    BY DEF OutcomeFitsSession
  <2>1. seen[s] \in Outcomes => Fits(s, seen[s])
    BY <1>1 DEF Inv, RunsInv, EventInv
  <2> QED
    BY <2>1 DEF Outcomes, Fits
<1> QED
  BY <1>1, RunsInvariant, PTL

\* No event follows the outcome.
THEOREM OutcomesComeLast == Spec => OutcomeIsLast
<1>1. Inv /\ [Next]_vars =>
          [\A s \in Scripts : seen[s] \in Outcomes => seen'[s] = seen[s]]_vars
  <2> SUFFICES ASSUME Inv, Next, NEW s \in Scripts, seen[s] \in Outcomes
               PROVE  seen'[s] = seen[s]
    OBVIOUS
  <2>1. chan[s] = <<>>
    BY DEF Inv, RunsInv, EventInv
  <2>2. ASSUME NEW r \in Scripts, ClientReads(r) PROVE seen'[s] = seen[s]
    BY <2>1, <2>2, StreamFacts DEF ClientReads
  <2>3. ASSUME NEW c \in Callers,
               RunnerBinds(c) \/ RunnerGivesUp(c) \/ RunnerCrashes(c) \/ RunnerServes(c)
        PROVE  seen' = seen
    BY <2>3 DEF RunnerBinds, RunnerGivesUp, RunnerCrashes, RunnerServes, Serve, streamVars
  <2>4. ASSUME NEW c, Request(c) PROVE seen' = seen
    BY <2>4 DEF Request, ProbeSucceeds, ProbeFails, Ask, RequestFails, streamVars
  <2>5. ASSUME NEW a \in Artifacts, ArtifactStarts(a) \/ Artifact(a) PROVE seen' = seen
    BY <2>4, <2>5 DEF ArtifactStarts, Artifact, ArtifactAnswered, streamVars
  <2>6. ASSUME NEW r \in Scripts, Script(r) PROVE seen' = seen
    BY <2>4, <2>6 DEF Script, ScriptStops, ScriptFetches, ScriptBuilds, ScriptLaunches,
       ScriptAnswered, ScriptSaves, ScriptCleansUp, streamVars
  <2>7. ASSUME NEW r \in Scripts,
               \/ TaskStarts(r) \/ Task(r) \/ \E p \in {"out", "err"} : Forward(r, p)
               \/ ClientLeaves(r)
        PROVE  seen' = seen
    BY <2>7 DEF TaskStarts, Task, TaskSpawns, TaskChecks, TaskEnds, Forward, ClientLeaves
  <2> QED
    BY <2>2, <2>3, <2>5, <2>6, <2>7 DEF Next
<1> QED
  BY <1>1, RunsInvariant, PTL DEF Spec, OutcomeIsLast

-----------------------------------------------------------------------------
(* The configuration of a runner *)

\* The options a flag replaces.
LEMMA OptionNames ==
    /\ PlainOptions = {"rpc_node_url", "chain_id", "strk_fee_token_address",
                       "compiled_class_cache_size", "prefetch_state",
                       "use_latest_versioned_constants", "ip", "port",
                       "max_concurrent_requests", "max_connections", "tls_cert_file",
                       "tls_key_file"}
    /\ PlainOptions \subseteq DOMAIN RawDefault
    /\ "validate_zero_fee_fields" \in DOMAIN RawDefault
    /\ "validate_zero_fee_fields" \notin PlainOptions
    /\ "cors_allow_origin" \in DOMAIN RawDefault /\ "cors_allow_origin" \notin PlainOptions
BY DEF PlainOptions, RawDefault

\* A flag goes before the environment and before the defaults of clap.
LEMMA FlagsGoFirst ==
    ASSUME NEW flags, NEW env, NEW f \in DOMAIN flags
    PROVE  CliArgs(flags, env)[f] = flags[f]
BY DEF CliArgs, Over

\* Whatever the file leaves out is there with its default.
LEMMA FileIsComplete ==
    ASSUME NEW file, NEW f \in DOMAIN RawDefault
    PROVE  f \in DOMAIN RawFile(file)
BY DEF RawFile, Over

\* A service that starts runs with the options it was given, and without
\* the check of the fee fields if it was told to skip it.
LEMMA FlagsAreObeyed ==
    ASSUME NEW args, from_args(args).ok
    PROVE  /\ \A f \in PlainOptions : args[f] # None => from_args(args)[f] = args[f]
           /\ args.skip_fee_field_validation = TRUE =>
                  from_args(args).validate_zero_fee_fields = FALSE
<1> DEFINE raw == RawFile(args.config_file)
           c == Override(raw, args)
           n == [c EXCEPT !.cors_allow_origin = normalize_cors_allow_origins(@)]
           checks == Checks(args, c)
           failed == {i \in DOMAIN checks : checks[i].fails}
<1>1. failed = {}
  BY DEF from_args
<1>2. from_args(args) = Over([ok |-> TRUE, transport |-> TransportMode(c)], n)
  BY <1>1 DEF from_args
<1>3. \A f \in DOMAIN raw : f \notin {"ok", "transport"} => from_args(args)[f] = n[f]
  BY <1>2 DEF Over, Override
<1>4. \A f \in DOMAIN raw : f # "cors_allow_origin" => n[f] = c[f]
  BY DEF Override
<1>5. \A f \in PlainOptions : /\ f \in DOMAIN raw
                              /\ f \notin {"ok", "transport", "cors_allow_origin"}
  BY FileIsComplete, OptionNames
<1>6. \A f \in PlainOptions : args[f] # None => c[f] = args[f]
  BY <1>5 DEF Override
<1>7. "validate_zero_fee_fields" \in DOMAIN raw
  BY FileIsComplete, OptionNames
<1>8. args.skip_fee_field_validation = TRUE => c.validate_zero_fee_fields = FALSE
  BY <1>7, OptionNames DEF Override
<1> QED
  BY <1>3, <1>4, <1>5, <1>6, <1>7, <1>8

\* A runner obeys the flags of its caller, whatever environment and file
\* say.
THEOREM RunnersObey == Spec => []RunnerObeysItsCaller
<1>1. ASSUME Inv PROVE RunnerObeysItsCaller
  <2> SUFFICES ASSUME NEW c \in Callers, runner[c] = "up"
               PROVE  /\ \A f \in DOMAIN FlagsOf(c) \cap PlainOptions : config[c][f] = FlagsOf(c)[f]
                      /\ c \in Artifacts => ~config[c].validate_zero_fee_fields
    BY DEF RunnerObeysItsCaller
  <2>1. PICK e \in Envs : ConfigOf(c, e).ok /\ config[c] = ConfigOf(c, e)
    BY <1>1 DEF Inv, TypeOK, RunsInv, ConfiguredByCaller
  <2> DEFINE args == CliArgs(FlagsOf(c), e)
  <2>2. from_args(args).ok /\ config[c] = from_args(args)
    BY <2>1 DEF ConfigOf
  <2>3. ASSUME NEW f \in DOMAIN FlagsOf(c) \cap PlainOptions
        PROVE  config[c][f] = FlagsOf(c)[f]
    <3>1. args[f] = FlagsOf(c)[f] /\ args[f] # None
      BY FlagsGoFirst, FlagsAssumption
    <3> HIDE DEF args
    <3> QED
      BY <2>2, <3>1, FlagsAreObeyed, ZenonT(40)
  <2>4. ASSUME c \in Artifacts PROVE ~config[c].validate_zero_fee_fields
    <3>1. c \notin Scripts
      BY <2>4, RunsAssumption
    <3>2. "skip_fee_field_validation" \in DOMAIN FlagsOf(c)
          /\ FlagsOf(c).skip_fee_field_validation = TRUE
      BY <3>1 DEF FlagsOf
    <3>3. args.skip_fee_field_validation = TRUE
      BY <3>2, FlagsGoFirst
    <3> HIDE DEF args
    <3> QED
      BY <2>2, <3>3, FlagsAreObeyed
  <2> QED
    BY <2>3, <2>4
<1> QED
  BY <1>1, RunsInvariant, PTL

-----------------------------------------------------------------------------
(* The allowed origins *)

\* The loop of normalize_cors_allow_origins, turn by turn.
LEMMA NormalTurns ==
    ASSUME NEW os, NEW S, Len(os) \in Nat, ~Contains(os, Wildcard),
           \A i \in 1..Len(os) : normalize_cors_allow_origin(os[i]) \in S
    PROVE  \E f \in [0..Len(os) -> Seq(S)] :
               /\ f[0] = <<>>
               /\ \A i \in 1..Len(os) :
                      f[i] = PushNew(f[i - 1], normalize_cors_allow_origin(os[i]))
               /\ normalize_cors_allow_origins(os) = f[Len(os)]
<1> DEFINE n == Len(os)
           F == [x \in (1..n) \X Seq(S) |-> PushNew(x[2], normalize_cors_allow_origin(os[x[1]]))]
<1>1. F \in Steps(Seq(S), n)
  <2>1. \A i \in 1..n, s \in Seq(S) : PushNew(s, normalize_cors_allow_origin(os[i])) \in Seq(S)
    BY DEF PushNew
  <2> QED
    BY <2>1 DEF Steps
<1>2. Iterations(Seq(S), <<>>, n, F) # {}
  <2>1. n \in Nat /\ <<>> \in Seq(S)
    OBVIOUS
  <2> HIDE DEF F, n
  <2> QED
    BY <1>1, <2>1, Iterate
<1>3. PICK f \in [0..n -> Seq(S)] :
           f[0] = <<>> /\ \A i \in 1..n : f[i] = F[<<i, f[i - 1]>>]
  BY <1>2 DEF Iterations
<1>4. ASSUME NEW i \in 1..n
      PROVE  f[i] = PushNew(f[i - 1], normalize_cors_allow_origin(os[i]))
  <2>1. i - 1 \in 0..n
    OBVIOUS
  <2> HIDE DEF n
  <2>2. f[i - 1] \in Seq(S)
    BY <2>1
  <2>3. F[<<i, f[i - 1]>>] = PushNew(f[i - 1], normalize_cors_allow_origin(os[i]))
    BY <2>2
  <2> QED
    BY <1>3, <2>3
<1> HIDE DEF F
<1> DEFINE Eq(g) == g = [i \in 0..n |->
                           IF i = 0 THEN <<>>
                           ELSE PushNew(g[i - 1], normalize_cors_allow_origin(os[i]))]
           h == CHOOSE g : Eq(g)
<1>5. Eq(f)
  <2> HIDE DEF n
  <2> QED
    BY <1>3, <1>4
<1>6. Eq(h)
  <2> HIDE DEF Eq
  <2> QED
    BY <1>5
<1>7. normalize_cors_allow_origins(os) = h[n]
  BY DEF normalize_cors_allow_origins
<1> HIDE DEF h
<1> DEFINE T == {i \in 0..n : h[i] = f[i]}
<1>8. 0 \in T /\ \A i \in 1..n : i - 1 \in T => i \in T
  <2>1. \A i \in 0..n : h[i] = IF i = 0 THEN <<>>
                              ELSE PushNew(h[i - 1], normalize_cors_allow_origin(os[i]))
    BY <1>6
  <2>2. 0 \in T
    BY <2>1, <1>3
  <2>3. ASSUME NEW i \in 1..n, i - 1 \in T PROVE i \in T
    BY <2>1, <2>3, <1>4
  <2> QED
    BY <2>2, <2>3
<1>9. h[n] = f[n]
  <2>1. 0..n \subseteq T
    <3> HIDE DEF T
    <3> QED
      BY <1>8, Induct
  <2> QED
    BY <2>1
<1> QED
  BY <1>3, <1>4, <1>7, <1>9

\* What is kept is kept once, and is what some origin has become.
LEMMA NormalIsDistinct ==
    ASSUME NEW os, NEW S, Len(os) \in Nat, ~Contains(os, Wildcard),
           \A i \in 1..Len(os) : normalize_cors_allow_origin(os[i]) \in S
    PROVE  LET r == normalize_cors_allow_origins(os)
           IN  r \in Seq(S) /\ \A i, j \in 1..Len(r) : r[i] = r[j] => i = j
<1>1. PICK f \in [0..Len(os) -> Seq(S)] :
           /\ f[0] = <<>>
           /\ \A i \in 1..Len(os) :
                  f[i] = PushNew(f[i - 1], normalize_cors_allow_origin(os[i]))
           /\ normalize_cors_allow_origins(os) = f[Len(os)]
  BY NormalTurns
<1> DEFINE Once(s) == \A i, j \in 1..Len(s) : s[i] = s[j] => i = j
           T == {i \in 0..Len(os) : Once(f[i])}
<1>2. ASSUME NEW s \in Seq(S), NEW o \in S, Once(s) PROVE Once(PushNew(s, o))
  <2>1. CASE Contains(s, o)
    BY <1>2, <2>1 DEF PushNew
  <2>2. CASE ~Contains(s, o)
    <3>1. \A i \in 1..Len(s) : s[i] # o
      BY <2>2 DEF Contains
    <3>2. /\ PushNew(s, o) = Append(s, o) /\ Len(Append(s, o)) = Len(s) + 1
          /\ \A i \in 1..(Len(s) + 1) : Append(s, o)[i] = IF i <= Len(s) THEN s[i] ELSE o
      BY <2>2 DEF PushNew
    <3> QED
      BY <1>2, <3>1, <3>2
  <2> QED
    BY <2>1, <2>2
<1>3. 0 \in T
  BY <1>1
<1>4. ASSUME NEW i \in 1..Len(os), i - 1 \in T PROVE i \in T
  <2>1. f[i - 1] \in Seq(S) /\ Once(f[i - 1])
    BY <1>4
  <2> HIDE DEF Once
  <2> QED
    BY <2>1, <1>1, <1>2
<1>5. 0..Len(os) \subseteq T
  <2> HIDE DEF T
  <2> QED
    BY <1>3, <1>4, Induct
<1> QED
  BY <1>1, <1>5

\* Origins in normal form stay as they are.
LEMMA NormalStays ==
    ASSUME NEW S, NEW os \in Seq(S), ~Contains(os, Wildcard),
           \A i \in 1..Len(os) : normalize_cors_allow_origin(os[i]) = os[i],
           \A i, j \in 1..Len(os) : os[i] = os[j] => i = j
    PROVE  normalize_cors_allow_origins(os) = os
<1>1. PICK f \in [0..Len(os) -> Seq(S)] :
           /\ f[0] = <<>>
           /\ \A i \in 1..Len(os) :
                  f[i] = PushNew(f[i - 1], normalize_cors_allow_origin(os[i]))
           /\ normalize_cors_allow_origins(os) = f[Len(os)]
  <2>1. Len(os) \in Nat /\ \A i \in 1..Len(os) : normalize_cors_allow_origin(os[i]) \in S
    OBVIOUS
  <2> QED
    BY <2>1, NormalTurns
<1> DEFINE T == {i \in 0..Len(os) : f[i] = SubSeq(os, 1, i)}
<1>2. 0 \in T
  <2>1. SubSeq(os, 1, 0) = <<>> /\ Len(os) \in Nat
    BY SubSeqEmpty
  <2> QED
    BY <1>1, <2>1
<1>3. ASSUME NEW i \in 1..Len(os), i - 1 \in T PROVE i \in T
  <2>1. f[i - 1] = SubSeq(os, 1, i - 1)
    BY <1>3
  <2>2. ~Contains(SubSeq(os, 1, i - 1), os[i])
    BY DEF Contains
  <2>3. f[i] = Append(SubSeq(os, 1, i - 1), os[i])
    BY <1>1, <2>1, <2>2 DEF PushNew
  <2>4. Append(SubSeq(os, 1, i - 1), os[i]) = SubSeq(os, 1, i)
    OBVIOUS
  <2>5. i \in 0..Len(os) /\ f[i] = SubSeq(os, 1, i)
    BY <2>3, <2>4
  <2> QED
    BY <2>5
<1>4. 0..Len(os) \subseteq T
  <2>1. Len(os) \in Nat
    OBVIOUS
  <2> HIDE DEF T
  <2> QED
    BY <1>2, <1>3, <2>1, Induct
<1> QED
  BY <1>1, <1>4

\* A normal origin is not the wildcard and stays as it is.
LEMMA OriginOnce ==
    ASSUME NEW o, o = Url(o.scheme, o.host, o.port, o.bare)
    PROVE  LET n == normalize_cors_allow_origin(o)
           IN  n # Wildcard /\ normalize_cors_allow_origin(n) = n
<1> DEFINE Port(s, p) == IF p = DefaultPort(s) THEN None ELSE p
           n == normalize_cors_allow_origin(o)
<1>1. \A s, h, p, b : normalize_cors_allow_origin(Url(s, h, p, b)) = Url(s, h, Port(s, p), b)
  BY DEF normalize_cors_allow_origin, Url
<1>2. n = Url(o.scheme, o.host, Port(o.scheme, o.port), o.bare)
  <2> HIDE DEF Port
  <2> QED
    BY <1>1
<1>3. Port(o.scheme, Port(o.scheme, o.port)) = Port(o.scheme, o.port)
  OBVIOUS
<1>4. normalize_cors_allow_origin(n) = n
  <2> HIDE DEF Port, n
  <2> QED
    BY <1>1, <1>2, <1>3
<1>5. n # Wildcard
  <2>1. DOMAIN n = {"scheme", "host", "port", "bare"} /\ DOMAIN Wildcard = {"any"}
    BY <1>2 DEF Url, Wildcard
  <2> HIDE DEF n
  <2> QED
    BY <2>1
<1> QED
  BY <1>4, <1>5

\* What is true of the origins a configuration ends up with.
NormalOrigins(o) ==
    /\ cors_mode(o) = "allowlist" => ~Contains(o, Wildcard)
    /\ \A i, j \in DOMAIN o : o[i] = o[j] => i = j
    /\ normalize_cors_allow_origins(o) = o

LEMMA OriginsBecomeNormal ==
    ASSUME NEW os, IsOrigins(os), OriginsOk(os)
    PROVE  NormalOrigins(normalize_cors_allow_origins(os))
<1> DEFINE r == normalize_cors_allow_origins(os)
<1>0. Len(os) \in Nat /\ DOMAIN os = 1..Len(os)
  BY DEF IsOrigins
<1>1. CASE Contains(os, Wildcard)
  <2>1. r = <<Wildcard>>
    BY <1>1 DEF normalize_cors_allow_origins
  <2>2. Contains(<<Wildcard>>, Wildcard)
    BY DEF Contains
  <2>3. normalize_cors_allow_origins(<<Wildcard>>) = <<Wildcard>>
    BY <2>2 DEF normalize_cors_allow_origins
  <2>4. cors_mode(<<Wildcard>>) # "allowlist"
    BY DEF cors_mode
  <2> QED
    BY <2>1, <2>3, <2>4 DEF NormalOrigins
<1>2. CASE ~Contains(os, Wildcard)
  <2> DEFINE S == {normalize_cors_allow_origin(os[i]) : i \in 1..Len(os)}
  <2>1. ASSUME NEW i \in 1..Len(os) PROVE os[i] = Url(os[i].scheme, os[i].host, os[i].port, os[i].bare)
    <3>1. os[i] # Wildcard
      BY <1>2 DEF Contains
    <3>2. os[i] # Bad
      BY <1>0, <1>2 DEF OriginsOk, OriginOk
    <3> QED
      BY <1>0, <3>1, <3>2 DEF IsOrigins, IsOrigin
  <2>2. ASSUME NEW n \in S PROVE n # Wildcard /\ normalize_cors_allow_origin(n) = n
    BY <2>1, OriginOnce
  <2>3. r \in Seq(S) /\ \A i, j \in 1..Len(r) : r[i] = r[j] => i = j
    <3>1. \A i \in 1..Len(os) : normalize_cors_allow_origin(os[i]) \in S
      OBVIOUS
    <3> HIDE DEF S
    <3> QED
      BY <1>0, <1>2, <3>1, NormalIsDistinct
  <2> HIDE DEF r, S
  <2>4. DOMAIN r = 1..Len(r) /\ \A i \in 1..Len(r) : r[i] \in S
    BY <2>3
  <2>5. ~Contains(r, Wildcard)
    BY <2>2, <2>4 DEF Contains
  <2>6. normalize_cors_allow_origins(r) = r
    BY <2>2, <2>3, <2>4, <2>5, NormalStays
  <2>7. NormalOrigins(r)
    BY <2>3, <2>4, <2>5, <2>6 DEF NormalOrigins
  <2> QED
    BY <2>7 DEF r
<1> QED
  BY <1>1, <1>2

\* A service that starts has checked its origins and normalised them.
LEMMA ConfiguredOrigins ==
    ASSUME NEW args, from_args(args).ok
    PROVE  LET c == Override(RawFile(args.config_file), args)
           IN  /\ OriginsOk(c.cors_allow_origin)
               /\ from_args(args).cors_allow_origin =
                      normalize_cors_allow_origins(c.cors_allow_origin)
<1> DEFINE raw == RawFile(args.config_file)
           c == Override(raw, args)
           n == [c EXCEPT !.cors_allow_origin = normalize_cors_allow_origins(@)]
           checks == Checks(args, c)
           failed == {i \in DOMAIN checks : checks[i].fails}
<1>1. failed = {}
  BY DEF from_args
<1>2. from_args(args) = Over([ok |-> TRUE, transport |-> TransportMode(c)], n)
  BY <1>1 DEF from_args
<1>3. "cors_allow_origin" \in DOMAIN raw /\ DOMAIN c = DOMAIN raw /\ DOMAIN n = DOMAIN c
  BY FileIsComplete, OptionNames DEF Override
<1>4. from_args(args).cors_allow_origin = normalize_cors_allow_origins(c.cors_allow_origin)
  BY <1>2, <1>3 DEF Over
<1>5. OriginsOk(c.cors_allow_origin)
  <2>1. 9 \in DOMAIN checks /\ checks[9].fails = ~OriginsOk(c.cors_allow_origin)
    BY DEF Checks, Check
  <2> HIDE DEF checks, c
  <2> QED
    BY <1>1, <2>1
<1> QED
  BY <1>4, <1>5

\* The origins it starts from are those of its environment, of its file, or
\* none.
LEMMA GivenOrigins ==
    ASSUME NEW c \in Callers, NEW e \in Envs
    PROVE  LET args == CliArgs(FlagsOf(c), e)
           IN  IsOrigins(Override(RawFile(args.config_file), args).cors_allow_origin)
<1> DEFINE args == CliArgs(FlagsOf(c), e)
           file == args.config_file
           raw == RawFile(file)
<1>1. IsOrigins(<<>>)
  BY DEF IsOrigins
<1>2. "cors_allow_origin" \notin DOMAIN FlagsOf(c) /\ "config_file" \notin DOMAIN FlagsOf(c)
  BY DEF FlagsOf
<1>3. /\ "cors_allow_origin" \in DOMAIN NoArgs /\ NoArgs.cors_allow_origin = <<>>
      /\ "config_file" \in DOMAIN NoArgs /\ NoArgs.config_file = None
  BY OptionNames DEF NoArgs, Over
<1>4. IsOrigins(args.cors_allow_origin)
  <2>1. args.cors_allow_origin =
            IF "cors_allow_origin" \in DOMAIN e THEN e.cors_allow_origin ELSE <<>>
    BY <1>2, <1>3 DEF CliArgs, Over
  <2> QED
    BY <1>1, <2>1, EnvsAssumption DEF OriginsIn
<1>5. file \in {None, Bad} \/ OriginsIn(file)
  <2>1. file = IF "config_file" \in DOMAIN e THEN e.config_file ELSE None
    BY <1>2, <1>3 DEF CliArgs, Over
  <2> QED
    BY <2>1, EnvsAssumption
<1>6. RawDefault.cors_allow_origin = <<>> /\ "cors_allow_origin" \in DOMAIN RawDefault
  BY DEF RawDefault
<1>7. IsOrigins(raw.cors_allow_origin)
  BY <1>1, <1>5, <1>6 DEF RawFile, Over, OriginsIn
<1>8. "cors_allow_origin" \in DOMAIN raw /\ "cors_allow_origin" \notin PlainOptions
  BY FileIsComplete, OptionNames
<1> HIDE DEF args, raw
<1>9. Override(raw, args).cors_allow_origin \in {<<>>, args.cors_allow_origin, raw.cors_allow_origin}
  BY <1>8 DEF Override
<1>10. IsOrigins(Override(raw, args).cors_allow_origin)
  BY <1>1, <1>4, <1>7, <1>9
<1> QED
  BY <1>10 DEF args, raw

\* A service runs with origins in their normal form, whatever it was given.
THEOREM OriginsStayNormal == Spec => []OriginsAreNormal
<1>1. ASSUME Inv PROVE OriginsAreNormal
  <2> SUFFICES ASSUME NEW c \in Callers, runner[c] = "up"
               PROVE  NormalOrigins(config[c].cors_allow_origin)
    BY DEF OriginsAreNormal, NormalOrigins
  <2>1. PICK e \in Envs : ConfigOf(c, e).ok /\ config[c] = ConfigOf(c, e)
    BY <1>1 DEF Inv, TypeOK, RunsInv, ConfiguredByCaller
  <2> DEFINE args == CliArgs(FlagsOf(c), e)
             os == Override(RawFile(args.config_file), args).cors_allow_origin
  <2>2. from_args(args).ok /\ config[c] = from_args(args)
    BY <2>1 DEF ConfigOf
  <2>3. IsOrigins(os)
    BY GivenOrigins
  <2>4. OriginsOk(os) /\ from_args(args).cors_allow_origin = normalize_cors_allow_origins(os)
    <3> HIDE DEF args
    <3> QED
      BY <2>2, ConfiguredOrigins
  <2> HIDE DEF args, os
  <2> QED
    BY <2>2, <2>3, <2>4, OriginsBecomeNormal
<1> QED
  BY <1>1, RunsInvariant, PTL
=============================================================================
