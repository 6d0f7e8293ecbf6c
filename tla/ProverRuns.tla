----------------------------- MODULE ProverRuns -----------------------------
(***************************************************************************)
(* Everything between a caller that wants a proof and the runner process   *)
(* that makes it: the task of GET /api/prove with its script and its event *)
(* stream (snip36-server/src/routes/prove.rs, scripts/run-virtual-os.sh),  *)
(* and the native provider of the artifact crate (snip36-artifact/src/     *)
(* lib.rs).  Each caller starts a runner of its own, on one port, and asks *)
(* whatever answers there.  The processes are joined by pipes and a        *)
(* channel of limited size.                                                *)
(***************************************************************************)
EXTENDS ServiceConfig

CONSTANTS
    Scripts,    \* prove requests, each with its script and its client
    SessionOf,  \* SessionOf[s]: the session the request is for
    Artifacts,  \* calls of prove_artifact_with_virtual_os without a prover_url
    Envs,       \* environments of the server and of what it starts
    MaxTries,   \* readiness attempts (30 in the code)
    PipeSize,   \* lines a pipe holds (64 KiB in the code)
    ChanSize    \* events the channel of a stream holds (64 in the code)

Callers == Scripts \cup Artifacts
Sessions == {SessionOf[s] : s \in Scripts}

ASSUME RunsAssumption ==
    /\ Scripts \cap Artifacts = {} /\ None \notin Callers
    /\ MaxTries \in Nat \ {0} /\ PipeSize \in Nat \ {0} /\ ChanSize \in Nat \ {0}

VARIABLES
    pc,        \* pc[c]: where the script or the call of c stands
    tries,     \* tries[c]: readiness attempts made, or lines cargo has printed
    runner,    \* runner[c]: the runner process c has started
    config,    \* config[c]: the configuration that process runs with
    port,      \* the caller whose runner listens on the port, or None
    work,      \* work[c]: whose runner has the request of c
    reply,     \* reply[c]: how far that runner is with it
    pipe,      \* pipe[c]: unread lines of the stdout and stderr of c's process
    chan,      \* chan[s]: the channel of s's stream
    client,    \* client[s]: is the browser still there
    seen,      \* seen[s]: the last event it received
    task,      \* task[s]: the server's task
    files,     \* files[s]: which files of its session the script has written
    recorded   \* recorded[n]: proof_file of session n is set

runnerVars == <<runner, config, port>>
callVars == <<pc, tries, work, reply>>
streamVars == <<chan, client, seen, task, recorded>>
vars == <<runnerVars, callVars, pipe, streamVars, files>>

Alive == {"starting", "up"}
Outcomes == {"complete", "error"}
CallEnded == {"done", "refused", "failed"}

\* What tries counts up to: readiness attempts, or the lines of a build.
MaxCount == Max({MaxTries, PipeSize + 1})

CallTypes ==
    /\ pc \in [Callers -> {"idle", "fetch", "build", "launch", "probe", "ask", "wait",
                           "save", "facts", "cleanup", "exited"} \cup CallEnded]
    /\ tries \in [Callers -> 0..MaxCount]
    /\ runner \in [Callers -> {"none", "dead"} \cup Alive]
    /\ port \in Callers \cup {None}
    /\ work \in [Callers -> Callers \cup {None}]
    /\ reply \in [Callers -> {"none", "started", "result", "error"}]
    /\ pipe \in [Callers -> [{"out", "err"} -> 0..PipeSize]]
    /\ files \in [Scripts -> SUBSET {"proof", "facts"}]

StreamTypes ==
    /\ \A s \in Scripts : chan[s] \in Seq({"log"} \cup Outcomes) /\ Len(chan[s]) <= ChanSize
    /\ client \in [Scripts -> {"here", "gone"}]
    /\ seen \in [Scripts -> {"none", "log"} \cup Outcomes]
    /\ task \in [Scripts -> {"idle", "starting", "reading", "ended"} \cup Outcomes]
    /\ recorded \in [Sessions -> BOOLEAN]

TypeOK ==
    /\ CallTypes /\ StreamTypes
    /\ \A c \in Callers : runner[c] = "up" <=> config[c] # None

\* A session may have the proof of an earlier run.
Init ==
    /\ pc = [c \in Callers |-> "idle"]
    /\ tries = [c \in Callers |-> 0]
    /\ runner = [c \in Callers |-> "none"]
    /\ config = [c \in Callers |-> None]
    /\ port = None
    /\ work = [c \in Callers |-> None]
    /\ reply = [c \in Callers |-> "none"]
    /\ pipe = [c \in Callers |-> [p \in {"out", "err"} |-> 0]]
    /\ chan = [s \in Scripts |-> <<>>]
    /\ client = [s \in Scripts |-> "here"]
    /\ seen = [s \in Scripts |-> "none"]
    /\ task = [s \in Scripts |-> "idle"]
    /\ files = [s \in Scripts |-> {}]
    /\ recorded \in [Sessions -> BOOLEAN]

-----------------------------------------------------------------------------
(* The runner process *)

\* The flags each caller gives its runner.
FlagsOf(c) ==
    IF c \in Scripts
    THEN [rpc_node_url |-> "node", chain_id |-> "SN_SEPOLIA", port |-> 9900,
          ip |-> "127.0.0.1", prefetch_state |-> FALSE, strk_fee_token_address |-> "STRK"]
    ELSE [rpc_node_url |-> "node", chain_id |-> "artifact", port |-> 9900,
          ip |-> "127.0.0.1", skip_fee_field_validation |-> TRUE,
          strk_fee_token_address |-> "artifact"]

ConfigOf(c, e) == from_args(CliArgs(FlagsOf(c), e))

\* None is no value of a flag and no configuration.
ASSUME FlagsAssumption ==
    \A c \in Callers :
        /\ \A f \in DOMAIN FlagsOf(c) : FlagsOf(c)[f] # None
        /\ \A e \in Envs : ConfigOf(c, e) # None

OriginsIn(r) == "cors_allow_origin" \in DOMAIN r => IsOrigins(r.cors_allow_origin)

\* The lists of origins of an environment and of its file hold origins.
ASSUME EnvsAssumption ==
    \A e \in Envs :
        /\ OriginsIn(e)
        /\ "config_file" \in DOMAIN e /\ e.config_file \notin {None, Bad} =>
               OriginsIn(e.config_file)

\* Both callers speak plain HTTP.
Reachable == port # None /\ config[port].transport = "Http"

\* main: the configuration is read and the port bound ...
RunnerBinds(c) ==
    /\ runner[c] = "starting"
    /\ \E e \in Envs :
         /\ ConfigOf(c, e).ok /\ port = None
         /\ config' = [config EXCEPT ![c] = ConfigOf(c, e)]
    /\ runner' = [runner EXCEPT ![c] = "up"]
    /\ port' = c
    /\ UNCHANGED <<callVars, pipe, streamVars, files>>

\* ... or the process ends.
RunnerGivesUp(c) ==
    /\ runner[c] = "starting"
    /\ \E e \in Envs : ~ConfigOf(c, e).ok \/ port # None
    /\ runner' = [runner EXCEPT ![c] = "dead"]
    /\ UNCHANGED <<config, port, callVars, pipe, streamVars, files>>

\* A process that is gone has left its port.
Dead(c) ==
    /\ runner' = [runner EXCEPT ![c] = IF @ \in Alive THEN "dead" ELSE @]
    /\ config' = [config EXCEPT ![c] = None]
    /\ port' = IF port = c THEN None ELSE port

RunnerCrashes(c) ==
    /\ runner[c] = "up"
    /\ Dead(c)
    /\ UNCHANGED <<callVars, pipe, streamVars, files>>

\* A write blocks while the pipe is full.  Nobody reads the stdout of an
\* artifact's runner; once the call has returned, the pipe is closed and
\* lines are lost without blocking.
CanWrite(c, p) == pc[c] = "failed" \/ pipe[c][p] < PipeSize

WriteLine(c, p) ==
    /\ CanWrite(c, p)
    /\ pipe' = IF pc[c] = "failed" THEN pipe ELSE [pipe EXCEPT ![c][p] = @ + 1]

\* The runner logs a line when it takes a request up and when it is done.
Serve(c, from, to) ==
    /\ pc[c] = "wait" /\ reply[c] = from
    /\ runner[work[c]] = "up"
    /\ WriteLine(work[c], "out")
    /\ reply' = [reply EXCEPT ![c] = to]
    /\ UNCHANGED <<runnerVars, pc, tries, work, streamVars, files>>

RunnerServes(c) == \/ Serve(c, "none", "started")
                   \/ \E r \in {"result", "error"} : Serve(c, "started", r)

-----------------------------------------------------------------------------
(* The request, common to both callers *)

Goto(c, to) == pc' = [pc EXCEPT ![c] = to]

\* The script prints, the artifact crate does not.
Echo(c) == IF c \in Scripts THEN WriteLine(c, "out") ELSE UNCHANGED pipe

\* Where a caller goes on when it gets no answer: bash leaves through its
\* trap, the artifact's call returns at once.
GiveUp(c) == Goto(c, IF c \in Scripts THEN "cleanup" ELSE "failed")

\* Anything that answers on the port counts as ready.  A probe has no time
\* limit: a runner that listens and does not answer, because its stdout is
\* full or it hangs, keeps the caller here.
ProbeSucceeds(c) ==
    /\ pc[c] = "probe" /\ Reachable
    /\ Goto(c, "ask")
    /\ Echo(c)
    /\ UNCHANGED <<runnerVars, tries, work, reply, streamVars, files>>

\* Only then is the caller's own runner looked at.  After the last attempt
\* the request is made all the same.
ProbeFails(c) ==
    /\ pc[c] = "probe" /\ ~Reachable
    /\ IF runner[c] = "dead"
       THEN GiveUp(c) /\ Echo(c) /\ UNCHANGED tries
       ELSE /\ tries' = [tries EXCEPT ![c] = @ + 1]
            /\ IF tries[c] + 1 = MaxTries THEN Goto(c, "ask") /\ Echo(c)
                                          ELSE UNCHANGED <<pc, pipe>>
    /\ UNCHANGED <<runnerVars, work, reply, streamVars, files>>

\* The readiness loop is over, and its count with it.
Ask(c) ==
    /\ pc[c] = "ask"
    /\ IF Reachable THEN Goto(c, "wait") /\ work' = [work EXCEPT ![c] = port]
                    ELSE GiveUp(c) /\ UNCHANGED work
    /\ tries' = [tries EXCEPT ![c] = 0]
    /\ UNCHANGED <<runnerVars, reply, pipe, streamVars, files>>

\* Mutant of Expired: the request has no deadline.
ExpiredNever(c) == runner[work[c]] # "up"

\* The request breaks off, 600 seconds pass, or the answer is no JSON.
Expired(c) == TRUE

RequestFails(c) ==
    /\ pc[c] = "wait" /\ reply[c] \in {"none", "started"}
    /\ Expired(c)
    /\ GiveUp(c)
    /\ UNCHANGED <<runnerVars, tries, work, reply, pipe, streamVars, files>>

-----------------------------------------------------------------------------
(* prove_artifact_with_virtual_os *)

\* The configuration or the binary may be missing.
ArtifactStarts(a) ==
    /\ pc[a] = "idle"
    /\ \/ Goto(a, "failed") /\ UNCHANGED runner
       \/ Goto(a, "probe") /\ runner' = [runner EXCEPT ![a] = "starting"]
    /\ UNCHANGED <<config, port, tries, work, reply, pipe, streamVars, files>>

\* An error answer is refused, and so is a result that is no bundle.
bundle_from_response(answer) == IF answer = "result" THEN {"done", "refused"} ELSE {"refused"}

\* Mutant of ArtifactAnswered: an error answer returns before the kill.
ArtifactAnsweredErrorFirst(a) ==
    /\ pc[a] = "wait" /\ reply[a] \in {"result", "error"}
    /\ IF reply[a] = "result" THEN Goto(a, "done") /\ Dead(a)
                              ELSE Goto(a, "refused") /\ UNCHANGED runnerVars
    /\ UNCHANGED <<tries, work, reply, pipe, streamVars, files>>

\* The runner is killed, then the answer is looked at.
ArtifactAnswered(a) ==
    /\ pc[a] = "wait" /\ reply[a] \in {"result", "error"}
    /\ Dead(a)
    /\ \E end \in bundle_from_response(reply[a]) : Goto(a, end)
    /\ UNCHANGED <<tries, work, reply, pipe, streamVars, files>>

-----------------------------------------------------------------------------
(* run-virtual-os.sh, under set -e *)

\* The transaction cannot be fetched, or there is nothing to build from.
ScriptStops(s) ==
    /\ pc[s] = "fetch"
    /\ Goto(s, "exited")
    /\ Echo(s)
    /\ UNCHANGED <<runnerVars, tries, work, reply, streamVars, files>>

ScriptFetches(s) ==
    /\ pc[s] = "fetch"
    /\ \E next \in {"build", "launch"} : Goto(s, next)
    /\ Echo(s)
    /\ UNCHANGED <<runnerVars, tries, work, reply, streamVars, files>>

\* cargo writes more to stderr than a pipe holds, and may fail.
ScriptBuilds(s) ==
    /\ pc[s] = "build"
    /\ WriteLine(s, "err")
    /\ tries' = [tries EXCEPT ![s] = @ + 1]
    /\ \/ Goto(s, IF tries[s] = PipeSize THEN "launch" ELSE "build")
       \/ Goto(s, "exited")
    /\ UNCHANGED <<runnerVars, work, reply, streamVars, files>>

ScriptLaunches(s) ==
    /\ pc[s] = "launch"
    /\ runner' = [runner EXCEPT ![s] = "starting"]
    /\ tries' = [tries EXCEPT ![s] = 0]
    /\ Goto(s, "probe")
    /\ Echo(s)
    /\ UNCHANGED <<config, port, work, reply, streamVars, files>>

ScriptAnswered(s) ==
    /\ pc[s] = "wait" /\ reply[s] \in {"result", "error"}
    /\ IF reply[s] = "result" THEN Goto(s, "save") /\ UNCHANGED pipe
                              ELSE Goto(s, "cleanup") /\ Echo(s)
    /\ UNCHANGED <<runnerVars, tries, work, reply, streamVars, files>>

\* Proof first, then facts; a write may fail.
ScriptSaves(s) ==
    \/ /\ pc[s] = "save"
       /\ files' = [files EXCEPT ![s] = @ \cup {"proof"}]
       /\ Goto(s, "facts")
       /\ UNCHANGED <<runnerVars, tries, work, reply, pipe, streamVars>>
    \/ /\ pc[s] = "facts"
       /\ files' = [files EXCEPT ![s] = @ \cup {"facts"}]
       /\ Goto(s, "cleanup")
       /\ Echo(s)
       /\ UNCHANGED <<runnerVars, tries, work, reply, streamVars>>
    \/ /\ pc[s] \in {"save", "facts"}
       /\ Goto(s, "cleanup")
       /\ UNCHANGED <<runnerVars, tries, work, reply, pipe, streamVars, files>>

\* Mutant of ScriptCleansUp: no trap.
ScriptCleansUpNot(s) ==
    /\ pc[s] = "cleanup"
    /\ Goto(s, "exited")
    /\ UNCHANGED <<runnerVars, tries, work, reply, pipe, streamVars, files>>

\* trap cleanup EXIT: kill, and wait for the runner to be gone.
ScriptCleansUp(s) ==
    /\ pc[s] = "cleanup"
    /\ Dead(s)
    /\ Goto(s, "exited")
    /\ UNCHANGED <<tries, work, reply, pipe, streamVars, files>>

-----------------------------------------------------------------------------
(* prove_transaction: the task and its stream *)

\* Mutant of Send: the sender does not wait for room.
SendAtOnce(s, event) ==
    chan' = IF client[s] = "gone" THEN chan ELSE [chan EXCEPT ![s] = Append(@, event)]

\* tx.send(..).await: waits for room, fails at once when nobody listens.
Send(s, event) ==
    /\ client[s] = "gone" \/ Len(chan[s]) < ChanSize
    /\ chan' = IF client[s] = "gone" THEN chan
               ELSE [chan EXCEPT ![s] = Append(@, event)]

TaskStarts(s) ==
    /\ task[s] = "idle"
    /\ Send(s, "log")
    /\ task' = [task EXCEPT ![s] = "starting"]
    /\ UNCHANGED <<runnerVars, callVars, pipe, client, seen, recorded, files>>

\* The block is found and the script spawned, or the task reports an error
\* whatever files there are.
TaskSpawns(s) ==
    /\ task[s] = "starting"
    /\ \/ Goto(s, "fetch") /\ task' = [task EXCEPT ![s] = "reading"]
       \/ UNCHANGED pc /\ task' = [task EXCEPT ![s] = "error"]
    /\ UNCHANGED <<runnerVars, tries, work, reply, pipe, chan, client, seen,
                   recorded, files>>

\* Both pipes stay open until the script and its runner have exited.
PipesClosed(s) == pc[s] = "exited" /\ runner[s] \notin Alive

\* Mutant of MayRead: stderr is read after stdout has ended.
MayReadInTurn(s, p) == p = "out" \/ (PipesClosed(s) /\ pipe[s]["out"] = 0)

\* One task for each pipe.
MayRead(s, p) == TRUE

Forward(s, p) ==
    /\ pipe[s][p] > 0 /\ MayRead(s, p)
    /\ Send(s, "log")
    /\ pipe' = [pipe EXCEPT ![s][p] = @ - 1]
    /\ UNCHANGED <<runnerVars, callVars, client, seen, task, recorded, files>>

\* Mutant of Drained: the task waits for the script only.
DrainedNot(s) == pc[s] = "exited"

\* Both readers have seen the end, then the script is waited for.
Drained(s) == PipesClosed(s) /\ \A p \in {"out", "err"} : pipe[s][p] = 0

\* Mutant of HasProof: the facts file is looked for.
HasProofByFacts(s) ==
    recorded[SessionOf[s]]
    \/ \E t \in Scripts : SessionOf[t] = SessionOf[s] /\ "facts" \in files[t]

\* proof_output.exists(): the runs of a session have one proof file and none
\* removes it, so it may be of this run, of one beside it or of an earlier one.
HasProof(s) ==
    recorded[SessionOf[s]]
    \/ \E t \in Scripts : SessionOf[t] = SessionOf[s] /\ "proof" \in files[t]

\* The exit code of the script is not looked at.
TaskChecks(s) ==
    /\ task[s] = "reading" /\ Drained(s)
    /\ IF HasProof(s)
       THEN /\ recorded' = [recorded EXCEPT ![SessionOf[s]] = TRUE]
            /\ task' = [task EXCEPT ![s] = "complete"]
       ELSE task' = [task EXCEPT ![s] = "error"] /\ UNCHANGED recorded
    /\ UNCHANGED <<runnerVars, callVars, pipe, chan, client, seen, files>>

TaskEnds(s) ==
    /\ task[s] \in Outcomes
    /\ Send(s, task[s])
    /\ task' = [task EXCEPT ![s] = "ended"]
    /\ UNCHANGED <<runnerVars, callVars, pipe, client, seen, recorded, files>>

ClientReads(s) ==
    /\ client[s] = "here" /\ chan[s] # <<>>
    /\ seen' = [seen EXCEPT ![s] = Head(chan[s])]
    /\ chan' = [chan EXCEPT ![s] = Tail(@)]
    /\ UNCHANGED <<runnerVars, callVars, pipe, client, task, recorded, files>>

ClientLeaves(s) ==
    /\ client[s] = "here" /\ task[s] # "idle"
    /\ client' = [client EXCEPT ![s] = "gone"]
    /\ chan' = [chan EXCEPT ![s] = <<>>]
    /\ UNCHANGED <<runnerVars, callVars, pipe, seen, task, recorded, files>>

-----------------------------------------------------------------------------
(* The specification *)

Request(c) == ProbeSucceeds(c) \/ ProbeFails(c) \/ Ask(c) \/ RequestFails(c)

Artifact(a) == ArtifactAnswered(a) \/ Request(a)

Script(s) ==
    \/ ScriptStops(s) \/ ScriptFetches(s) \/ ScriptBuilds(s) \/ ScriptLaunches(s)
    \/ ScriptAnswered(s) \/ ScriptSaves(s) \/ ScriptCleansUp(s) \/ Request(s)

Task(s) == TaskSpawns(s) \/ TaskChecks(s) \/ TaskEnds(s)

Next ==
    \/ \E c \in Callers : \/ RunnerBinds(c) \/ RunnerGivesUp(c) \/ RunnerCrashes(c)
                          \/ RunnerServes(c)
    \/ \E a \in Artifacts : ArtifactStarts(a) \/ Artifact(a)
    \/ \E s \in Scripts : \/ TaskStarts(s) \/ Script(s) \/ Task(s)
                          \/ \E p \in {"out", "err"} : Forward(s, p)
                          \/ ClientReads(s) \/ ClientLeaves(s)

Spec == Init /\ [][Next]_vars

\* Waits that nothing in the code limits: the script's first question to the
\* node, and a probe while somebody listens on the port.
AtCurl(c) == pc[c] = "fetch" \/ (pc[c] = "probe" /\ port # None)

\* A client that is there and reads no more.
Unread(s) == client[s] = "here" /\ Len(chan[s]) = ChanSize

\* Processes and tasks run and the limits of the code expire.  Nobody has to
\* ask, crash, read or hang up, and no runner and no node has to answer.
Fairness ==
    /\ \A a \in Artifacts : WF_vars(Artifact(a) /\ ~AtCurl(a))
    /\ \A s \in Scripts :
         /\ WF_vars(Script(s) /\ ~AtCurl(s))
         /\ WF_vars(TaskChecks(s) \/ TaskEnds(s))
         /\ \A p \in {"out", "err"} : WF_vars(Forward(s, p))

FairSpec == Spec /\ Fairness

-----------------------------------------------------------------------------
(* Properties *)

InProgress(c) == pc[c] \notin {"idle", "exited"} \cup CallEnded

\* A runner that lives belongs to a caller still at work, or to an artifact
\* call that got no answer (lib.rs returns before the kill then).  Scripts
\* and answered calls leave none behind, on any path.
NoStrayRunner ==
    \A c \in Callers : runner[c] \in Alive =>
        InProgress(c) \/ (c \in Artifacts /\ pc[c] = "failed")

\* A call returns and a stream's task comes to its end, whatever happens to
\* runners and pipes, unless it waits for ever where the code sets no limit:
\* for an answer to a probe or from the node, or for its client to read.
\* Script, readers and task never wait for each other, and a runner that
\* is stopped by a full pipe costs its caller the 600 seconds only.
RunsEnd ==
    /\ \A a \in Artifacts : pc[a] = "probe" ~> pc[a] \in CallEnded \/ []AtCurl(a)
    /\ \A s \in Scripts :
           task[s] = "reading" ~> task[s] = "ended" \/ []AtCurl(s) \/ []Unread(s)

\* The outcome is the last event a client sees: every line the script and
\* its runner printed comes before it.
OutcomeIsLast ==
    [][\A s \in Scripts : seen[s] \in Outcomes => seen'[s] = seen[s]]_vars

\* A client that is told "complete" finds a proof recorded in its session
\* (it may be an earlier run's), and a client that is told "error" had a run
\* that saved no proof, wherever its script stopped and whatever other runs
\* of the session did meanwhile.
OutcomeFitsSession ==
    \A s \in Scripts :
        /\ seen[s] = "complete" => recorded[SessionOf[s]]
        /\ seen[s] = "error" => "proof" \notin files[s]

\* What a caller says in flags holds for its runner, whatever environment
\* and configuration file say; an artifact's runner never checks fee fields.
RunnerObeysItsCaller ==
    \A c \in Callers : runner[c] = "up" =>
        /\ \A f \in DOMAIN FlagsOf(c) \cap PlainOptions : config[c][f] = FlagsOf(c)[f]
        /\ c \in Artifacts => ~config[c].validate_zero_fee_fields

\* The origins a service runs with are in their normal form: the wildcard
\* alone, or each origin once, so that normalising again changes nothing.
OriginsAreNormal ==
    \A c \in Callers : runner[c] = "up" =>
        LET o == config[c].cors_allow_origin
        IN  /\ cors_mode(o) = "allowlist" => ~Contains(o, Wildcard)
            /\ \A i, j \in DOMAIN o : o[i] = o[j] => i = j
            /\ normalize_cors_allow_origins(o) = o
=============================================================================
