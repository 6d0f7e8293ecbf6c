------------------------ MODULE ProverRunsInvariant ------------------------
(***************************************************************************)
(* The inductive invariant behind the safety properties of ProverRuns.     *)
(* One part follows a caller and the runner it has started, the other the  *)
(* stream of a prove request and what its script leaves behind.            *)
(***************************************************************************)
EXTENDS ProverRuns

\* A runner is up with a configuration made from its caller's flags.
ConfiguredByCaller ==
    /\ config \in [Callers -> {None} \cup {ConfigOf(c, e) : c \in Callers, e \in Envs}]
    /\ \A c \in Callers : config[c] # None =>
           \E e \in Envs : ConfigOf(c, e).ok /\ config[c] = ConfigOf(c, e)

ScriptPcs == {"idle", "fetch", "build", "launch", "probe", "ask", "wait", "save", "facts",
              "cleanup", "exited"}
ArtifactPcs == {"idle", "probe", "ask", "wait"} \cup CallEnded

\* Where a caller may have a runner that lives.
MayHaveRunner(c) ==
    \/ pc[c] \in {"probe", "ask", "wait", "save", "facts", "cleanup"}
    \/ c \in Artifacts /\ pc[c] = "failed"

\* A caller keeps to its program, has an attempt left while it probes, and
\* has no runner before it starts one or after it has killed it.
CallInv(c) ==
    /\ c \in Scripts => pc[c] \in ScriptPcs
    /\ c \in Artifacts => pc[c] \in ArtifactPcs
    /\ pc[c] \in {"idle", "fetch"} => tries[c] = 0
    /\ pc[c] = "build" => tries[c] <= PipeSize
    /\ pc[c] = "probe" => tries[c] < MaxTries
    /\ pc[c] = "wait" => work[c] \in Callers
    /\ runner[c] \in Alive => MayHaveRunner(c)

\* Nothing is left in the pipes of s, and nobody can write to them.
Quiet(s) ==
    /\ pc[s] \in {"idle", "exited"} /\ runner[s] \notin Alive
    /\ pipe[s]["out"] = 0 /\ pipe[s]["err"] = 0

\* An outcome fits the session and the run of s.
Fits(s, outcome) ==
    /\ outcome = "complete" => recorded[SessionOf[s]] = TRUE
    /\ outcome = "error" => "proof" \notin files[s]

\* The outcome is settled when the script is gone, and what that script has
\* written does not change after that.
TaskInv(s) ==
    /\ task[s] \in {"idle", "starting"} => pc[s] = "idle"
    /\ pc[s] = "idle" => Quiet(s) /\ files[s] = {}
    /\ task[s] \in Outcomes \cup {"ended"} => Quiet(s) /\ Fits(s, task[s])

\* An outcome is sent once, by a task that ends with it, behind all logs.
EventInv(s) ==
    /\ \A i \in 1..Len(chan[s]) : chan[s][i] \in Outcomes =>
           task[s] = "ended" /\ i = Len(chan[s]) /\ Fits(s, chan[s][i])
    /\ seen[s] \in Outcomes =>
           task[s] = "ended" /\ chan[s] = <<>> /\ Fits(s, seen[s])

\* The parts are inductive together with TypeOK.
RunsInv ==
    /\ ConfiguredByCaller
    /\ DOMAIN chan = Scripts
    /\ \A c \in Callers : CallInv(c)
    /\ \A s \in Scripts : TaskInv(s) /\ EventInv(s)
=============================================================================
