----------------------------- MODULE ServerUnit -----------------------------
(***************************************************************************)
(* The processes that serve hosaka on its port of the home box: the main   *)
(* process of the systemd user unit hosaka-server, and the servers that    *)
(* REPLs spawn.  GpuMode and ReplStart act on this state; HomeBox puts     *)
(* them together.                                                          *)
(*                                                                         *)
(* systemd is external; what is modelled of it is what the unit file asks  *)
(* for: Type=simple (a unit is active as soon as its process is forked)    *)
(* and Restart=on-failure.  Death by SIGTERM and exit status 0 are clean   *)
(* exits to systemd, and no failure.  A start job that meets a stop under  *)
(* way cancels it, and starts the unit once its process has ended; a stop  *)
(* job cancels the starts that wait; jobs of one kind end together.        *)
(* "inactive" includes "failed", which every reader treats alike.          *)
(***************************************************************************)
EXTENDS Naturals, FiniteSets

CONSTANTS
    Repl,        \* the REPL sessions: each may spawn one server
    Script,      \* the runs of gpu_mode.sh, each usable again once it has ended
    MaxCrash     \* bound: failures of a server process

\* A REPL's server and the unit's are different processes.
ASSUME UnitAssumption ==
    /\ "unit" \notin Repl
    /\ Repl \cap Script = {}
    /\ MaxCrash \in Nat

VARIABLES
    unit,        \* ActiveState of hosaka-server, "absent" if not installed
    proc,        \* the unit's main process and each REPL's server
    job,         \* the systemctl job on the unit of each that runs one
    crashes,     \* failures so far
    owed,        \* history: why the unit's server ended, until one serves or a stop is asked for
    starter      \* history: who last started the unit

jobVars == <<job, starter>>
unitVars == <<unit, proc, crashes, owed, jobVars>>

Server == {"unit"} \cup Repl

\* Whoever runs systemctl start or stop.
Client == Script \cup Repl

\* "start" and "stop" wait; "done" and "canceled" are how a job ended.
JobState == {"done", "start", "stop", "canceled"}

\* "loading" covers the imports and the warm-up, before the port is bound;
\* a "closing" server has given the port up and finishes its requests.
ProcState == {"none", "loading", "serving", "closing"}

UnitTypeOK ==
    /\ unit \in {"absent", "inactive", "activating", "active", "deactivating"}
    /\ proc \in [Server -> ProcState]
    /\ job \in [Client -> JobState]
    /\ crashes \in 0..MaxCrash
    /\ owed \in {"nothing", "crash", "watchdog"}
    /\ starter \in {"nobody", "script", "repl"}

\* The unit is installed or it is not.
UnitInit ==
    /\ unit \in {"absent", "inactive"}
    /\ proc = [p \in Server |-> "none"]
    /\ job = [c \in Client |-> "done"]
    /\ crashes = 0
    /\ owed = "nothing"
    /\ starter = "nobody"

Serving == \E p \in Server : proc[p] = "serving"

-----------------------------------------------------------------------------
(* Jobs of systemctl --user                                                *)

\* What becomes of the jobs when c's is mine: the other kind is canceled.
JobsWith(c, mine) ==
    LET other == CASE mine = "start" -> "stop" [] mine = "stop" -> "start" [] OTHER -> "none"
    IN  [d \in Client |-> IF d = c THEN mine
                          ELSE IF job[d] = other THEN "canceled" ELSE job[d]]

\* Who is said to have started the unit: a REPL, if no run did.
StarterOf(clients) == IF clients \cap Script = {} THEN "repl" ELSE "script"

\* systemctl start, up to its wait.
StartUnit(c) ==
    /\ unit # "absent"
    /\ IF unit = "deactivating"
         THEN job' = JobsWith(c, "start") /\ UNCHANGED <<unit, proc, starter>>
         ELSE /\ job' = JobsWith(c, "done")
              /\ unit' = "active"
              /\ proc' = [proc EXCEPT !["unit"] = IF unit = "active" THEN @ ELSE "loading"]
              /\ starter' = IF unit = "active" THEN starter ELSE StarterOf({c})
    /\ UNCHANGED <<crashes, owed>>

\* systemctl stop, up to its wait: SIGTERM to the main process; a pending
\* restart is dropped.
StopUnit(c) ==
    /\ unit # "absent"
    /\ IF unit \in {"active", "deactivating"}
         THEN unit' = "deactivating" /\ job' = JobsWith(c, "stop")
         ELSE unit' = "inactive" /\ job' = JobsWith(c, "done")
    /\ proc' = [proc EXCEPT !["unit"] = IF @ = "none" THEN @ ELSE "closing"]
    /\ owed' = "nothing"
    /\ UNCHANGED <<crashes, starter>>

\* systemctl returns, whatever became of its job.
ForgetJob(c) ==
    /\ job' = [job EXCEPT ![c] = "done"]
    /\ UNCHANGED <<unit, proc, crashes, owed, starter>>

\* RestartSec after a failure.
AutoRestart ==
    /\ unit = "activating"
    /\ unit' = "active"
    /\ proc' = [proc EXCEPT !["unit"] = "loading"]
    /\ UNCHANGED <<crashes, owed, jobVars>>

-----------------------------------------------------------------------------
(* A server process                                                        *)

\* A fault: the unit file has no Restart= line.
NeverRestarts(clean) == "inactive"

\* Restart=on-failure.
AfterExit(clean) == IF clean THEN "inactive" ELSE "activating"

\* Those whose job is of this kind.
With(kind) == {c \in Client : job[c] = kind}

\* Their jobs are done.
Finish(kind) == job' = [c \in Client |-> IF job[c] = kind THEN "done" ELSE job[c]]

\* The process is gone.
Exit(p, clean) ==
    IF p # "unit"
      THEN /\ proc' = [proc EXCEPT ![p] = "none"]
           /\ UNCHANGED <<unit, jobVars>>
    ELSE IF With("start") # {}
      THEN /\ proc' = [proc EXCEPT ![p] = "loading"]
           /\ unit' = "active"
           /\ starter' = StarterOf(With("start"))
           /\ Finish("start")
    ELSE /\ proc' = [proc EXCEPT ![p] = "none"]
         /\ unit' = IF unit = "deactivating" THEN "inactive" ELSE AfterExit(clean)
         /\ Finish("stop")
         /\ UNCHANGED starter

\* Models are loaded and warm; the port is free.
Bind(p) ==
    /\ proc[p] = "loading"
    /\ ~Serving
    /\ proc' = [proc EXCEPT ![p] = "serving"]
    /\ owed' = "nothing"
    /\ UNCHANGED <<unit, crashes, jobVars>>

\* ... or it is taken: uvicorn exits with status 1.
BindFails(p) ==
    /\ proc[p] = "loading"
    /\ Serving
    /\ Exit(p, FALSE)
    /\ UNCHANGED <<crashes, owed>>

\* A server fails: killed for memory, an exception that ends it.
Crash(p) ==
    /\ crashes < MaxCrash
    /\ proc[p] # "none"
    /\ Exit(p, FALSE)
    /\ crashes' = crashes + 1
    /\ owed' = IF p = "unit" /\ unit = "active" /\ proc[p] # "closing" THEN "crash" ELSE owed

\* _do_shutdown() by the watchdog or on a fatal CUDA error.
GiveUpGpu(p) ==
    /\ proc[p] = "serving"
    /\ proc' = [proc EXCEPT ![p] = "closing"]
    /\ owed' = IF p = "unit" THEN "watchdog" ELSE owed
    /\ UNCHANGED <<unit, crashes, jobVars>>

\* _do_shutdown() by POST /shutdown, which reaches whoever has the port.
Shutdown(p) ==
    /\ proc[p] = "serving"
    /\ proc' = [proc EXCEPT ![p] = "closing"]
    /\ UNCHANGED <<unit, crashes, owed, jobVars>>

\* The requests are finished; the process ends by the SIGTERM it was sent.
Close(p) ==
    /\ proc[p] = "closing"
    /\ Exit(p, TRUE)
    /\ UNCHANGED <<crashes, owed>>

ServerStep(p) == Bind(p) \/ BindFails(p) \/ Close(p)
=============================================================================
