----------------------------- MODULE ReplStart -----------------------------
(***************************************************************************)
(* How a REPL gets a server: _ensure_server() of hosaka/cli/repl.py.  It   *)
(* probes /health, asks systemd about the unit, and attaches, waits,       *)
(* starts the unit, or spawns a server of its own; other REPLs, systemd    *)
(* and the gpu-mode script act between any two of these steps.             *)
(***************************************************************************)
EXTENDS ServerUnit

CONSTANT
    SystemctlAnswers   \* FALSE: `systemctl --user show` may fail or time out

ASSUME ReplAssumption == SystemctlAnswers \in BOOLEAN

VARIABLE
    repl         \* each REPL

\* "off"; "ask": _server_up() was FALSE; the actions of _startup_action;
\* "ready": main() goes on; "raised": an exception; "done": the session is over.
ReplState == {"off", "ask", "spawn", "start_unit", "starting", "wait", "ready", "raised", "done"}

ReplTypeOK == repl \in [Repl -> ReplState]

ReplInit == repl = [r \in Repl |-> "off"]

ReplTo(r, s) == repl' = [repl EXCEPT ![r] = s]

\* _UNIT_PROVIDING
UnitProviding == {"active", "activating", "reloading", "deactivating"}

\* A fault: a unit in its restart delay counts as stopped, for the spawn.
StartupActionOnlyActive(serverUp, state) ==
    IF serverUp THEN "ready"
    ELSE IF state = "active" THEN "wait"
    ELSE IF state = "inactive" THEN "start_unit" ELSE "spawn"

\* _startup_action: "absent" is a LoadState other than "loaded".
StartupAction(serverUp, state) ==
    IF serverUp THEN "ready"
    ELSE IF state = "absent" THEN "spawn"
    ELSE IF state \in UnitProviding THEN "wait" ELSE "start_unit"

-----------------------------------------------------------------------------
\* main() starts: _server_up().
Probe(r) ==
    /\ repl[r] = "off"
    /\ ReplTo(r, IF Serving THEN "ready" ELSE "ask")
    /\ UNCHANGED unitVars

\* _unit_info() and the decision; a failed systemctl reads like no unit.
Decide(r) ==
    /\ repl[r] = "ask"
    /\ \E state \in {unit} \cup (IF SystemctlAnswers THEN {} ELSE {"absent"}) :
          ReplTo(r, StartupAction(FALSE, state))
    /\ UNCHANGED unitVars

\* _spawn_server(), up to its wait.
SpawnServer(r) ==
    /\ repl[r] = "spawn"
    /\ proc' = [proc EXCEPT ![r] = "loading"]
    /\ ReplTo(r, "wait")
    /\ UNCHANGED <<unit, crashes, owed, jobVars>>

\* _start_unit(); reset-failed changes nothing that is modelled.
StartUnitByRepl(r) ==
    /\ repl[r] = "start_unit"
    /\ StartUnit(r)
    /\ ReplTo(r, "starting")

\* systemctl start returns, whether it failed or not.
StartedByRepl(r) ==
    /\ repl[r] = "starting"
    /\ job[r] # "start"
    /\ ForgetJob(r)
    /\ ReplTo(r, "wait")

\* It does not within its 10 s: TimeoutExpired; the job stays queued.
StartTimesOut(r) ==
    /\ repl[r] = "starting"
    /\ job[r] = "start"
    /\ ReplTo(r, "raised")
    /\ UNCHANGED unitVars

\* A fault: the wait has no deadline.
WaitForever(r) ==
    /\ repl[r] = "wait"
    /\ Serving
    /\ ReplTo(r, "ready")
    /\ UNCHANGED unitVars

\* _wait_healthy(): a probe answers, or the deadline passes.
Wait(r) ==
    /\ repl[r] = "wait"
    /\ ReplTo(r, IF Serving THEN "ready" ELSE "raised")
    /\ UNCHANGED unitVars

\* ^D, or the end by the exception.  A spawned server stays.
Quit(r) ==
    /\ repl[r] \in {"ready", "raised"}
    /\ ReplTo(r, "done")
    /\ UNCHANGED unitVars

\* :quit --stop
QuitStop(r) ==
    /\ repl[r] = "ready"
    /\ \E p \in Server : Shutdown(p)
    /\ ReplTo(r, "done")

\* What a REPL does once it is started, up to "ready" or "raised".
Ensure(r) ==
    \/ Decide(r)
    \/ SpawnServer(r)
    \/ StartUnitByRepl(r) \/ StartedByRepl(r) \/ StartTimesOut(r)
    \/ Wait(r)
=============================================================================
