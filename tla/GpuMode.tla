------------------------------ MODULE GpuMode ------------------------------
(***************************************************************************)
(* The GPU-mode arbiter: scripts/gpu_mode.sh and the service that runs it  *)
(* (hosaka/server/main_gpu_mode.py).  Every POST /homo, /emo or /idle, and *)
(* every call of the shell wrappers, is a run of the script: it reads the  *)
(* status of the two units, one systemctl after the other, stops if the    *)
(* mode is there already, and otherwise runs two systemctl commands.  The  *)
(* service's handlers are plain functions in a thread pool: runs overlap.  *)
(* The status the service reads for its answer once a run has ended reads  *)
(* and changes nothing else, and is left out.                              *)
(***************************************************************************)
EXTENDS ServerUnit

VARIABLES
    ollama,      \* the system unit ollama is active
    step,        \* each run: what it does next
    verb,        \* its argument, "idle" between runs
    sawOllama,   \* what its status() read of ollama, FALSE outside of it
    tangled      \* history: whether runs have overlapped, see Untangled

modeVars == <<ollama, step, verb, sawOllama, tangled>>

Verb == {"homo", "emo", "idle"}

\* status() is "ollama" then "hosaka"; "first" and "second" are the verb's
\* commands, "stopping" and "starting" wait for systemctl to return.
Step == {"off", "ollama", "hosaka", "first", "stopping", "second", "starting"}

ModeTypeOK ==
    /\ ollama \in BOOLEAN
    /\ step \in [Script -> Step]
    /\ verb \in [Script -> Verb]
    /\ sawOllama \in [Script -> BOOLEAN]
    /\ tangled \in {"no", "now", "left"}

ModeInit ==
    /\ ollama = FALSE
    /\ step = [s \in Script |-> "off"]
    /\ verb = [s \in Script |-> "idle"]
    /\ sawOllama = [s \in Script |-> FALSE]
    /\ tangled = "no"

HosakaActive == unit = "active"

\* What status() prints.
StatusOf(o, h) ==
    CASE h /\ ~o -> "homo"
      [] o /\ ~h -> "emo"
      [] ~o /\ ~h -> "idle"
      [] OTHER -> "mixed"

StepTo(s, next) ==
    /\ step' = [step EXCEPT ![s] = next]
    /\ UNCHANGED <<verb, sawOllama>>

\* The run ends.
End(s) ==
    /\ step' = [step EXCEPT ![s] = "off"]
    /\ verb' = [verb EXCEPT ![s] = "idle"]
    /\ sawOllama' = [sawOllama EXCEPT ![s] = FALSE]

\* A run that no other has overlapped has stopped what it stops first: from
\* here on nothing is left of runs that did overlap.
Untangled == tangled' = IF tangled = "now" THEN "now" ELSE "no"

-----------------------------------------------------------------------------
\* A POST or a shell wrapper; the service is installed with the unit.
RunScript(s, v) ==
    /\ unit # "absent"
    /\ step[s] = "off"
    /\ step' = [step EXCEPT ![s] = "ollama"]
    /\ verb' = [verb EXCEPT ![s] = v]
    /\ tangled' = IF \E t \in Script : step[t] # "off" THEN "now"
                  ELSE IF tangled = "no" THEN "no" ELSE "left"
    /\ UNCHANGED <<unitVars, ollama, sawOllama>>

\* ollama_active
ReadOllama(s) ==
    /\ step[s] = "ollama"
    /\ step' = [step EXCEPT ![s] = "hosaka"]
    /\ sawOllama' = [sawOllama EXCEPT ![s] = ollama]
    /\ UNCHANGED <<unitVars, ollama, verb, tangled>>

\* hosaka_active, and the early exit of a verb that has nothing to do.
ReadHosaka(s) ==
    /\ step[s] = "hosaka"
    /\ IF StatusOf(sawOllama[s], HosakaActive) = verb[s]
         THEN End(s)
         ELSE /\ step' = [step EXCEPT ![s] = "first"]
              /\ sawOllama' = [sawOllama EXCEPT ![s] = FALSE]
              /\ UNCHANGED verb
    /\ UNCHANGED <<unitVars, ollama, tangled>>

\* The first command of homo and the second of idle.
StopOllama(s) ==
    /\ \/ step[s] = "first" /\ verb[s] = "homo" /\ StepTo(s, "second") /\ Untangled
       \/ step[s] = "second" /\ verb[s] = "idle" /\ End(s) /\ UNCHANGED tangled
    /\ ollama' = FALSE
    /\ UNCHANGED unitVars

StartOllama(s) ==
    /\ step[s] = "second"
    /\ verb[s] = "emo"
    /\ ollama' = TRUE
    /\ End(s)
    /\ UNCHANGED <<unitVars, tangled>>

StopHosaka(s) ==
    /\ step[s] = "first"
    /\ verb[s] \in {"emo", "idle"}
    /\ StopUnit(s)
    /\ StepTo(s, "stopping")
    /\ UNCHANGED <<ollama, tangled>>

\* A fault: systemctl stop --no-block.
StoppedAtOnce(s) ==
    /\ step[s] = "stopping"
    /\ StepTo(s, "second")
    /\ Untangled
    /\ UNCHANGED <<unitVars, ollama>>

\* A fault: the run waits for the unit to be inactive.
StoppedIfDone(s) ==
    /\ step[s] = "stopping"
    /\ job[s] = "done"
    /\ StepTo(s, "second")
    /\ Untangled
    /\ UNCHANGED <<unitVars, ollama>>

\* systemctl stop returns; canceled, it fails and set -e ends the run.
Stopped(s) ==
    /\ step[s] = "stopping"
    /\ \/ job[s] = "done" /\ StepTo(s, "second") /\ Untangled
       \/ job[s] = "canceled" /\ End(s) /\ UNCHANGED tangled
    /\ ForgetJob(s)
    /\ UNCHANGED ollama

StartHosaka(s) ==
    /\ step[s] = "second"
    /\ verb[s] = "homo"
    /\ StartUnit(s)
    /\ StepTo(s, "starting")
    /\ UNCHANGED <<ollama, tangled>>

\* systemctl start returns; canceled or not, the run is over.
Started(s) ==
    /\ step[s] = "starting"
    /\ job[s] \in {"done", "canceled"}
    /\ End(s)
    /\ ForgetJob(s)
    /\ UNCHANGED <<ollama, tangled>>

ScriptStep(s) ==
    \/ ReadOllama(s) \/ ReadHosaka(s)
    \/ StopOllama(s) \/ StartOllama(s)
    \/ StopHosaka(s) \/ Stopped(s) \/ StartHosaka(s) \/ Started(s)
=============================================================================
