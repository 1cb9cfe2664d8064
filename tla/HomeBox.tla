------------------------------ MODULE HomeBox ------------------------------
(***************************************************************************)
(* The home box: the server unit with its watchdog and its crashes, the    *)
(* runs of the gpu-mode script that stop and start it against ollama, and  *)
(* the REPLs that look for a server, all at once.                          *)
(***************************************************************************)
EXTENDS GpuMode, ReplStart

CONSTANT
    MaxRacing    \* bound: the REPLs that start, and one for runs that overlap

ASSUME BoxAssumption == MaxRacing \in Nat

vars == <<unitVars, modeVars, repl>>

TypeOK == UnitTypeOK /\ ModeTypeOK /\ ReplTypeOK

Init == UnitInit /\ ModeInit /\ ReplInit

\* The bound: another REPL may start, or runs begin to overlap.
MayRace ==
    Cardinality({r \in Repl : repl[r] # "off"}) + (IF tangled = "no" THEN 0 ELSE 1) < MaxRacing

ServerNext ==
    /\ \/ AutoRestart
       \/ \E p \in Server : ServerStep(p) \/ Crash(p) \/ GiveUpGpu(p)
    /\ UNCHANGED <<modeVars, repl>>

ScriptNext ==
    /\ \E s \in Script :
         \/ /\ (\E t \in Script : step[t] # "off") => tangled # "no" \/ MayRace
            /\ \E v \in Verb : RunScript(s, v)
         \/ ScriptStep(s)
    /\ UNCHANGED repl

ReplNext ==
    /\ \E r \in Repl : (MayRace /\ Probe(r)) \/ Ensure(r) \/ Quit(r) \/ QuitStop(r)
    /\ UNCHANGED modeVars

Next == ServerNext \/ ScriptNext \/ ReplNext

(***************************************************************************)
(* A server process goes on (SpeechServer says when a closing one ends),   *)
(* systemd restarts after its delay, and a script or a REPL once started   *)
(* goes on.  Nobody has to run, quit or crash anything.                    *)
(***************************************************************************)
Fairness ==
    /\ \A p \in Server : WF_vars(ServerStep(p) /\ UNCHANGED <<modeVars, repl>>)
    /\ WF_vars(AutoRestart /\ UNCHANGED <<modeVars, repl>>)
    /\ \A s \in Script : WF_vars(ScriptStep(s) /\ UNCHANGED repl)
    /\ \A r \in Repl : WF_vars(Ensure(r) /\ UNCHANGED modeVars)

Spec == Init /\ [][Next]_vars /\ Fairness

-----------------------------------------------------------------------------
(***************************************************************************)
(* The GPU has one tenant, with two exceptions the code has: a REPL that   *)
(* starts the unit asks nobody, and runs of gpu_mode.sh that overlap may   *)
(* leave ollama and the server up together (two_switches shows it).  What  *)
(* they leave is cleared by the next run that has the box to itself, as    *)
(* soon as its own stop is through, although servers crash, restart and    *)
(* are stopped in mid-switch.                                              *)
(***************************************************************************)
OneTenant ==
    ollama /\ proc["unit"] # "none" => starter = "repl" \/ tangled # "no"

\* "mixed (both services up) is an invariant violation": no switch leaves it.
NeverMixed ==
    (\A s \in Script : step[s] = "off") => StatusOf(ollama, HosakaActive) # "mixed"

(***************************************************************************)
(* A REPL's own server never exists beside an installed unit, whatever the *)
(* unit goes through between the REPL's look and its decision: the unit    *)
(* never finds its port taken.                                             *)
(***************************************************************************)
SpawnOnlyWithoutUnit ==
    unit # "absent" => \A r \in Repl : proc[r] = "none"

\* Every REPL that is started gets to its prompt or to an error.
ReplIsAnswered ==
    \A r \in Repl : repl[r] = "ask" ~> repl[r] \in {"ready", "raised"}

\* A switch of the mode comes to its end, whatever other switches do to it.
SwitchEnds ==
    \A s \in Script : step[s] # "off" ~> step[s] = "off"

\* A server of the unit that fails is replaced, unless somebody stops the unit.
CrashIsRepaired ==
    owed = "crash" ~> owed # "crash"

\* "The only clean recovery is to exit and let systemd respawn."
WatchdogIsRepaired ==
    owed = "watchdog" ~> owed # "watchdog"
=============================================================================
