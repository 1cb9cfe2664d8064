---------------------------- MODULE HomeBox_proofs ----------------------------
(***************************************************************************)
(* Proofs about the home box for any number of REPLs, script runs and      *)
(* crashes: that a REPL's own server never exists beside an installed      *)
(* unit if systemctl answers, and that script runs keep ollama and the     *)
(* server apart, unless they overlap and until one has the box to itself.  *)
(***************************************************************************)
EXTENDS HomeBox, TLAPS

-----------------------------------------------------------------------------
(* The unit, its process and its jobs                                      *)

\* The unit is installed, and neither at rest nor stopped.
UnitUp == unit \in {"active", "activating", "deactivating"}

(***************************************************************************)
(* The unit has a process only while it is active or deactivating; stop    *)
(* and start jobs wait only while it is deactivating, and never both.      *)
(***************************************************************************)
JobsInv ==
    /\ proc["unit"] # "none" => unit \in {"active", "deactivating"}
    /\ \A c \in Client : job[c] \in {"start", "stop"} => unit = "deactivating"
    /\ \A c, d \in Client : ~(job[c] = "start" /\ job[d] = "stop")

UnitInv == UnitTypeOK /\ JobsInv

-----------------------------------------------------------------------------
(* REPLs and their servers                                                 *)

\* No REPL spawns, or has spawned, a server where there is a unit.
SpawnInv ==
    unit # "absent" =>
        \A r \in Repl : proc[r] = "none" /\ repl[r] # "spawn"

-----------------------------------------------------------------------------
(* Script runs                                                             *)

\* Only a homo run starts the unit, and only the others stop it.
RunsInv ==
    \A s \in Script :
        /\ job[s] = "start" => step[s] = "starting"
        /\ step[s] = "starting" => verb[s] = "homo"
        /\ step[s] = "stopping" => verb[s] # "homo"

\* The run has got its stop of the unit through, and has started nothing yet.
Cleared(s) ==
    /\ verb[s] # "homo"
    /\ step[s] = "second" \/ (step[s] = "stopping" /\ job[s] = "done")

(***************************************************************************)
(* Once runs no longer overlap there is one at a time, and from the end of *)
(* its stop to its last command only a REPL has the unit up.  Once such a  *)
(* run has cleared the box, that is so for as long as ollama is active.    *)
(***************************************************************************)
TenantInv ==
    /\ tangled # "now" =>
         /\ \A s, t \in Script : step[s] # "off" /\ step[t] # "off" => s = t
         /\ \A s \in Script : Cleared(s) /\ UnitUp => starter = "repl"
    /\ tangled = "no" =>
         /\ \A s \in Script :
              step[s] \in {"second", "starting"} /\ verb[s] = "homo" => ~ollama
         /\ ollama /\ UnitUp => starter = "repl"

IInv ==
    /\ TypeOK
    /\ JobsInv
    /\ SystemctlAnswers => SpawnInv
    /\ RunsInv
    /\ TenantInv

-----------------------------------------------------------------------------
(* What servers, systemd and REPLs do to the unit                          *)

\* They neither install nor remove it, leave a run's start job to systemd,
\* and get it up only as it was, by a REPL, or by such a job.
Keeps ==
    /\ unit' = "absent" <=> unit = "absent"
    /\ \A s \in Script :
         /\ job'[s] = "start" => job[s] = "start"
         /\ job'[s] = "done" => job[s] \in {"done", "start"} \/ unit' = "inactive"
    /\ UnitUp' => \/ UnitUp /\ starter' = starter
                  \/ starter' = "repl"
                  \/ \E s \in Script : job[s] = "start"

\* No REPL gets a server.
NoNewServer == \A r \in Repl : proc[r] = "none" => proc'[r] = "none"

LEMMA ServerTypes == \A r \in Repl : r \in Server /\ r # "unit"
BY UnitAssumption DEF Server

LEMMA ClientTypes ==
    /\ \A c \in Repl : c \in Client /\ c \notin Script
    /\ \A c \in Script : c \in Client /\ c \notin Repl
BY UnitAssumption DEF Client

\* A client's job cancels those of the other kind and leaves the rest alone.
LEMMA JobsOfOne ==
    ASSUME UnitTypeOK, NEW c \in Client, NEW mine \in {"start", "stop", "done"},
           job' = JobsWith(c, mine)
    PROVE  /\ job' \in [Client -> JobState]
           /\ job'[c] = mine
           /\ \A d \in Client \ {c} : job'[d] \in {job[d], "canceled"}
           /\ mine = "start" => \A d \in Client : job'[d] # "stop"
           /\ mine = "stop" => \A d \in Client : job'[d] # "start"
<1> DEFINE other == CASE mine = "start" -> "stop" [] mine = "stop" -> "start" [] OTHER -> "none"
<1>1. job' = [d \in Client |-> IF d = c THEN mine
                               ELSE IF job[d] = other THEN "canceled" ELSE job[d]]
  BY DEF JobsWith
<1>2. mine = "start" => other = "stop"
  OBVIOUS
<1>3. mine = "stop" => other = "start"
  OBVIOUS
<1> HIDE DEF other
<1>4. job \in [Client -> JobState] /\ mine \in JobState /\ "canceled" \in JobState
  BY DEF UnitTypeOK, JobState
<1>5. job' \in [Client -> JobState]
  BY <1>1, <1>4
<1> QED
  BY <1>1, <1>2, <1>3, <1>5

LEMMA ExitKeeps ==
    ASSUME UnitInv, NEW p \in Server, NEW clean \in BOOLEAN, proc[p] # "none",
           Exit(p, clean)
    PROVE  /\ unit' \in {"absent", "inactive", "activating", "active", "deactivating"}
           /\ proc' \in [Server -> ProcState]
           /\ job' \in [Client -> JobState]
           /\ starter' \in {"nobody", "script", "repl"}
           /\ JobsInv'
           /\ Keeps /\ NoNewServer
<1>1. "none" \in ProcState /\ "loading" \in ProcState /\ "unit" \in Server
  BY DEF ProcState, Server
<1>2. CASE p # "unit"
  <2>1. proc' = [proc EXCEPT ![p] = "none"] /\ UNCHANGED <<unit, job, starter>>
    BY <1>2 DEF Exit, jobVars
  <2>2. proc'["unit"] = proc["unit"]
    BY <2>1, <1>1, <1>2 DEF UnitInv, UnitTypeOK
  <2>3. JobsInv'
    BY <2>1, <2>2 DEF UnitInv, JobsInv
  <2>4. proc' \in [Server -> ProcState]
    BY <1>1, <2>1 DEF UnitInv, UnitTypeOK
  <2>5. NoNewServer
    BY <2>1, ServerTypes DEF UnitInv, UnitTypeOK, NoNewServer
  <2> QED
    BY <2>1, <2>3, <2>4, <2>5 DEF UnitInv, UnitTypeOK, Keeps, UnitUp
<1>3. CASE p = "unit" /\ With("start") # {}
  <2>1. /\ proc' = [proc EXCEPT !["unit"] = "loading"]
        /\ unit' = "active" /\ starter' = StarterOf(With("start"))
        /\ job' = [c \in Client |-> IF job[c] = "start" THEN "done" ELSE job[c]]
    BY <1>3 DEF Exit, Finish
  <2>2. unit = "deactivating" /\ \A c \in Client : job[c] # "stop"
    BY <1>3 DEF UnitInv, JobsInv, With
  <2>3. job' \in [Client -> JobState]
        /\ \A c \in Client : job'[c] \notin {"start", "stop"}
    BY <2>1, <2>2 DEF UnitInv, UnitTypeOK, JobState
  <2>4. JobsInv'
    BY <2>1, <2>3 DEF JobsInv
  <2>5. proc' \in [Server -> ProcState]
    BY <1>1, <2>1 DEF UnitInv, UnitTypeOK
  <2>6. NoNewServer
    BY <2>1, ServerTypes DEF UnitInv, UnitTypeOK, NoNewServer
  <2>7. /\ starter' \in {"script", "repl"}
        /\ starter' = "repl" \/ \E s \in Script : job[s] = "start"
    BY <2>1 DEF StarterOf, With
  <2>8. \A s \in Script : job'[s] = "done" => job[s] \in {"done", "start"}
    BY <2>1, ClientTypes
  <2>9. \A s \in Script : job'[s] # "start"
    BY <2>3, ClientTypes
  <2> QED
    BY <2>1, <2>2, <2>3, <2>4, <2>5, <2>6, <2>7, <2>8, <2>9
    DEF UnitInv, UnitTypeOK, Keeps, UnitUp
<1>4. CASE p = "unit" /\ With("start") = {}
  <2>1. /\ proc' = [proc EXCEPT !["unit"] = "none"]
        /\ unit' = IF unit = "deactivating" THEN "inactive" ELSE AfterExit(clean)
        /\ job' = [c \in Client |-> IF job[c] = "stop" THEN "done" ELSE job[c]]
        /\ starter' = starter
    BY <1>4 DEF Exit, Finish
  <2>2. /\ unit \in {"active", "deactivating"}
        /\ \A c \in Client : job[c] # "start"
        /\ \A c \in Client : job[c] = "stop" => unit = "deactivating"
    BY <1>4 DEF UnitInv, JobsInv, With
  <2>3. unit' \in {"inactive", "activating"} /\ (unit = "deactivating" => unit' = "inactive")
    BY <2>1 DEF AfterExit
  <2>4. proc'["unit"] = "none" /\ proc' \in [Server -> ProcState]
    BY <1>1, <2>1 DEF UnitInv, UnitTypeOK
  <2>5. job' \in [Client -> JobState]
        /\ \A c \in Client : job'[c] \notin {"start", "stop"}
    BY <2>1, <2>2 DEF UnitInv, UnitTypeOK, JobState
  <2>6. JobsInv'
    BY <2>4, <2>5 DEF JobsInv
  <2>7. NoNewServer
    BY <2>1, ServerTypes DEF UnitInv, UnitTypeOK, NoNewServer
  <2>8. \A s \in Script : job'[s] = "done" => job[s] = "done" \/ unit' = "inactive"
    BY <2>1, <2>2, <2>3, ClientTypes
  <2>9. \A s \in Script : job'[s] # "start"
    BY <2>5, ClientTypes
  <2> QED
    BY <2>1, <2>2, <2>3, <2>4, <2>5, <2>6, <2>7, <2>8, <2>9
    DEF UnitInv, UnitTypeOK, Keeps, UnitUp
<1> QED
  BY <1>2, <1>3, <1>4

LEMMA ServerKeeps ==
    ASSUME UnitInv,
           \/ AutoRestart
           \/ \E p \in Server : ServerStep(p) \/ Crash(p) \/ GiveUpGpu(p) \/ Shutdown(p)
    PROVE  UnitInv' /\ Keeps /\ NoNewServer
<1>1. CASE AutoRestart
  <2>1. /\ unit = "activating" /\ unit' = "active"
        /\ proc' = [proc EXCEPT !["unit"] = "loading"]
        /\ UNCHANGED <<crashes, owed, job, starter>>
    BY <1>1 DEF AutoRestart, jobVars
  <2>2. \A c \in Client : job[c] \notin {"start", "stop"}
    BY <2>1 DEF UnitInv, JobsInv
  <2>3. UnitTypeOK'
    BY <2>1 DEF UnitInv, UnitTypeOK, ProcState
  <2>4. NoNewServer
    BY <2>1, ServerTypes DEF UnitInv, UnitTypeOK, NoNewServer
  <2> QED
    BY <2>1, <2>2, <2>3, <2>4 DEF UnitInv, JobsInv, Keeps, UnitUp
<1>2. ASSUME NEW p \in Server, Bind(p) \/ GiveUpGpu(p) \/ Shutdown(p)
      PROVE  UnitInv' /\ Keeps /\ NoNewServer
  <2>1. PICK x \in ProcState \ {"none"} : proc' = [proc EXCEPT ![p] = x] /\ proc[p] # "none"
    BY <1>2 DEF Bind, GiveUpGpu, Shutdown, ProcState
  <2>2. UNCHANGED <<unit, crashes, job, starter>>
    BY <1>2 DEF Bind, GiveUpGpu, Shutdown, jobVars
  <2>3. owed' \in {"nothing", "crash", "watchdog"}
    BY <1>2 DEF Bind, GiveUpGpu, Shutdown, UnitInv, UnitTypeOK
  <2>4. UnitTypeOK'
    BY <2>1, <2>2, <2>3 DEF UnitInv, UnitTypeOK
  <2>5. \A q \in Server : proc'[q] = "none" <=> proc[q] = "none"
    BY <2>1 DEF UnitInv, UnitTypeOK
  <2>6. "unit" \in Server
    BY DEF Server
  <2> QED
    BY <2>2, <2>4, <2>5, <2>6, ServerTypes DEF UnitInv, JobsInv, Keeps, UnitUp, NoNewServer
<1>3. ASSUME NEW p \in Server, BindFails(p) \/ Crash(p) \/ Close(p)
      PROVE  UnitInv' /\ Keeps /\ NoNewServer
  <2>1. PICK clean \in BOOLEAN : Exit(p, clean)
    BY <1>3 DEF BindFails, Crash, Close
  <2>2. proc[p] # "none"
    BY <1>3 DEF BindFails, Crash, Close
  <2>3. owed' \in {"nothing", "crash", "watchdog"} /\ crashes' \in 0..MaxCrash
    <3>1. /\ owed \in {"nothing", "crash", "watchdog"}
          /\ crashes \in 0..MaxCrash /\ MaxCrash \in Nat
      BY UnitAssumption DEF UnitInv, UnitTypeOK
    <3>2. CASE BindFails(p) \/ Close(p)
      BY <3>1, <3>2 DEF BindFails, Close
    <3>3. CASE Crash(p)
      <4>1. crashes < MaxCrash /\ crashes' = crashes + 1 /\ owed' \in {"crash", owed}
        BY <3>3 DEF Crash
      <4> QED
        BY <3>1, <4>1
    <3> QED
      BY <1>3, <3>2, <3>3
  <2> QED
    BY <2>1, <2>2, <2>3, ExitKeeps DEF UnitInv, UnitTypeOK
<1> QED
  BY <1>1, <1>2, <1>3 DEF ServerStep

\* systemctl start by anybody.
LEMMA StartKeeps ==
    ASSUME UnitInv, NEW c \in Client, StartUnit(c)
    PROVE  /\ UnitInv'
           /\ unit # "absent" /\ unit' # "absent"
           /\ \A d \in Client \ {c} : job'[d] \in {job[d], "canceled"}
           /\ UnitUp' => ((UnitUp /\ starter' = starter) \/ starter' = StarterOf({c}))
           /\ NoNewServer
<1>1. unit # "absent" /\ UNCHANGED <<crashes, owed>>
  BY DEF StartUnit
<1>2. CASE unit = "deactivating"
  <2>1. job' = JobsWith(c, "start") /\ UNCHANGED <<unit, proc, starter>>
    BY <1>2 DEF StartUnit
  <2>2. /\ job' \in [Client -> JobState]
        /\ \A d \in Client \ {c} : job'[d] \in {job[d], "canceled"}
        /\ \A d \in Client : job'[d] # "stop"
    BY <2>1, JobsOfOne DEF UnitInv
  <2>3. UnitTypeOK' /\ JobsInv'
    BY <1>1, <1>2, <2>1, <2>2 DEF UnitInv, UnitTypeOK, JobsInv
  <2> QED
    BY <1>1, <1>2, <2>1, <2>2, <2>3 DEF UnitInv, UnitUp, NoNewServer
<1>3. CASE unit # "deactivating"
  <2> DEFINE x == IF unit = "active" THEN proc["unit"] ELSE "loading"
  <2>1. /\ job' = JobsWith(c, "done") /\ unit' = "active"
        /\ proc' = [proc EXCEPT !["unit"] = x]
        /\ starter' = IF unit = "active" THEN starter ELSE StarterOf({c})
    BY <1>3 DEF StartUnit
  <2>2. "unit" \in Server /\ x \in ProcState
    BY DEF UnitInv, UnitTypeOK, Server, ProcState
  <2> HIDE DEF x
  <2>3. proc' \in [Server -> ProcState] /\ NoNewServer
    BY <2>1, <2>2, ServerTypes DEF UnitInv, UnitTypeOK, NoNewServer
  <2>4. /\ job' \in [Client -> JobState] /\ job'[c] = "done"
        /\ \A d \in Client \ {c} : job'[d] \in {job[d], "canceled"}
    BY <2>1, JobsOfOne DEF UnitInv
  <2>5. \A d \in Client : job'[d] \notin {"start", "stop"}
    BY <1>3, <2>4 DEF UnitInv, JobsInv
  <2>6. starter' \in {"nobody", "script", "repl"}
    BY <2>1 DEF StarterOf, UnitInv, UnitTypeOK
  <2>7. UnitTypeOK'
    BY <1>1, <2>1, <2>3, <2>4, <2>6 DEF UnitInv, UnitTypeOK
  <2>8. JobsInv'
    BY <2>1, <2>5 DEF JobsInv
  <2> QED
    BY <1>1, <2>1, <2>3, <2>4, <2>7, <2>8 DEF UnitInv, UnitUp
<1> QED
  BY <1>2, <1>3

\* systemctl stop, by a run.
LEMMA StopKeeps ==
    ASSUME UnitInv, NEW c \in Client, StopUnit(c)
    PROVE  /\ UnitInv'
           /\ unit # "absent" /\ unit' # "absent"
           /\ starter' = starter
           /\ \A d \in Client \ {c} : job'[d] \in {job[d], "canceled"}
           /\ job'[c] # "start"
           /\ job'[c] = "done" => unit' = "inactive"
           /\ UnitUp' => UnitUp
           /\ NoNewServer
<1> DEFINE x == IF proc["unit"] = "none" THEN proc["unit"] ELSE "closing"
<1>1. /\ unit # "absent" /\ owed' = "nothing"
      /\ UNCHANGED <<crashes, starter>>
      /\ proc' = [proc EXCEPT !["unit"] = x]
  BY DEF StopUnit
<1>2. "unit" \in Server /\ x \in ProcState /\ (x = "none" <=> proc["unit"] = "none")
  BY DEF UnitInv, UnitTypeOK, ProcState, Server
<1> HIDE DEF x
<1>3. proc' \in [Server -> ProcState] /\ proc'["unit"] = x
  BY <1>1, <1>2 DEF UnitInv, UnitTypeOK
<1>4. NoNewServer
  BY <1>1, ServerTypes DEF UnitInv, UnitTypeOK, NoNewServer
<1>5. CASE unit \in {"active", "deactivating"}
  <2>1. unit' = "deactivating" /\ job' = JobsWith(c, "stop")
    BY <1>5 DEF StopUnit
  <2>2. /\ job' \in [Client -> JobState] /\ job'[c] = "stop"
        /\ \A d \in Client \ {c} : job'[d] \in {job[d], "canceled"}
        /\ \A d \in Client : job'[d] # "start"
    BY <2>1, JobsOfOne DEF UnitInv
  <2>3. UnitTypeOK' /\ JobsInv'
    BY <1>1, <1>3, <2>1, <2>2 DEF UnitInv, UnitTypeOK, JobsInv
  <2> QED
    BY <1>1, <1>4, <1>5, <2>1, <2>2, <2>3 DEF UnitInv, UnitUp
<1>6. CASE unit \notin {"active", "deactivating"}
  <2>1. unit' = "inactive" /\ job' = JobsWith(c, "done")
    BY <1>6 DEF StopUnit
  <2>2. /\ job' \in [Client -> JobState] /\ job'[c] = "done"
        /\ \A d \in Client \ {c} : job'[d] \in {job[d], "canceled"}
    BY <2>1, JobsOfOne DEF UnitInv
  <2>3. \A d \in Client : job'[d] \notin {"start", "stop"}
    BY <1>6, <2>2 DEF UnitInv, JobsInv
  <2>4. UnitTypeOK'
    BY <1>1, <1>3, <2>1, <2>2 DEF UnitInv, UnitTypeOK
  <2>5. JobsInv'
    BY <1>2, <1>3, <1>6, <2>1, <2>3 DEF UnitInv, JobsInv
  <2> QED
    BY <1>1, <1>4, <2>1, <2>2, <2>4, <2>5 DEF UnitInv, UnitUp
<1> QED
  BY <1>5, <1>6

\* systemctl returns.
LEMMA ForgetKeeps ==
    ASSUME UnitInv, NEW c \in Client, ForgetJob(c)
    PROVE  /\ UnitInv'
           /\ UNCHANGED <<unit, proc, starter>>
           /\ job'[c] = "done"
           /\ \A d \in Client \ {c} : job'[d] = job[d]
<1>1. job' = [job EXCEPT ![c] = "done"] /\ UNCHANGED <<unit, proc, crashes, owed, starter>>
  BY DEF ForgetJob
<1>2. /\ job' \in [Client -> JobState] /\ job'[c] = "done"
      /\ \A d \in Client \ {c} : job'[d] = job[d]
  BY <1>1 DEF UnitInv, UnitTypeOK, JobState
<1>3. UnitTypeOK' /\ JobsInv'
  BY <1>1, <1>2 DEF UnitInv, UnitTypeOK, JobsInv
<1> QED
  BY <1>1, <1>2, <1>3 DEF UnitInv

-----------------------------------------------------------------------------
(* What REPLs do                                                           *)

LEMMA ReplKeeps ==
    ASSUME TypeOK, JobsInv, ReplNext
    PROVE  UnitInv' /\ ReplTypeOK' /\ ModeTypeOK' /\ Keeps /\ UNCHANGED modeVars
<1>1. UnitInv /\ UNCHANGED modeVars /\ repl \in [Repl -> ReplState]
  BY DEF TypeOK, UnitInv, ReplNext, ReplTypeOK
<1>2. ModeTypeOK'
  BY <1>1 DEF TypeOK, ModeTypeOK, modeVars
<1>3. UNCHANGED unitVars => UnitInv' /\ Keeps
  BY <1>1 DEF UnitInv, UnitTypeOK, JobsInv, unitVars, jobVars, Keeps, UnitUp
<1>4. ASSUME NEW r \in Repl, NEW x \in ReplState, ReplTo(r, x) PROVE ReplTypeOK'
  BY <1>1, <1>4 DEF ReplTo, ReplTypeOK
<1>5. ASSUME NEW r \in Repl,
             \/ Probe(r) \/ Decide(r) \/ StartTimesOut(r) \/ Wait(r) \/ Quit(r)
      PROVE  UnitInv' /\ ReplTypeOK' /\ Keeps
  <2>1. UNCHANGED unitVars
    BY <1>5 DEF Probe, Decide, StartTimesOut, Wait, Quit
  <2>2. \E x \in ReplState : ReplTo(r, x)
    <3>1. \A state : StartupAction(FALSE, state) \in ReplState
      BY DEF StartupAction, ReplState
    <3> QED
      BY <1>5, <3>1 DEF Probe, Decide, StartTimesOut, Wait, Quit, ReplState
  <2> QED
    BY <1>3, <1>4, <2>1, <2>2
<1>6. ASSUME NEW r \in Repl, SpawnServer(r)
      PROVE  UnitInv' /\ ReplTypeOK' /\ Keeps
  <2>1. /\ proc' = [proc EXCEPT ![r] = "loading"] /\ ReplTo(r, "wait")
        /\ UNCHANGED <<unit, crashes, owed, job, starter>>
    BY <1>6 DEF SpawnServer, jobVars
  <2>2. UnitTypeOK' /\ proc'["unit"] = proc["unit"]
    BY <1>1, <2>1, ServerTypes DEF UnitInv, UnitTypeOK, ProcState, Server
  <2>3. JobsInv'
    BY <1>1, <2>1, <2>2 DEF UnitInv, JobsInv
  <2> QED
    BY <1>4, <2>1, <2>2, <2>3 DEF UnitInv, Keeps, UnitUp, ReplState
<1>7. ASSUME NEW r \in Repl, StartUnitByRepl(r)
      PROVE  UnitInv' /\ ReplTypeOK' /\ Keeps
  <2>1. StartUnit(r) /\ ReplTo(r, "starting")
    BY <1>7 DEF StartUnitByRepl
  <2>2. /\ UnitInv' /\ unit # "absent" /\ unit' # "absent"
        /\ \A d \in Client \ {r} : job'[d] \in {job[d], "canceled"}
        /\ UnitUp' => ((UnitUp /\ starter' = starter) \/ starter' = StarterOf({r}))
    BY <1>1, <2>1, ClientTypes, StartKeeps
  <2>3. StarterOf({r}) = "repl"
    BY ClientTypes DEF StarterOf
  <2>4. \A s \in Script : job'[s] \in {job[s], "canceled"}
    BY <2>2, ClientTypes
  <2> QED
    BY <1>4, <2>1, <2>2, <2>3, <2>4 DEF Keeps, ReplState
<1>8. ASSUME NEW r \in Repl, StartedByRepl(r)
      PROVE  UnitInv' /\ ReplTypeOK' /\ Keeps
  <2>1. ForgetJob(r) /\ ReplTo(r, "wait")
    BY <1>8 DEF StartedByRepl
  <2>2. /\ UnitInv' /\ UNCHANGED <<unit, starter>>
        /\ \A s \in Script : job'[s] = job[s]
    BY <1>1, <2>1, ClientTypes, ForgetKeeps
  <2> QED
    BY <1>4, <2>1, <2>2 DEF Keeps, UnitUp, ReplState
<1>9. ASSUME NEW r \in Repl, QuitStop(r)
      PROVE  UnitInv' /\ ReplTypeOK' /\ Keeps
  <2>1. /\ \E p \in Server : Shutdown(p)
        /\ ReplTo(r, "done")
    BY <1>9 DEF QuitStop
  <2> QED
    BY <1>1, <1>4, <2>1, ServerKeeps DEF ReplState
<1> QED
  BY <1>1, <1>2, <1>5, <1>6, <1>7, <1>8, <1>9 DEF ReplNext, Ensure

\* A REPL decides for a server of its own only where there is no unit.
LEMMA ReplSpawns ==
    ASSUME SystemctlAnswers, TypeOK, JobsInv, SpawnInv, ReplNext
    PROVE  SpawnInv'
<1>1. /\ UnitInv /\ repl \in [Repl -> ReplState]
      /\ unit' = "absent" <=> unit = "absent"
  BY ReplKeeps DEF TypeOK, UnitInv, ReplTypeOK, Keeps
<1> SUFFICES ASSUME unit # "absent", NEW q \in Repl
             PROVE  proc'[q] = "none" /\ repl'[q] # "spawn"
  BY <1>1 DEF SpawnInv
<1>2. \A r \in Repl : proc[r] = "none" /\ repl[r] # "spawn"
  BY DEF SpawnInv
<1>3. ASSUME NEW r \in Repl, Decide(r) PROVE proc'[q] = "none" /\ repl'[q] # "spawn"
  <2>1. ReplTo(r, StartupAction(FALSE, unit)) /\ proc' = proc
    BY <1>3 DEF Decide, unitVars
  <2>2. StartupAction(FALSE, unit) # "spawn"
    BY DEF StartupAction
  <2> QED
    BY <1>1, <1>2, <2>1, <2>2 DEF ReplTo
<1>4. ASSUME NEW r \in Repl, Probe(r) \/ StartedByRepl(r) \/ StartTimesOut(r)
                             \/ Wait(r) \/ Quit(r)
      PROVE  proc'[q] = "none" /\ repl'[q] # "spawn"
  <2>1. proc' = proc /\ \E x \in ReplState \ {"spawn"} : ReplTo(r, x)
    BY <1>4 DEF Probe, StartedByRepl, ForgetJob, StartTimesOut, Wait, Quit, ReplState, unitVars
  <2> QED
    BY <1>1, <1>2, <2>1 DEF ReplTo
<1>5. ASSUME NEW r \in Repl, SpawnServer(r) PROVE FALSE
  BY <1>2, <1>5 DEF SpawnServer
<1>6. ASSUME NEW r \in Repl, StartUnitByRepl(r)
      PROVE  proc'[q] = "none" /\ repl'[q] # "spawn"
  <2>1. NoNewServer /\ repl' = [repl EXCEPT ![r] = "starting"]
    BY <1>1, <1>6, ClientTypes, StartKeeps DEF StartUnitByRepl, ReplTo
  <2> QED
    BY <1>1, <1>2, <2>1 DEF NoNewServer
<1>7. ASSUME NEW r \in Repl, QuitStop(r)
      PROVE  proc'[q] = "none" /\ repl'[q] # "spawn"
  <2>1. NoNewServer /\ repl' = [repl EXCEPT ![r] = "done"]
    BY <1>1, <1>7, ServerKeeps DEF QuitStop, ReplTo
  <2> QED
    BY <1>1, <1>2, <2>1 DEF NoNewServer
<1> QED
  BY <1>3, <1>4, <1>5, <1>6, <1>7 DEF ReplNext, Ensure

-----------------------------------------------------------------------------
(* What script runs do                                                     *)

\* A run's own commands on the unit.
LEMMA ScriptKeeps ==
    ASSUME TypeOK, JobsInv, ScriptNext
    PROVE  /\ UnitInv' /\ ModeTypeOK' /\ ReplTypeOK'
           /\ unit' = "absent" <=> unit = "absent"
           /\ NoNewServer /\ UNCHANGED repl
<1>1. UnitInv /\ UNCHANGED repl /\ ModeTypeOK
  BY DEF TypeOK, UnitInv, ScriptNext
<1>2. ReplTypeOK'
  BY <1>1 DEF TypeOK, ReplTypeOK
<1>3. UNCHANGED unitVars =>
        UnitInv' /\ (unit' = "absent" <=> unit = "absent") /\ NoNewServer
  BY <1>1 DEF UnitInv, UnitTypeOK, JobsInv, unitVars, jobVars, NoNewServer
<1>4. ASSUME NEW s \in Script, StopHosaka(s) \/ StartHosaka(s) \/ Stopped(s) \/ Started(s)
      PROVE  UnitInv' /\ (unit' = "absent" <=> unit = "absent") /\ NoNewServer
  <2>1. s \in Client
    BY ClientTypes
  <2>2. StopUnit(s) \/ StartUnit(s) \/ ForgetJob(s)
    BY <1>4 DEF StopHosaka, StartHosaka, Stopped, Started
  <2> QED
    BY <1>1, <2>1, <2>2, StopKeeps, StartKeeps, ForgetKeeps DEF NoNewServer
<1>5. ASSUME NEW s \in Script,
             \/ \E v \in Verb : RunScript(s, v)
             \/ ReadOllama(s) \/ ReadHosaka(s) \/ StopOllama(s) \/ StartOllama(s)
      PROVE  UNCHANGED unitVars
  BY <1>5 DEF RunScript, ReadOllama, ReadHosaka, StopOllama, StartOllama
<1>6. ASSUME NEW s \in Script, (\E v \in Verb : RunScript(s, v)) \/ ScriptStep(s)
      PROVE  ModeTypeOK'
  <2>1. \E x \in Step : step' = [step EXCEPT ![s] = x]
    BY <1>6 DEF RunScript, ScriptStep, ReadOllama, ReadHosaka, StopOllama, StartOllama,
                StopHosaka, StartHosaka, Stopped, Started, StepTo, End, Step
  <2>2. \/ \E v \in Verb : verb' = [verb EXCEPT ![s] = v]
        \/ verb' = verb
    BY <1>6 DEF RunScript, ScriptStep, ReadOllama, ReadHosaka, StopOllama, StartOllama,
                StopHosaka, StartHosaka, Stopped, Started, StepTo, End, Verb
  <2>3. ollama' \in BOOLEAN
    BY <1>1, <1>6 DEF RunScript, ScriptStep, ReadOllama, ReadHosaka, StopOllama,
                StartOllama, StopHosaka, StartHosaka, Stopped, Started, ModeTypeOK
  <2>4. \/ sawOllama' = sawOllama
        \/ \E o \in BOOLEAN : sawOllama' = [sawOllama EXCEPT ![s] = o]
    BY <1>1, <1>6 DEF RunScript, ScriptStep, ReadOllama, ReadHosaka, StopOllama,
                StartOllama, StopHosaka, StartHosaka, Stopped, Started, StepTo, End,
                ModeTypeOK
  <2>5. tangled' \in {"no", "now", "left"}
    BY <1>1, <1>6 DEF RunScript, ScriptStep, ReadOllama, ReadHosaka, StopOllama,
                StartOllama, StopHosaka, StartHosaka, Stopped, Started, Untangled,
                ModeTypeOK
  <2>6. step' \in [Script -> Step] /\ verb' \in [Script -> Verb]
    BY <1>1, <2>1, <2>2 DEF ModeTypeOK
  <2>7. sawOllama' \in [Script -> BOOLEAN]
    BY <1>1, <2>4 DEF ModeTypeOK
  <2> QED
    BY <2>3, <2>5, <2>6, <2>7 DEF ModeTypeOK
<1> QED
  BY <1>1, <1>2, <1>3, <1>4, <1>5, <1>6 DEF ScriptNext, ScriptStep

\* What a step of run s does to the jobs of the others, to step and to verb.
LEMMA OwnStep ==
    ASSUME TypeOK, JobsInv, NEW s \in Script, ScriptStep(s)
    PROVE  /\ step[s] # "off"
           /\ \A t \in Script \ {s} :
                /\ step'[t] = step[t] /\ verb'[t] = verb[t]
                /\ job'[t] \in {job[t], "canceled"}
           /\ verb'[s] = verb[s] \/ step'[s] = "off"
<1>1. UnitInv /\ step \in [Script -> Step] /\ verb \in [Script -> Verb]
  BY DEF TypeOK, UnitInv, ModeTypeOK
<1>2. step[s] # "off"
  BY DEF ScriptStep, ReadOllama, ReadHosaka, StopOllama, StartOllama, StopHosaka,
         StartHosaka, Stopped, Started
<1>3. StepTo(s, "hosaka") \/ StepTo(s, "first") \/ StepTo(s, "second")
      \/ StepTo(s, "stopping") \/ StepTo(s, "starting") \/ End(s)
      \/ \E x \in Step : step' = [step EXCEPT ![s] = x] /\ verb' = verb
  BY DEF ScriptStep, ReadOllama, ReadHosaka, StopOllama, StartOllama, StopHosaka,
         StartHosaka, Stopped, Started, Step
<1>4. /\ \A t \in Script \ {s} : step'[t] = step[t] /\ verb'[t] = verb[t]
      /\ verb'[s] = verb[s] \/ step'[s] = "off"
  BY <1>1, <1>3 DEF StepTo, End
<1>5. \/ job' = job
      \/ StopUnit(s) \/ StartUnit(s) \/ ForgetJob(s)
  BY DEF ScriptStep, ReadOllama, ReadHosaka, StopOllama, StartOllama, StopHosaka,
         StartHosaka, Stopped, Started, unitVars, jobVars
<1>6. \A t \in Script \ {s} : job'[t] \in {job[t], "canceled"}
  BY <1>1, <1>5, ClientTypes, StopKeeps, StartKeeps, ForgetKeeps
<1> QED
  BY <1>2, <1>4, <1>6

\* A run waits for the jobs it has, and for no other.
LEMMA ScriptRuns ==
    ASSUME TypeOK, JobsInv, RunsInv, ScriptNext
    PROVE  RunsInv'
<1>1. /\ UnitInv /\ ModeTypeOK'
      /\ step \in [Script -> Step] /\ verb \in [Script -> Verb]
      /\ Script \subseteq Client
  BY ScriptKeeps, ClientTypes DEF TypeOK, UnitInv, ModeTypeOK
<1>2. ASSUME NEW s \in Script, NEW v \in Verb, RunScript(s, v) PROVE RunsInv'
  BY <1>1, <1>2 DEF RunScript, RunsInv, unitVars, jobVars
<1>3. ASSUME NEW s \in Script, ScriptStep(s) PROVE RunsInv'
  <2>1. \A t \in Script \ {s} :
          /\ step'[t] = step[t] /\ verb'[t] = verb[t]
          /\ job'[t] \in {job[t], "canceled"}
    BY <1>3, OwnStep
  <2>2. SUFFICES /\ job'[s] = "start" => step'[s] = "starting"
                 /\ step'[s] = "starting" => verb'[s] = "homo"
                 /\ step'[s] = "stopping" => verb'[s] # "homo"
    BY <2>1 DEF RunsInv
  <2>3. /\ job[s] = "start" => step[s] = "starting"
        /\ step[s] = "starting" => verb[s] = "homo"
        /\ step[s] = "stopping" => verb[s] # "homo"
    BY DEF RunsInv
  <2>4. CASE ReadOllama(s) \/ ReadHosaka(s) \/ StopOllama(s) \/ StartOllama(s)
    <3>1. step[s] # "starting" /\ job' = job /\ step'[s] \notin {"starting", "stopping"}
      BY <1>1, <2>4 DEF ReadOllama, ReadHosaka, StopOllama, StartOllama, StepTo, End,
                        unitVars, jobVars
    <3> QED
      BY <2>3, <3>1
  <2>5. CASE StopHosaka(s)
    BY <1>1, <2>5, StopKeeps DEF StopHosaka, StepTo
  <2>6. CASE Stopped(s) \/ Started(s)
    <3>1. job'[s] = "done" /\ step'[s] \notin {"starting", "stopping"}
      BY <1>1, <2>6, ForgetKeeps DEF Stopped, Started, StepTo, End
    <3> QED
      BY <3>1
  <2>7. CASE StartHosaka(s)
    BY <1>1, <2>7 DEF StartHosaka, StepTo
  <2> QED
    BY <1>3, <2>4, <2>5, <2>6, <2>7 DEF ScriptStep
<1> QED
  BY <1>2, <1>3 DEF ScriptNext

-----------------------------------------------------------------------------
(* One tenant                                                              *)

\* No run is disturbed by systemd, a server or a REPL.
LEMMA TenantKept ==
    ASSUME RunsInv, TenantInv, Keeps, UNCHANGED modeVars
    PROVE  RunsInv' /\ TenantInv'
<1>1. UNCHANGED <<ollama, step, verb, tangled>>
  BY DEF modeVars
<1>2. RunsInv'
  BY <1>1 DEF RunsInv, Keeps
<1>3. UnitUp' => unit' # "inactive"
  BY DEF UnitUp
<1>4. ASSUME tangled # "now", NEW s \in Script, Cleared(s)', UnitUp'
      PROVE  starter' = "repl"
  <2>1. verb[s] # "homo" /\ step[s] # "off" /\ step[s] # "starting"
    BY <1>1, <1>4 DEF Cleared
  <2>2. \A t \in Script : job[t] # "start"
    BY <1>4, <2>1 DEF RunsInv, TenantInv
  <2>3. Cleared(s)
    BY <1>1, <1>3, <1>4, <2>2 DEF Cleared, Keeps
  <2> QED
    BY <1>4, <2>2, <2>3 DEF Keeps, TenantInv
<1>5. ASSUME tangled = "no", ollama, UnitUp' PROVE starter' = "repl"
  <2>1. \A t \in Script : job[t] # "start"
    BY <1>5 DEF RunsInv, TenantInv
  <2> QED
    BY <1>5, <2>1 DEF Keeps, TenantInv
<1> QED
  BY <1>1, <1>2, <1>4, <1>5 DEF TenantInv

\* What holds of every run after a step of s, the only run, is what holds of s.
LEMMA TenantLocal ==
    ASSUME NEW s \in Script,
           \A t \in Script \ {s} : step'[t] = "off",
           Cleared(s)' /\ UnitUp' => starter' = "repl",
           tangled' = "no" =>
              /\ step'[s] \in {"second", "starting"} /\ verb'[s] = "homo" => ~ollama'
              /\ ollama' /\ UnitUp' => starter' = "repl"
    PROVE  TenantInv'
BY DEF TenantInv, Cleared

LEMMA ScriptTenant ==
    ASSUME TypeOK, JobsInv, RunsInv, TenantInv, ScriptNext
    PROVE  TenantInv'
<1>1. /\ UnitInv /\ Script \subseteq Client
      /\ step \in [Script -> Step] /\ verb \in [Script -> Verb]
      /\ tangled \in {"no", "now", "left"}
  BY ClientTypes DEF TypeOK, UnitInv, ModeTypeOK
<1>2. CASE tangled' = "now"
  BY <1>2 DEF TenantInv
<1>3. ASSUME tangled' # "now", NEW s \in Script, NEW v \in Verb, RunScript(s, v)
      PROVE  TenantInv'
  <2>1. /\ \A t \in Script : step[t] = "off"
        /\ step'[s] = "ollama"
        /\ UNCHANGED <<ollama, starter, unit>>
        /\ \A t \in Script \ {s} : step'[t] = "off"
        /\ tangled' = "no" => tangled = "no"
    BY <1>1, <1>3 DEF RunScript, unitVars, jobVars
  <2>2. tangled' = "no" => (ollama' /\ UnitUp' => starter' = "repl")
    BY <2>1 DEF TenantInv, UnitUp
  <2>3. ~Cleared(s)'
    BY <2>1 DEF Cleared
  <2> QED
    BY <2>1, <2>2, <2>3, TenantLocal
<1>4. ASSUME tangled' # "now", NEW s \in Script, ScriptStep(s) PROVE TenantInv'
  <2>1. /\ tangled # "now"
        /\ tangled' = tangled \/ tangled' = "no"
    BY <1>4 DEF ScriptStep, ReadOllama, ReadHosaka, StopOllama, StartOllama, StopHosaka,
                StartHosaka, Stopped, Started, Untangled
  <2>2. /\ step[s] # "off"
        /\ \A t \in Script \ {s} : step'[t] = step[t]
        /\ verb'[s] = verb[s] \/ step'[s] = "off"
    BY <1>4, OwnStep
  <2>3. \A t \in Script \ {s} : step'[t] = "off"
    BY <2>1, <2>2 DEF TenantInv
  <2>4. /\ Cleared(s) /\ UnitUp => starter = "repl"
        /\ tangled = "no" =>
             /\ step[s] \in {"second", "starting"} /\ verb[s] = "homo" => ~ollama
             /\ ollama /\ UnitUp => starter = "repl"
    BY <2>1 DEF TenantInv
  <2>5. CASE ReadOllama(s) \/ ReadHosaka(s)
    <3>1. /\ step'[s] \notin {"second", "starting", "stopping"}
          /\ UNCHANGED <<ollama, starter, unit, tangled>>
      BY <1>1, <2>5 DEF ReadOllama, ReadHosaka, End, unitVars, jobVars
    <3> QED
      BY <2>3, <2>4, <3>1, TenantLocal DEF Cleared, UnitUp
  <2>6. CASE StopOllama(s)
    <3>1. /\ ollama' = FALSE
          /\ step'[s] = "off" \/ (step'[s] = "second" /\ verb'[s] = "homo")
      BY <1>1, <2>6 DEF StopOllama, StepTo, End
    <3> QED
      BY <2>3, <3>1, TenantLocal DEF Cleared
  <2>7. CASE StartOllama(s)
    <3>1. /\ step[s] = "second" /\ verb[s] = "emo" /\ step'[s] = "off"
          /\ UNCHANGED <<starter, unit>>
      BY <1>1, <2>7 DEF StartOllama, End, unitVars, jobVars
    <3>2. UnitUp' => starter' = "repl"
      BY <2>4, <3>1 DEF Cleared, UnitUp
    <3> QED
      BY <2>3, <3>1, <3>2, TenantLocal
  <2>8. CASE StopHosaka(s)
    <3>1. /\ step'[s] = "stopping" /\ UNCHANGED <<ollama, tangled>> /\ StopUnit(s)
      BY <1>1, <2>8 DEF StopHosaka, StepTo
    <3>2. /\ starter' = starter
          /\ job'[s] = "done" => unit' = "inactive"
          /\ UnitUp' => UnitUp
      BY <1>1, <3>1, StopKeeps
    <3> QED
      BY <2>3, <2>4, <3>1, <3>2, TenantLocal DEF Cleared, UnitUp
  <2>9. CASE Stopped(s)
    <3>1. /\ step[s] = "stopping" /\ verb[s] # "homo"
          /\ UNCHANGED <<ollama, starter, unit>>
      BY <2>9 DEF Stopped, ForgetJob, RunsInv
    <3>2. CASE job[s] = "done" /\ StepTo(s, "second")
      <4>1. step'[s] = "second" /\ verb'[s] # "homo"
        BY <1>1, <3>1, <3>2 DEF StepTo
      <4>2. UnitUp' => starter' = "repl"
        BY <2>4, <3>1, <3>2 DEF Cleared, UnitUp
      <4> QED
        BY <2>3, <4>1, <4>2, TenantLocal
    <3>3. CASE End(s) /\ UNCHANGED tangled
      <4>1. step'[s] = "off"
        BY <1>1, <3>3 DEF End
      <4> QED
        BY <2>3, <2>4, <3>1, <3>3, <4>1, TenantLocal DEF Cleared, UnitUp
    <3> QED
      BY <2>9, <3>2, <3>3 DEF Stopped
  <2>10. CASE StartHosaka(s)
    <3>1. /\ step[s] = "second" /\ step'[s] = "starting" /\ verb[s] = "homo"
          /\ UNCHANGED <<ollama, tangled>>
      BY <1>1, <2>10 DEF StartHosaka, StepTo
    <3> QED
      BY <2>3, <2>4, <3>1, TenantLocal DEF Cleared
  <2>11. CASE Started(s)
    <3>1. step'[s] = "off" /\ UNCHANGED <<ollama, starter, unit, tangled>>
      BY <1>1, <2>11 DEF Started, ForgetJob, End
    <3> QED
      BY <2>3, <2>4, <3>1, TenantLocal DEF Cleared, UnitUp
  <2> QED
    BY <1>4, <2>5, <2>6, <2>7, <2>8, <2>9, <2>10, <2>11 DEF ScriptStep
<1> QED
  BY <1>2, <1>3, <1>4 DEF ScriptNext

-----------------------------------------------------------------------------
(* The theorems                                                            *)

LEMMA InitIInv == Init => IInv
<1> SUFFICES ASSUME Init PROVE IInv
  OBVIOUS
<1>1. UnitTypeOK /\ JobsInv
  BY UnitAssumption
  DEF Init, UnitInit, UnitTypeOK, ProcState, JobState, JobsInv, Server
<1>2. ModeTypeOK /\ ReplTypeOK
  BY DEF Init, ModeInit, ReplInit, ModeTypeOK, ReplTypeOK, Step, Verb, ReplState
<1>3. SpawnInv
  BY DEF Init, UnitInit, ReplInit, SpawnInv, Server
<1>4. RunsInv /\ TenantInv
  BY ClientTypes DEF Init, UnitInit, ModeInit, RunsInv, TenantInv, Cleared
<1> QED
  BY <1>1, <1>2, <1>3, <1>4 DEF IInv, TypeOK

LEMMA StepIInv == IInv /\ [Next]_vars => IInv'
<1> SUFFICES ASSUME IInv, [Next]_vars PROVE IInv'
  OBVIOUS
<1>1. /\ TypeOK /\ JobsInv /\ UnitInv /\ RunsInv /\ TenantInv
      /\ SystemctlAnswers => SpawnInv
  BY DEF IInv, TypeOK, UnitInv
<1>2. CASE ServerNext
  <2>1. UnitInv' /\ Keeps /\ NoNewServer
    BY <1>1, <1>2, ServerKeeps DEF ServerNext
  <2>2. UNCHANGED <<modeVars, repl>>
    BY <1>2 DEF ServerNext
  <2>3. TypeOK'
    BY <1>1, <2>1, <2>2 DEF TypeOK, UnitInv, ModeTypeOK, ReplTypeOK, modeVars
  <2>4. SpawnInv => SpawnInv'
    BY <2>1, <2>2 DEF SpawnInv, Keeps, NoNewServer
  <2> QED
    BY <1>1, <2>1, <2>2, <2>3, <2>4, TenantKept DEF IInv, UnitInv
<1>3. CASE ScriptNext
  <2>1. /\ UnitInv' /\ ModeTypeOK' /\ ReplTypeOK'
        /\ unit' = "absent" <=> unit = "absent"
        /\ NoNewServer /\ UNCHANGED repl
    BY <1>1, <1>3, ScriptKeeps
  <2>2. SpawnInv => SpawnInv'
    BY <2>1 DEF SpawnInv, NoNewServer
  <2> QED
    BY <1>1, <1>3, <2>1, <2>2, ScriptRuns, ScriptTenant DEF IInv, TypeOK, UnitInv
<1>4. CASE ReplNext
  <2>1. UnitInv' /\ ReplTypeOK' /\ ModeTypeOK' /\ Keeps /\ UNCHANGED modeVars
    BY <1>1, <1>4, ReplKeeps
  <2> QED
    BY <1>1, <1>4, <2>1, ReplSpawns, TenantKept DEF IInv, TypeOK, UnitInv
<1>5. CASE UNCHANGED vars
  BY <1>1, <1>5
  DEF vars, unitVars, jobVars, modeVars, IInv, TypeOK, UnitTypeOK, ModeTypeOK,
      ReplTypeOK, JobsInv, SpawnInv, RunsInv, TenantInv, Cleared, UnitUp
<1> QED
  BY <1>2, <1>3, <1>4, <1>5 DEF Next

\* The unit, its jobs, the processes, the script runs and the REPLs keep
\* their types; the unit, its process and its jobs agree, and so do runs and jobs.
THEOREM BoxInvariance == Spec => []IInv
BY InitIInv, StepIInv, PTL DEF Spec

\* However many runs overlap, as soon as one has had the box to itself up to
\* the end of its own stop, ollama and the server are apart, and stay so
\* until runs overlap again or a REPL starts the unit.
THEOREM TenantsApart == Spec => []OneTenant
<1>1. IInv => OneTenant
  BY DEF IInv, TypeOK, UnitTypeOK, JobsInv, TenantInv, OneTenant, UnitUp
<1> QED
  BY BoxInvariance, <1>1, PTL

\* Where the unit is installed no REPL ever has a server of its own, as long
\* as systemctl answers, however the unit, scripts and other REPLs race it.
THEOREM NoSecondServer == SystemctlAnswers => (Spec => []SpawnOnlyWithoutUnit)
<1> SUFFICES ASSUME SystemctlAnswers PROVE Spec => []SpawnOnlyWithoutUnit
  OBVIOUS
<1>1. IInv => SpawnOnlyWithoutUnit
  BY DEF IInv, SpawnInv, SpawnOnlyWithoutUnit
<1> QED
  BY BoxInvariance, <1>1, PTL
===============================================================================
