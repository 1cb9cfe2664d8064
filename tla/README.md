# Hosaka in TLA+

Hosaka is a text-to-speech system for one user and one GPU: a FastAPI server
that streams PCM, a REPL and a web page that play it, sidecar processes for the
engines that need a Python of their own, and a small service that shares the GPU
between hosaka and ollama.  This directory holds TLA+ models of the parts of it
that are concurrent, can fail half-way or keep state across calls, the TLC runs
that check them, and TLAPS proofs of every invariant the passing runs check.

* [Inventory](#inventory)
* [Modules](#modules)
* [Runs](#runs)
* [Fairness](#fairness)
* [Proofs](#proofs)
* [Findings](#findings)
* [Not modelled](#not-modelled)
* [Plan](#plan)

## Inventory

| Component | State it keeps | Operations | Talks to |
|---|---|---|---|
| **GPU admission queue** (`server/app.py`, `_GpuQueue`, `_admit_or`) | a semaphore of one unit with its deque of futures; the count of admitted requests | `try_admit`, `acquire`, `undo_admit`, `release`; a waiter may be cancelled | every request |
| **Speech request path** (`server/app.py`) | per request: the slot lease, the generator `_pcm_frames`, a worker thread and a queue per fragment; per process: running or shutting down | POST `/v1/audio/speech`, WebSocket utterances, the watchdog, fatal CUDA errors, `/shutdown`, client disconnects | admission queue, engines (threads), Starlette, uvicorn |
| **Out-of-process engines** (`engines/piper_*`, `engines/rvc_*`) | one resident child process per engine, two pipes | `stream`, `_ensure_proc`, `close`; the sidecar's main loop | the worker thread that calls them |
| **Source audio cache** (`cache.py`, `_source_pcm` of `rvc_engine.py`) | an LRU in RAM with a byte count; a directory of blobs ordered by mtime | `get`, `put`, eviction in each tier, restarts with another version | RVC engine |
| **Server unit and processes** (`scripts/systemd/hosaka-server.service`) | the unit's state and jobs, who has the port | start, stop, bind, crash, clean exit, restart after a failure | gpu-mode script, REPLs, the server's own `_do_shutdown` |
| **GPU-mode arbiter** (`scripts/gpu_mode.sh`, `server/main_gpu_mode.py`, `gpu_mode.py`) | none of its own: it reads and switches two units | `homo`, `emo`, `idle`, each a run of a shell script | server unit, ollama |
| **REPL start-up** (`cli/repl.py`, `_ensure_server`) | which of its start-up actions it is in | probe, ask systemd, attach, wait, start the unit, spawn; `:quit --stop` | server unit, servers |
| **REPL commands and state** (`cli/repl.py`, `cli/replcmd.py`, `config.py`) | voice, backend, knobs | `:voice`, `:clone`, `:backend`, the knobs, a line to speak | server, library, playback |
| **Lexicon and voice library** (`lexicon.py`, `library.py`, `scripts/sync_lexicon.sh`) | JSON files; the server's copy keyed by mtime | edit, save, hot reload, push to the droplet | REPL, server |
| **Playback** (`audio.py`) | a player process, bytes held back for alignment | feed, end of utterance, close, relaunch | REPL |
| **Web client** (`web/app.js`, `web/pcm-player.js`) | an audio context and its worklet's queue, one current socket | a click on Speak, a task with up to three awaits; messages of each socket | the WebSocket sessions of the server |
| **Text fragmentation** (`chunking.py`) | none | split a text into fragments within a cap that may grow | request path |
| **Text normalization** (`normalize.py`) | none | rewriting of strings | request path |
| **In-process engines, registry** (`engines/base.py`, `kokoro`, `chatterbox`, `main*.py`) | loaded models | construction, `stream` | request path |
| **Baking, set-up, deployment** (`cli/bake.py`, `scripts/`) | files | one-shot tools | – |

The behaviours that are hard to test, and what makes each component correct:

* *Admission.*  Releases, wake-ups and cancellations of waiters interleave; a
  waiter may be cancelled at the moment it is granted.  The unit must be neither
  lost nor doubled, nobody may wait for a free slot, the count must be exact,
  and the order is first come, first served.
* *Request path.*  The slot must be released exactly once on every path: a
  preparation that raises, a client lost before, at or after the start marker,
  an engine error, the watchdog, the end of the text.  It must not be released
  while a worker thread still runs.  An engine error must not look like the end
  of the speech; every request must end; a wedged call must be noticed.
* *Sidecars.*  Responses carry no identifiers: a frame that is left behind
  reaches the next call.  A sidecar dies at any byte, and `poll()` may learn of
  it late.  No response may be silently short; one death may cost one call.
* *Cache.*  Byte accounting under replacement and eviction, processes that end
  between the rename and the eviction, blobs of older versions.
* *Lexicon.*  A file is read while it is written, two pushes overlap, an edit
  comes between a server's stat and its load.  A server must not go on speaking
  with an old map, and a save must not leave half a file.
* *REPL.*  What a session shows (voice, backend, knobs) is what the next line is
  made with, through a rounding scale, the server's clamp and a cache of sources;
  a voice that the list has shown is accepted.
* *Playback.*  The network cuts samples into pieces and breaks off anywhere; the
  player's process dies.  Bytes of two samples must not be played as one, and
  what was held back must be played.
* *Web client.*  Clicks overtake each other at the awaits of one function over
  shared variables; sockets fail and are replaced while the server still serves
  the old one.  Answers carry no identifiers and all frames go to one player.
* *Fragmentation.*  Caps that change from one fragment to the next, marks and
  white space at the very limit.  Nothing may be lost or repeated, no cap
  exceeded, no word or sentence cut without need.
* *Home box.*  Script runs, REPLs, systemd, crashes and the watchdog act on one
  unit, one port and one GPU.  One tenant at a time; a REPL spawns a server only
  where there is no unit; everybody gets an answer; what fails is restarted.
  Script runs may overlap, since nothing orders them: what that breaks must not
  outlast the next run that has the box to itself.

`PROJECT.json` lists the hazards line by line with the properties about them.

## Modules

| Module | Models | EXTENDS / composes |
|---|---|---|
| `GpuSlot` | abstract specification: a bounded first-come line whose head has the GPU | – |
| `GpuQueue` | `_GpuQueue` over `asyncio.Semaphore`: one operator per method | – |
| `Admission` | the callers' side: `_admit_or`, cancellation, the one `release()` owed | `GpuQueue`; implements `GpuSlot` |
| `Admission_proofs` | theorems about `Admission` | `Admission` |
| `SpeechServer` | a request from arrival to end, its worker threads, the watchdog, disconnects, shutdown | `GpuQueue`; implements `Admission` |
| `SpeechServer_proofs` | theorems about `SpeechServer` | `SpeechServer`; instantiates `Admission_proofs` |
| `SidecarPipe` | `PiperEngine`/`RvcEngine` and their sidecars | – |
| `SidecarPipe_proofs` | theorems about `SidecarPipe` | `SidecarPipe` |
| `SourceCache` | `SourceCache` and `PcmCache` with the workers that use them | – |
| `SourceCache_proofs` | theorems about `SourceCache` | `SourceCache` |
| `ServerUnit` | systemd's part for `hosaka-server`, server processes, the port | – |
| `GpuMode` | runs of `gpu_mode.sh`, which may overlap | `ServerUnit` |
| `ReplStart` | `_ensure_server` | `ServerUnit` |
| `HomeBox` | all of these at once | `GpuMode`, `ReplStart` |
| `HomeBox_proofs` | theorems about `HomeBox` | `HomeBox` |
| `Lexicon` | `:pron`, edits in place, `sync_lexicon.sh`, the reload by each server | – |
| `Playback` | `_speak` over the three players of `audio.py`: actions, without a next-state relation | – |
| `ReplSession` | the REPL at its prompt, the voices the server offers and accepts, a knob's way to the engine | `Playback` |
| `ReplSession_proofs` | theorems about `ReplSession` and the playback in it | `ReplSession` |
| `Fragments` | `split_fragments`, a loop iteration a step, and what a text says, read off as a whole | – |
| `TextPath` | what a text goes through before an engine speaks it: the two side by side | `Lexicon`, `Fragments` |
| `TextPath_proofs` | theorems about both | `Lexicon`, `Fragments` |
| `WebSession` | `speak()` of the page, its sockets and worklet, the server's session loop per socket | – |
| `WebSession_proofs` | theorems about `WebSession` | `WebSession` |
| `MC*` | instances for TLC | the module named |

How state and steps correspond to the code:

* **`GpuQueue`, `Admission`.**  `value`, `waiters`, `fut` are `Semaphore._value`,
  `_waiters` and the waiters' futures; `depth` is `_depth`.  The event loop runs
  one task at a time, so a step is what happens between two awaits: `AdmitNow`
  and `AdmitWait` are `_admit_or` up to its first suspension, `TakeTurn` and
  `GiveUp` what the task does when it runs again.  A future that is granted
  stays in the deque until its task runs; `Cancel` may come before (`cancelled`)
  or after (`dropped`) the grant, which are two cases in CPython's
  `Semaphore.acquire`.  A refused request changes nothing and is no step.
* **`SpeechServer`.**  `pc` is the await at which the request's task is suspended;
  `taken` is `_SlotLease.taken`; `worker` and `items` are the thread of the
  current fragment and its queue; `why` is how `_pcm_frames` came to its inner
  `finally`.  Arrival up to `acquire()` returning is taken from `_admit_or`;
  `Prepare`/`PrepareFails` stand for all that runs between the admission and the
  response (lexicon, parameters, fragments); `Start` for the start marker or
  response head together with the generator's first statement; the remaining
  actions follow `_pcm_frames` await by await.  `produce()` runs in a thread:
  its steps interleave freely.  HTTP and WebSocket differ in how a lost client is
  noticed: a WebSocket send raises in `Start` or `Send`, an HTTP response is
  cancelled by Starlette.  That cancellation is anyio's: it is delivered again at
  every await until the scope is left, hence `CancelStream`.  A chunk, an
  exception, a fatal exception and the final `None` are all that is kept of the
  queue's items, and nothing of the text but its number of fragments.
* **`SidecarPipe`.**  `current` is `_proc`; a sidecar's two pipes are `inbox` and
  `outbox`; a frame has its tag, and as history the call it answers.  A call is
  split at the write and at each frame read.  `dying` is a process that has ended
  and that `poll()` does not report yet.  Terminating it in `close()` drops what
  it had not read.
* **`SourceCache`.**  Each file-system call of `get`, `put` and `_evict_disk` is a
  step; `PcmCache` operations are one step, being under their own lock.  A value
  is its size and the version that made it.  Both tiers are sequences, least
  recently used first; on disk that is mtime order.  `Restart` may come between
  any two steps.
* **`ServerUnit`, `GpuMode`, `ReplStart`, `HomeBox`.**  systemd is external; the
  unit file's `Type=simple` and `Restart=on-failure` are modelled by what they do,
  as are job cancellations.  `loading` is imports and warm-up before the port is
  bound, `closing` the drain after SIGTERM.  A script run is split at each
  `systemctl` call, a REPL at each probe and each call.  A `systemctl start` or
  `stop` that has to wait is a job of the client that called it (`job`): a start
  that meets a stop under way cancels it and waits for the process to end, a stop
  cancels the starts that wait, and all jobs of a kind end together (`JobsWith`,
  `Exit`).  Runs of the script overlap, as POSTs to the service and the shell
  wrappers do.  `tangled` is history: "now" once runs have overlapped, "left" when
  one begins after them that has the box to itself, "no" again when that one has
  got its first command through.  The status which the service reads for its
  answer when a run has ended changes nothing, and is left out.
* **`Lexicon`.**  A file is a set of words or does not parse.  An mtime is never
  compared but for equality with the one on record, so `known` says whether
  `Lexicon._mtime` is the file's, and every write makes it FALSE; two writes
  within one tick of the file system's clock are left out by that.  `_refresh` is
  split at its two system calls (`Stat`, `Load`), since other processes write in
  between; a `Stat` that finds nothing new is no step.  `_mtime` is recorded
  before the load, and stays so when `Load` finds a file in pieces.  `:pron` is
  split at its load, its rename and its push; `rsync --inplace` at its read of the
  home file, its first and its last write.  The 15 s limit of `_push_lexicon` ends
  the wait and not the rsync, hence no step.
* **`Playback`.**  A byte is its place in its sample, so a "sample" in the buffer is
  right if its bytes are 0, 1, 2, 3.  `Receive(n)` is one chunk of n bytes of the
  body passed to `write`; `EndUtterance` the `finally` of `_speak`, which runs
  whether the body was complete or not.  `Feed` includes the relaunch and the pipe
  that breaks during the write.  `ReceiveRaises` and `EndRaises` are the two
  exceptions `_speak` does not catch.  Gain and the conversion to 16 bits change
  values, not counts, and are left out.

* **`ReplSession`.**  `voice`, `backend` and `params` are `main()`'s variables; a
  value is in hundredths.  `Voice`/`VoiceMissed` are `:voice` with the answer of
  `_voice_meta`, `CloneFile`/`CloneName` the two branches of `:clone`.  `Offers` is
  `GET /v1/voices`, `Accepts` is `_resolve`: written from the two places in
  `app.py` on their own, so that `VoiceSpeaks` compares them.  `library` is the
  manifest (the number of the recording a voice holds), `sources` the source cache
  by its key.  A line that is accepted is `Speak` of `Playback`, together with what
  the engine made it with (`heard`).  `exaggeration` stands for the three knobs of
  the Chatterbox model.  What a line looks like to `parse_line` is left out but for
  which actions there are: a usage error changes nothing.
* **`Fragments`.**  `parts`, `segment` and `sentence` are what the three nested
  loops still have in front of them.  A character is itself or one of the two long
  dashes; a pause is counted in beats of `DASH_PAUSE_MS`.  The regular expressions
  are the sets of places they match at.  `1.1` is a fraction, and `ceil` exact.
  `spoken` is the code's count of fragments that are not pauses.  Its specification
  is `SplitSpec`, with names of its own, since it shares a module of proofs with
  `Lexicon`.
* **`WebSession`.**  `task` is where a click's `speak()` is suspended; the shared
  variables `ctx`/`node` are `audio`, and `ws` the current socket.  What follows the
  last await is one step (`Finish`), also when it raises half-way.  A socket is
  FIFO each way; the page's port to its worklet is a queue of its own, so that a
  flush and the frames keep their order.  A session of the server is a state per
  socket; all compete for the one slot.  A session whose socket is lost ends
  (`Abandon`), or is `wedged`: its send raised while the engine hangs on what it
  makes next, and the generator's `finally` awaits the worker without a limit
  (`Wedge`, finding 2), so that the slot is never given back.  A queued session
  notices a lost socket only when it has the slot.  Messages know their line for
  the properties only.
* **`TextPath`.**  `lexicon.apply` and `_fragments_for` stand in one expression of
  each route (`app.py:389`, `:433`).  They share no state, so the composition only
  says that neither moves the other.

Definitions whose comment begins "A fault:" are not used by any specification.
They are what the mutants listed in `PROJECT.json` put in the place of a modelled
definition, to show that the property would notice.

## Runs

| Run | Instance | Checks | Shows |
|---|---|---|---|
| `admission` | 4 requests, cap 3 | `TypeOK`, `SlotConserved`, `NoIdleSlot`, `DepthIsExact`, `ServedInOrder`, `LineMovesUp` | one request more than the cap: refusals, a holder with two waiters, cancellations before and after the grant.  The unit is conserved, no wake-up is lost, and the whole implements the FIFO line: its order (`ServedInOrder`) and its liveness (`LineMovesUp`) |
| `speech` | 1 HTTP and 1 WebSocket request, both may leave, ≤ 2 fragments, 1 chunk, calls may hang | `CleanEndIsComplete`, `SlotFollowsThread`, `IsAdmission`, `WedgeIsNoticedIfHeard`, `EverythingEnds` | the slot is released exactly once on every path, and what is left of the two broken promises below: how the slot may leave a running thread, and how a request may be stuck |
| `speech_http_gone` | 2 HTTP requests, 1 leaves | `OneAtATime` (violated) | [finding 1](#findings) |
| `speech_wedge_unseen` | 2 WebSocket requests, 1 leaves, calls may hang | `WedgeIsNoticed` (violated) | [finding 2](#findings) |
| `sidecar` | 2 callers one at a time, 3 processes, ≤ 2 audio frames, a pipe of 2 frames | `OwnFrames`, `NeverTruncated`, `DeathCostsOneCall`, `EveryCallEnds` | deaths before, during and after a response, failures between frames and a full pipe never move a frame to another call |
| `source_cache` | 2 workers, 2 keys, 2 versions, RAM 2, disk 3, sizes 1–4 | `RamBudget`, `VersionsApart`, `PutLeavesRoom` | accounting and eviction at and beyond the budgets, restarts anywhere |
| `home_box` | 2 REPLs, 2 script runs, 1 crash, unit installed or not; 2 REPLs beside runs one after the other, 1 REPL beside runs that overlap | `OneTenant`, `SpawnOnlyWithoutUnit`, `ReplIsAnswered`, `SwitchEnds`, `CrashIsRepaired` | the arbiter, systemd and the REPLs together, switches that cancel each other's jobs among them: who may bring up both tenants, and that the next run alone on the box ends it |
| `two_switches` | 2 script runs, no REPL, no crash | `NeverMixed` (violated) | [finding 4](#findings) |
| `respawn` | 1 script run and the watchdog | `WatchdogIsRepaired` (violated) | [finding 3](#findings) |
| `text_path` | 1 word, 2 runs of the sync script; every sequence of ≤ 5 out of 10 tokens, cap 5, ramp from 2 by 3/2 | `Coherent`, `HomeSavedWhole`, `CatchesUp`; `SpokenAsWritten`, `WithinCap`, `WholeWords`, `FullFragments` | the lexicon: edits of both kinds, pushes that overlap or fail, and loads of files in pieces; each server catches up with the file it has.  The split: words, white space, marks and dashes in any order, with and without the ramp, against what the text says |
| `repl` | a preset, the two character voices, 2 names to clone, 2 clips, knobs at 20 and 150; samples of 4 bytes, ≤ 4 an utterance, a lead of 2; any number of commands and utterances | `VoiceSpeaks`, `KnobsAreShown`, `HeardAsShown`, `Aligned`, `AllHandedOver`, `LeadIsKept` | every order of commands, with any of the models installed and a list that may not answer; every way to cut an utterance into chunks and to break it off, and players that die between any two of them |
| `web_session` | 2 clicks, 2 sockets, ≤ 2 frames a line | `AnswersInOrder`, `OneVoice`, `LostForCause`, `EveryClickEnds` | clicks that overtake each other at every await, sockets that do not open or are lost at any point, answers of every kind |

`home_box` bounds what may race: `MaxRacing` = 2 counts the REPLs that start, and
one for runs that overlap.  Two REPLs meet at the unit and at the port, two runs at
each other's jobs, and a REPL and two overlapping runs at a start that all three
share (534 797 states).  What is not looked at is two REPLs at once beside runs
that overlap; for the invariants the proofs cover it.  `text_path` splits a text beside a lexicon at
rest, and moves the lexicon while there is no text: the two share no state.

Why the bounds are enough.  Requests differ only in how they arrive and leave:
what happens to one depends on who holds the slot and who stands before it, which
three admitted requests and a refused one cover.  A fragment after another one
shows that the loop is entered again with a fresh queue; one chunk shows a send
between worker steps.  A pipe of two frames is shorter than a response of two
frames and a terminator, so the sidecar blocks.  The disk tier of 3 holds a value
of size 3, or of sizes 2 and 1, and refuses one of size 4; the RAM tier of 2
refuses 3.  Three sidecars let two die in a row.  A second crash repeats the
first.  One word is in a file or not, which tells an old map from a new one; two
pushes overlap at every stage, and a third changes nothing that two do not.  Four
samples over a lead of two give utterances shorter than the lead, equal to it and
longer.  A knob at 20 lies on its scale and one at 150 beyond it, on either side
of the default.  A recording may bear the name of a character voice or of the
source of one; a second clip under a name is what makes a cached source stale.
Five tokens hold two sentences with a mark inside one, or two dashes with speech
around them; caps of 2, 3 and 5 lie below, at and above a token.  Two clicks race
at each of the awaits, and each may have a socket of its own; three of each with
one frame give no other result for the three invariants (8.9 million states).
For every invariant the proofs below remove the bounds altogether; what rests on
the instance's size are the liveness properties.

In `ReplSession` the constant-like variable `focus` is a bound as well: a session
is one of commands, whose lines have an empty body, or one of lines, whose voice
and knobs stay.  The player keeps nothing of a command and the choices nothing of
a line's sound, so nothing can go wrong between the two that does not go wrong in
one of them, and the product of their states is not looked at.

`CHECK_DEADLOCK FALSE` stands where the modelled system may come to rest: a box
on which nobody starts anything more (`HomeBox`), a REPL session that has ended,
and a request stuck behind a wedged engine (the three `SpeechServer` runs).

The type invariants of the modules of which the table does not name one are what
their variables are meant to hold; that of `Admission` is checked in its run, and
each is proved as a part of its module's inductive invariant (that of `Fragments`
is in `SplitInv`).

## Fairness

* The event loop runs a task that can run (`LoopStep`, `TakeTurn`, `GiveUp`), and
  a thread that does not hang goes on (`WorkerStep`).
* `ClientStep`: a connected client reads or goes away.  The server has no time
  limit for one that does neither, so without this assumption no request need
  end; it is listed as a hazard.
* uvicorn polls its exit flag (`StopAccepting`, `Exit`).
* `Finish` in `Admission` assumes that a holder finishes; `EverythingEnds` is
  that statement, checked on `SpeechServer`.
* A live sidecar works, and the kernel soon lets `poll()` know of a dead one.  A
  sidecar that hangs is the watchdog's case in `SpeechServer`.
* A server process goes on loading or closing, systemd restarts after its delay,
  a script or REPL once started goes on.  Nobody has to start, stop, leave or
  crash.
* Requests keep coming to both servers (`Stat`, `Load` of `Lexicon`): without one
  nothing looks at the file, and nothing is spoken either.  No edit or push has to
  happen or to succeed.

* A browser resolves or rejects what it was asked for and runs the task that waits
  for it; a socket delivers or is lost.  A session of the server goes on as long
  as it can: it takes its turn at the slot when the slot is free (`Admission`), and
  sends, fails, or, once its socket is lost, ends or is wedged.  `SpeechServer` is
  why, with its one exception: nothing is assumed to end a wedged session, and
  those queued behind it wait for ever.  `EveryClickEnds` has this exception and no
  other.  Nobody has to click, and no connection has to break.

All of it is weak fairness.

## Proofs

Each theorem holds for every value of the constants that meets the assumptions
named in the modules: `MaxDepthAssumption`, `SpeechAssumption`, `PipeAssumption`,
`CacheAssumption`, `UnitAssumption` and those of the modules over it,
`PlaybackAssumption` and `ReplAssumption`, `WebAssumption`,
`FragmentsAssumption`.  They say what the constants are (budgets are
natural numbers, a knob's settings are integers, "unit" is not the name of a REPL)
and bound nothing.  Three kinds of theorems have a hypothesis besides, which is a
constant of the model and names an environment that the code relies on; it is
written into the theorem, `H => (Spec => []P)`, and every one of them is met by
an instance among the runs:

| Hypothesis | Theorems | Why |
|---|---|---|
| `~Overlap` (calls to a sidecar follow one another) | all of `SidecarPipe_proofs` | the engines are called with the one GPU slot held; what an early release does is finding 1, and the hazard at `rvc_engine.py:121` |
| `Leaver \subseteq WsRequest` (no HTTP client leaves) | `OneThreadAtATime` | with one that does, it is false: finding 1; `speech_wedge_unseen` is an instance without |
| `SystemctlAnswers` | `NoSecondServer` | without it, it is false, see below |

No proof needs a finite set of requests, calls, workers, REPLs, clicks, sockets,
words or texts.  In every module the inductive invariant, `IInv` (`SplitInv` for
`Fragments`), was checked by TLC on the
run's instance before it was proved.

* **`Admission_proofs`.**  `TypeOK`, `SlotConserved`, `NoIdleSlot` and
  `DepthIsExact` are not inductive one by one.  The unit is conserved only if the
  deque and the futures agree on who waits; `value` stays in {0, 1} only if the
  unit is conserved; `depth` stays within the cap only if it counts the admitted.
  `IInv` is their conjunction with that agreement (every suspended task is in the
  deque exactly once, and exactly the waiting are suspended).  `Invariance` is
  `Spec => []IInv`, one step per action, resting on lemmas about `deque.remove`
  (`WithoutElements`) and about `WakeUpNext`.  `TypeCorrect`, `Conservation`,
  `NoLostWakeup` and `ExactDepth` follow; the count in `DepthIsExact` needs no
  finite `Request`, since the admitted are shown to be finitely many at every step.
  `FirstComeFirstServed` is the refinement of `GpuSlot` (`ServedInOrder`): the line
  is the slot's owner and the pending waiters in deque order, `AdmitNow` and
  `AdmitWait` are `Join`, a `Cancel` before the grant is `QuitWaiting`, a release or
  a dropped grant is `HeadLeaves`, and `TakeTurn` changes nothing, because waking the
  first pending waiter only turns it from the first of the waiting into the owner
  (`WakeLine`).  The laws of `Pending`, a recursive function over the deque, are
  proved by induction over sequences (`SeqInduct`): what it makes of an append, of
  two deques in a row (`PendingConcat`), of a change that concerns nobody in the
  deque, and of one waiter that stops being pending (`PendingDrop`).
* **`SpeechServer_proofs`.**  `ServerImplementsAdmission` maps `pc` to a phase and
  shows that each step of the server is a step of `Admission` or leaves the queue
  as it is, by `LeaseInv`: a lease that the generator has not started under is
  untaken, so that `release_if_untaken` releases.  `ThreadInv` says where a
  request can be while its thread runs: in the generator's loop, or gone if it was
  an HTTP request.  `WsThreadCovered` follows, that a WebSocket utterance has the
  slot as long as its thread runs; and `OnlyCancellationOvertakes`
  (`SlotFollowsThread`): of all steps only the cancelled response of a lost HTTP
  client takes the slot from a running thread.  `EndsRunning` goes through the
  steps that end a request, `ServerGoesDown` through those that change the
  process's state.  `StreamInv` follows what a request's thread, its queue and its
  generator still have to send: as long as nothing has failed it is exactly what
  is missing, hence `CleanEnds` (`CleanEndIsComplete`).  The theorems about
  `Admission` hold of the server through the refinement: `ServerServesInOrder` is
  its order of service, and `OneThreadAtATime` combines the queue's `SlotConserved`
  with `StayInv` (while no HTTP client leaves, whoever runs has the slot).
* **`SidecarPipe_proofs`.**  A call's frames are its own because the pipes and the
  sidecar hold nothing else: `IInv` says where the one request under way is (in the
  inbox, being worked on, or answered or lost with the process), that the frames in
  the pipe are its response from where the call has read to, and that every pipe of
  every process is empty otherwise (`PipesBelongToTheCall`).  `FramesAreOwn`,
  `CompleteOrError` and `OneCallPerDeath` read it off.
* **`SourceCache_proofs`.**  Byte counts are sums over sequences: the lemmas at the
  beginning say what `Total` makes of an append, a removal, a cut and a
  concatenation, by a least-element argument.  `RamInv` (the count is the sum, no key
  twice, the running version's values only), `DiskInv` and `Evicting` (what a worker
  under the lock has yet to unlink is what is on disk) give `CacheInvariance`;
  `RamWithinBudget`, `NoStaleVersion` and the action property `PutEvicts`
  (`PutLeavesRoom`) follow.
* **`HomeBox_proofs`.**  `JobsInv` relates the unit's state, its process and
  everybody's jobs; `SpawnInv` is that no REPL is about to spawn where there is a
  unit; `RunsInv` says which runs may have which jobs.  `TenantInv` follows the
  script runs: once runs no longer overlap there is one at a time, and from the end
  of its stop to its last command nothing but a REPL may have the unit up
  (`Cleared`); once such a run has got its stop through, the same holds for as long
  as ollama is active.  What servers, systemd and REPLs do to the unit is one lemma
  (`Keeps`: they get it up only as it was, by a REPL, or by a start that a run still
  waits for), what the own steps of a run do another (`OwnStep`).  `BoxInvariance`,
  then `TenantsApart` (`OneTenant`), for runs that overlap or not, and
  `NoSecondServer` (`SpawnOnlyWithoutUnit`).
* **`TextPath_proofs`, the lexicon.**  `Coherent` speaks of a server at rest; in the middle of a
  `_refresh` it would be broken by a write unless the server then knows that it is
  behind.  `LookingIsBehind` says that (between stat and load the file's mtime is
  never the recorded one) and `UpToDate` is `Coherent` between the two calls as
  well.  With the types and `HomeSavedWhole` they make `IInv`
  (`LexiconInvariance`); `CacheCoherent` and `SavedWhole` follow, for any number
  of words and of overlapping pushes.
* **`ReplSession_proofs`.**  Playback is arithmetic modulo the sample width, which is
  any positive number here: `ByteInv` says that the carried bytes are the first of
  the sample the stream is in, `CountInv` that every byte received was handed over, is
  held for the lead or is carried, both until one of the events that `Aligned`
  excepts.  `ChoiceInv` is about the commands: a voice that was listed or cloned is
  still accepted, a knob shows what it was given on whatever scale, and each source
  in the cache was made from the clip its key named then.  Six theorems follow, one
  for each invariant of `repl`.
* **`WebSession_proofs`.**  `ClickInv` says where clicks can be when others are under
  way, `SocketInv` which sockets they own; `ClicksLostForCause` follows, with
  `RefusedInv` for its third cause: a socket that closes before it opens is never
  used again (`NeverOpens`), and only its own socket refuses a click
  (`RefusedByItsSocket`).
  Answers carry no identifiers, so what the page does by counting is right only if,
  on each socket, the messages delivered, those on the way, the line being spoken and
  the lines not yet read are the lines sent, in order (`AnswersOn`): then the n-th
  answer is to the n-th line (`CountingIsEnough`).  For the one player, `FlowInv`
  says that everything behind a frame, up to the worklet's queue and down to the
  last socket, is of its line or of one sent later; a click flushes what is before its
  own line (`HeardOneAfterAnother`).

* **`TextPath_proofs`, the split.**  The four invariants of `Fragments` compare the
  fragments with what `Written`, `Place` and `Cuts` read off the text as a whole,
  and none of them is inductive.  `SplitInv` is: whatever is left to do are three
  stretches of the text, the rest of the sentence (`c` to `d`), the rest of the part
  (`a` to `b`) and all from `p` on, with only white space between them (`Ordered`,
  `Stretches`).  There is no dash before `p` that is not done with (`DashesApart`)
  and no sentence ends within `c` to `d` (`OneSentence`).  Behind them, each spoken
  fragment is a stretch of the text within the cap of its place in the ramp (`Span`),
  and what comes after it begins at the next spoken character, cut off as it should
  be (`Followed`; `Follows` for the last fragment, whose successor is not there yet).
  What was heard is what was written before `c`, but for pauses that were dropped at
  the end (`HeardSoFar`).  One lemma a step (`SegmentKeeps`, `SentenceKeeps`,
  `PieceKeeps`, `DashKeeps`, `DropKeeps`), and `SplitInvariance`.  From it follow
  `SplitSpeaksAsWritten`, `SplitWithinCap`, `SplitWholeWords` and
  `SplitFullFragments`, for every set of texts, every cap, and every ramp that does
  not shrink; and `SplitEnds`: each pass of the loops leaves less to do by a count
  that begins at four times the text's length, so that every split comes to an end,
  which rests on a cut never being at 0.  Sums over a text are `FlattenSeq` of its
  places, the library's fold; its laws (what it makes of one more place, of two
  stretches in a row) are proved first, from the function it is, by taking the least
  number at which a law would fail (`Least`, `Induct`).  `Char` is
  `STRING` with the space named: the provers do not know that a string literal is in
  `STRING`.

Only model-checked: all liveness (`LineMovesUp`, `EverythingEnds`,
`WedgeIsNoticedIfHeard`, `EveryCallEnds`, `ReplIsAnswered`, `SwitchEnds`,
`CrashIsRepaired`, `CatchesUp`, `EveryClickEnds`), since fairness and ENABLED are
beyond the proof system.  The violated properties of the four findings are false,
and only model-checked by that.

## Findings

Each is a run in which TLC finds the behaviour; `PROJECT.json` has the lines.

1. *An HTTP client that leaves frees the slot under a running worker.*  Starlette's
   cancellation is repeated at every await: the second one ends
   `await asyncio.shield(fut)`, and the outer `finally` releases.  The next
   request's worker then runs beside the first, against the comment there and
   ARCHITECTURE.md.  A WebSocket does not have the problem
   (`WsThreadCovered`), and nothing else causes it (`OnlyCancellationOvertakes`).
2. *A wedge behind a lost WebSocket is never noticed.*  The watchdog times queue
   reads only.  If the client leaves during a send while the engine hangs, closing
   the generator awaits the worker without limit; the slot stays held.
3. *The watchdog's exit is not respawned.*  It is SIGTERM to itself, a clean exit,
   and the unit says `Restart=on-failure`.
4. *Two switches of the GPU mode leave both tenants up.*  Nothing orders runs of
   `gpu_mode.sh`: the service's handlers run it in a thread pool, and the shell
   wrappers run it too.  A homo that begins after an emo has stopped hosaka-server
   starts it again, and the emo then starts ollama without another look; both are
   over and both tenants are up.  `gpu_mode.py:9-10` and `gpu_mode.sh:22` call that
   an invariant violation, and the design document says that it cannot happen.
   `OneTenant` says what is left: without a REPL and without such an overlap it
   does not happen, and the next run alone on the box ends it.

More that the models showed, short of a finding with a run of its own:

* A `systemctl` that fails or times out looks like a missing unit
  (`cli/repl.py:81`), and the REPL spawns a server beside it.  `HomeBox` has the
  case behind `SystemctlAnswers`: FALSE breaks `SpawnOnlyWithoutUnit`, which
  `home_box` checks with TRUE.
* A put's own blob may be the one it evicts, when another thread's reads touch
  every older blob between the rename and the scan.  `PutLeavesRoom` states what
  does hold.
* A stream that breaks off within a sample leaves bytes in `PacatPlayer._tail`,
  which has no reset: every later utterance of the session is shifted by them and
  played as noise.  `FfplayPlayer` has the reset, but loses the same bytes when it
  relaunches within an utterance.  `Aligned` states these two exceptions.
* The same break makes `WinSoundPlayer.end_utterance` raise from the `finally` of
  `_speak`, and a dead pacat makes `write` raise: both end the session.
* A request that meets the lexicon in the middle of a write fails; the next one
  speaks with the old map, without another attempt to load, until the mtime
  changes.  Writers that finish change it, so `CatchesUp` holds; a file left with a
  syntax error is not reported twice.
* The rsync of a push that the REPL gave up on goes on, and may put an older
  lexicon over a newer one on the droplet; the next push mends it.

* A fragment may be one character longer than its cap: the space that joins a
  sentence to the one before it is added after the cut (`chunking.py:121`, `:170`),
  though `chunking.py:52` says that `max_chars` caps every fragment.  At a cap of
  280 this does no harm.  `WithinCap` states it.
* `_boundary` looks for a space only: words on lines of their own, longer together
  than the cap, are cut in their middle although a newline was in reach.
  `WholeWords` is about spaces for that reason.
* The key of a cached source names the library voice, not its recording: after a
  new `:clone` of `charlie_cb`, fragments spoken before are replayed with the old
  one until they are evicted or `SOURCE_CACHE_VERSION` changes.  `HeardAsShown`
  has the exception.  Without `charlie_cb` in the library charlie is listed and
  accepted all the same, and speaks with the Chatterbox model's own voice.
* `:backend rvc`, which README.md:125 recommends, is a usage error
  (`cli/replcmd.py:50`); `:help` names backends `k|c|p` that are not accepted
  either.  `:voice` reaches RVC voices.
* A clone with the name of a character voice comes first in the list, so `:voice`
  of that name selects the clone from then on.
* `:` alone, `:voices` with the server down and `:clone` of a directory raise, and
  end the session (`CommandRaises`).
* On the WebSocket a text that is not JSON closes the socket (`receive_json` raises
  an exception that the route does not catch), though docs/API.md:41 promises an
  error message to a malformed request and an open socket.
* In the page, a second click while the worklet loads, or while a socket connects,
  ends in an exception, and a worklet that does not load leaves the page without
  sound until it is reloaded.  A lone click can be lost as well, when its socket
  does not open ("ws error").  `LostForCause` shows that these are the causes, and
  that a click lost in the last way is so by its own socket.
  The page dims the Chatterbox knobs for RVC voices, to which they do apply, and
  sends its sliders' values over the voice's own; its fallback voice `af_heart` is
  one the server refuses.

## Not modelled

* Text normalization: it rewrites clock times into words by regular expressions, so
  a model of it would be its wording again.  Health and status routes: reads.
* The splitting mode that only shortens the first fragment: no caller uses it.
* The volume, which multiplies samples; the REPL's history file, help and messages;
  the page's voice list and sliders; the position within a chunk in the worklet.
* A WebSocket client that sends a second line before the first is answered is in
  `WebSession`; the bound on what may pile up in its socket is the network's.
* What a process that the watchdog has given up still promises: it lets the next
  request in beside the wedged call and ends a truncated stream like a complete
  one.  The properties of `SpeechServer` speak of a process that is up.
* The engines' models and signal processing: an engine is a worker that produces,
  fails or hangs.
* Authentication: the gpu-mode service's token and the HTTP deployment in front.
* Temporary files, a disabled cache, a clock that steps back (`SourceCache`).  A blob
  that cannot be unlinked: `_evict_disk` goes on to the next one
  (`cache.py:134-135`), and if they all fail a put leaves the disk over its budget,
  which `PutLeavesRoom` would not forgive.
* The answer of the gpu-mode service: `parse_mode` shows "mixed" as idle.
* In the page, an audio context that cannot be created or resumed; the restart of
  the server process, which would end a wedged session.
* A `systemctl` that fails within `gpu_mode.sh` for a reason other than a
  cancelled job.
* Baking, set-up, deployment and benchmark scripts: one-shot tools.
* Two REPLs that edit the lexicon at once: they read, modify and write one file
  through one temporary file, and an edit is lost.  Two edits within one tick of
  the file system's clock.  How words are matched.
* Two writers of the voice library's manifest at once (the REPL and the bake tool):
  as with the lexicon, one entry is lost.

## Plan

The modules are written, in this order:

1. `GpuSlot`, `GpuQueue`, `Admission`: the slot everything shares, with its proofs.
2. `SpeechServer` over it: refinement, disconnects, the watchdog; proofs.
3. `SidecarPipe`: the engines behind a worker.
4. `SourceCache`.
5. `ServerUnit`, `GpuMode`, `ReplStart`, composed in `HomeBox`.
6. `Lexicon`, with its proofs; `TextPath` when there were `Fragments`.
7. `Playback`, and `ReplSession` around it.
8. `Fragments`.
9. `WebSession`.

Every invariant and action property of the passing runs, and both refinements, are
proved; the liveness properties stay with TLC.  What is left is breadth: two threads
on one sidecar after an early release, the restart delay of a unit as `gpu_mode.sh`
sees it, two writers of one JSON file.
