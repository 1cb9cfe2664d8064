---------------------------- MODULE ReplSession -----------------------------
(***************************************************************************)
(* A REPL session at its prompt: the commands of hosaka/cli/repl.py and    *)
(* replcmd.py, the voices the server offers and accepts (hosaka/server/    *)
(* app.py, library.py), and what becomes of a knob on its way from the     *)
(* prompt to the engine (config.py, schemas.py, rvc_engine.py).  A line    *)
(* that is accepted is spoken by Playback.                                 *)
(*                                                                         *)
(* Values of knobs are hundredths.  exaggeration stands for the three      *)
(* knobs of the Chatterbox model, which all take the same way.  A clip is  *)
(* the number of the recording a library voice holds, 0 for none.          *)
(***************************************************************************)
EXTENDS Integers, Playback, FiniteSetsExt

CONSTANTS
    Preset,        \* KOKORO_PRESETS
    PiperVoice,    \* PIPER_VOICES
    RvcVoice,      \* RVC_VOICES with a Chatterbox clone as their source
    RvcSource,     \* the library voice they are made from
    ClipName,      \* names of recordings a user may clone
    DefaultVoice,  \* DEFAULT_VOICE
    Pct,           \* numbers a user may give a knob
    MaxClips,      \* bound: recordings added to the library
    None

ASSUME ReplAssumption ==
    /\ Pct \subseteq Int
    /\ None \notin Int

VARIABLES
    focus,         \* bound: whether the session exercises "commands" or "lines"
    available,     \* the character voices whose models are installed
    library,       \* the manifest: the clip of each voice
    sources,       \* the source cache: the clip an RVC source was made from, by its knob
    voice, backend, params,
    asked,         \* history: what the user gave a knob since a voice last set it
    assured,       \* history: the voice was listed or cloned, and the backend left alone
    heard          \* history: what the line being spoken was made with

voicesVars == <<focus, available, library, sources>>
choiceVars == <<voice, backend, params, asked, assured>>
vars == <<playbackVars, voicesVars, choiceVars, heard>>

Name == Preset \cup PiperVoice \cup RvcVoice \cup {RvcSource} \cup ClipName
Knob == {"exaggeration", "speed"}
Backend == {"kokoro", "chatterbox", "piper", "rvc"}

-----------------------------------------------------------------------------
(* Knobs                                                                   *)

\* KNOB_RANGES: minimum, default, maximum.
KnobRange == [exaggeration |-> [lo |-> 0, mid |-> 50, hi |-> 200],
              speed        |-> [lo |-> 50, mid |-> 100, hi |-> 200]]

\* What the RVC voice's source_params and speed say.
VoiceDefault == [exaggeration |-> 40, speed |-> 110]

Clamp(x, lo, hi) == Max({lo, Min({hi, x})})

\* A fault: no clamp at the end of the scale.
PctUnclamped(k, pct) ==
    LET r == KnobRange[k]
    IN  IF pct <= 50 THEN r.lo + (pct * (r.mid - r.lo)) \div 50
        ELSE r.mid + ((pct - 50) * (r.hi - r.mid)) \div 50

\* pct_to_native: piecewise linear, with the default at 50.
PctToNative(k, pct) ==
    LET r == KnobRange[k]
        p == Clamp(pct, 0, 100)
    IN  IF p <= 50 THEN r.lo + (p * (r.mid - r.lo)) \div 50
        ELSE r.mid + ((p - 50) * (r.hi - r.mid)) \div 50

\* native_to_pct, which :status shows.
NativeToPct(k, value) ==
    LET r == KnobRange[k]
    IN  IF value <= r.mid THEN ((value - r.lo) * 50) \div (r.mid - r.lo)
        ELSE 50 + ((value - r.mid) * 50) \div (r.hi - r.mid)

\* clamp_params: what the server makes of a request's knob.
ClampParam(k, value) == Clamp(value, KnobRange[k].lo, KnobRange[k].hi)

-----------------------------------------------------------------------------
(* Voices                                                                  *)

\* The character voices that main.py finds models for; without any, or
\* without its interpreter and assets, an engine is not built.
Installed == SUBSET (PiperVoice \cup RvcVoice)

\* VoiceLibrary.path_for: the manifest has the voice.
HasClip(n) == library[n] > 0

\* VoiceLibrary.add: the file is copied and the manifest's entry written over.
AddClip(n) == library' = [library EXCEPT ![n] = @ + 1]

\* A fault: every character voice is listed, installed or not.
OffersAll(b, n) ==
    \/ b = "kokoro" /\ n \in Preset
    \/ b = "chatterbox" /\ HasClip(n) /\ n # RvcSource
    \/ b = "piper" /\ n \in PiperVoice
    \/ b = "rvc" /\ n \in RvcVoice

\* GET /v1/voices lists n under the backend.
Offers(b, n) ==
    \/ b = "kokoro" /\ n \in Preset
    \/ b = "chatterbox" /\ HasClip(n) /\ n # RvcSource
    \/ b = "piper" /\ n \in PiperVoice \cap available
    \/ b = "rvc" /\ n \in RvcVoice \cap available

\* The order of the list, by backend.
ListOrder == <<"kokoro", "chatterbox", "piper", "rvc">>

\* _voice_meta: the first entry that bears the name is the backend's.
FirstListed(b, n) ==
    \E i \in DOMAIN ListOrder :
        /\ ListOrder[i] = b
        /\ Offers(b, n)
        /\ \A j \in 1..(i - 1) : ~Offers(ListOrder[j], n)

\* _resolve: the server takes a request for the voice on the backend.
Accepts(b, n) ==
    \/ b = "kokoro" /\ n \in Preset
    \/ b = "chatterbox" /\ HasClip(n)
    \/ b = "piper" /\ n \in PiperVoice \cap available
    \/ b = "rvc" /\ n \in RvcVoice \cap available

\* main.py and main() of the REPL, on a library that may hold the source.
Init ==
    /\ PlaybackInit
    /\ focus \in {"commands", "lines"}
    /\ available \in Installed
    /\ \E clip \in {0, 1} : library = [n \in Name |-> IF n = RvcSource THEN clip ELSE 0]
    /\ sources = [e \in {} |-> 0]
    /\ voice = DefaultVoice
    /\ backend = "piper"
    /\ params = [k \in Knob |-> KnobRange[k].mid]
    /\ asked = [k \in Knob |-> None]
    /\ assured = FALSE
    /\ heard = None

-----------------------------------------------------------------------------
(* Commands                                                                *)

AtPrompt == session = "up" /\ ~speaking

\* :voice with a name the server lists: its backend, and its knobs if it has any.
Voice(n) ==
    /\ AtPrompt
    /\ \E b \in Backend : FirstListed(b, n) /\ backend' = b
    /\ voice' = n
    /\ assured' = TRUE
    /\ IF backend' = "rvc"
         THEN params' = VoiceDefault /\ asked' = [k \in Knob |-> None]
         ELSE UNCHANGED <<params, asked>>
    /\ UNCHANGED <<playbackVars, voicesVars, heard>>

\* :voice with a name it does not list, or no answer within the two seconds.
VoiceMissed(n) ==
    /\ AtPrompt
    /\ voice' = n
    /\ assured' = FALSE
    /\ UNCHANGED <<playbackVars, voicesVars, backend, params, asked, heard>>

\* :clone of an existing file, which VoiceLibrary.add takes in under its stem.
CloneFile(n) ==
    /\ AtPrompt
    /\ library[RvcSource] + SumSet({library[m] : m \in ClipName}) < MaxClips
    /\ AddClip(n)
    /\ voice' = n
    /\ backend' = "chatterbox"
    /\ assured' = TRUE
    /\ UNCHANGED <<playbackVars, focus, available, sources, params, asked, heard>>

\* :clone of anything else.
CloneName(n) ==
    /\ AtPrompt
    /\ voice' = n
    /\ backend' = "chatterbox"
    /\ assured' = FALSE
    /\ UNCHANGED <<playbackVars, voicesVars, params, asked, heard>>

\* :backend, which has no word for rvc.
SetBackend(b) ==
    /\ AtPrompt
    /\ b # "rvc"
    /\ backend' = b
    /\ assured' = FALSE
    /\ UNCHANGED <<playbackVars, voicesVars, voice, params, asked, heard>>

\* :exag, :cfg, :temp, :speed
SetParam(k, pct) ==
    /\ AtPrompt
    /\ params' = [params EXCEPT ![k] = PctToNative(k, pct)]
    /\ asked' = [asked EXCEPT ![k] = pct]
    /\ UNCHANGED <<playbackVars, voicesVars, voice, backend, assured, heard>>

\* An exception main() does not catch: ":" alone, :voices without a server,
\* :clone of a directory, :pron list of an unreadable lexicon.
CommandRaises ==
    /\ AtPrompt
    /\ session' = "crashed"
    /\ UNCHANGED <<player, speaking, received, cut, playerVars, voicesVars, choiceVars, heard>>

-----------------------------------------------------------------------------
(* A line                                                                  *)

\* A fault: the source is looked up without its knob.
SourceKeyFixed(exaggeration) == 0

\* The key of a source in the cache of RvcEngine: its knobs, not its clip.
SourceKey(exaggeration) == exaggeration

\* What the engine makes the line with; a source may come from the cache.
Made(key, replayed) ==
    [exaggeration |-> IF replayed THEN sources[key].exaggeration
                      ELSE ClampParam("exaggeration", params.exaggeration),
     clip |-> IF replayed THEN sources[key].clip
              ELSE library[IF backend = "rvc" THEN RvcSource ELSE voice],
     speed |-> ClampParam("speed", params.speed),
     replayed |-> replayed]

\* The cache once it has the source.
Kept(key, made) ==
    [e \in DOMAIN sources \cup {key} |->
        IF e = key THEN [exaggeration |-> made.exaggeration, clip |-> made.clip]
        ELSE sources[e]]

\* The server accepts the line; of an RVC voice, the source is kept.
SpeakLine(replayed) ==
    LET key == SourceKey(ClampParam("exaggeration", params.exaggeration))
    IN  /\ Accepts(backend, voice)
        /\ Speak
        /\ replayed => backend = "rvc" /\ key \in DOMAIN sources
        /\ heard' = Made(key, replayed)
        /\ sources' = IF backend = "rvc" THEN Kept(key, heard') ELSE sources
        /\ UNCHANGED <<focus, available, library, choiceVars>>

\* It refuses the line, or is busy or down: nothing but a message.
SpeakRefused ==
    /\ AtPrompt
    /\ UNCHANGED vars

Command ==
    \/ \E n \in Name : Voice(n) \/ VoiceMissed(n) \/ CloneName(n)
    \/ \E n \in ClipName : CloneFile(n)
    \/ \E b \in Backend : SetBackend(b)
    \/ \E k \in Knob, pct \in Pct : SetParam(k, pct)
    \/ CommandRaises

(***************************************************************************)
(* The player keeps nothing of a command and the choices nothing of a      *)
(* line's sound, so TLC looks at the two apart: in a session of commands   *)
(* every line is empty (its body has no bytes), in a session of lines the  *)
(* voice and knobs stay as they are.                                       *)
(***************************************************************************)
Next ==
    \/ focus = "commands" /\ Command
    \/ \E replayed \in BOOLEAN : SpeakLine(replayed)
    \/ SpeakRefused
    \/ /\ (focus = "lines" /\ LineStep) \/ EndUtterance \/ Quit
       /\ heard' = IF speaking' THEN heard ELSE None
       /\ UNCHANGED <<voicesVars, choiceVars>>

Spec == Init /\ [][Next]_vars

-----------------------------------------------------------------------------
(* Properties                                                              *)

\* A voice that :voice found in the list or :clone took in is accepted until
\* the user names another voice or backend: the list and _resolve agree.
VoiceSpeaks == assured => Accepts(backend, voice)

(***************************************************************************)
(* A knob shows what the user gave it, cut to the scale, until a character *)
(* voice brings its own; while such a voice is on, an untouched knob has   *)
(* the voice's value, which is not lost to rounding or to a list that did  *)
(* not answer.  Otherwise it may keep what the last character left.        *)
(***************************************************************************)
KnobsAreShown ==
    \A k \in Knob :
        /\ asked[k] # None => NativeToPct(k, params[k]) = Clamp(asked[k], 0, 100)
        /\ asked[k] = None => params[k] \in {KnobRange[k].mid, VoiceDefault[k]}
        /\ asked[k] = None /\ assured /\ backend = "rvc" => params[k] = VoiceDefault[k]

(***************************************************************************)
(* A line is made with the knobs the session shows and the clip the        *)
(* library holds, through the clamp of the server and the source cache.    *)
(* The exception: a source the cache has from before its clip was replaced *)
(* is replayed, because its key names the voice and not the recording.     *)
(***************************************************************************)
HeardAsShown ==
    speaking =>
        /\ backend \in {"chatterbox", "rvc"} => heard.exaggeration = params.exaggeration
        /\ backend # "chatterbox" => heard.speed = params.speed
        /\ backend = "chatterbox" => heard.clip = library[voice]
        /\ backend = "rvc" => heard.clip = library[RvcSource] \/ heard.replayed
=============================================================================
