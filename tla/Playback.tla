------------------------------ MODULE Playback ------------------------------
(***************************************************************************)
(* A REPL session's speech, from the response body to the player process:  *)
(* _speak of hosaka/cli/repl.py over the three players of hosaka/audio.py. *)
(* The network cuts the float32 stream into chunks at any byte, so players *)
(* carry the bytes of an unfinished sample from one chunk to the next.     *)
(*                                                                         *)
(* A byte is its place within its sample.  PacatPlayer and FfplayPlayer    *)
(* carry at most a sample's worth in _tail; WinSoundPlayer collects the    *)
(* utterance in _buf, here the same variable.  Samples are only counted.   *)
(*                                                                         *)
(* The module has actions and properties but no next-state relation:       *)
(* ReplSession, which decides when a line is spoken, composes them.        *)
(***************************************************************************)
EXTENDS Naturals, Sequences

CONSTANTS
    SampleBytes,   \* bytes of a sample (4 in the code)
    Lead,          \* FfplayPlayer's lead buffer, in samples
    MaxSamples     \* bound: samples of an utterance

ASSUME PlaybackAssumption ==
    /\ SampleBytes \in Nat \ {0}
    /\ Lead \in Nat
    /\ MaxSamples \in Nat

VARIABLES
    player,        \* what make_player() has chosen
    session,       \* "up", "ended", "crashed"
    speaking,      \* _speak is in its loop
    received,      \* bytes of the utterance received
    tail,          \* _tail or _buf
    hold,          \* samples in FfplayPlayer._hold
    primed,        \* FfplayPlayer._primed
    proc,          \* _proc: "up", "dead", "none"
    shifted,       \* history: bytes of different samples went out as one, this utterance
    handed,        \* history: samples written to the player, this utterance
    relaunched,    \* history: ffplay was started anew during this utterance
    cut            \* history: an utterance of the session broke off within a sample

stateVars == <<player, session, speaking, received, cut>>
playerVars == <<tail, hold, primed, proc, shifted, handed, relaunched>>
playbackVars == <<stateVars, playerVars>>

Player == {"pacat", "ffplay", "winsound"}
Byte == 0..(SampleBytes - 1)

PlaybackTypeOK ==
    /\ player \in Player
    /\ session \in {"up", "ended", "crashed"}
    /\ speaking \in BOOLEAN
    /\ received \in 0..(MaxSamples * SampleBytes)
    /\ tail \in Seq(Byte)
    /\ player # "winsound" => Len(tail) < SampleBytes
    /\ hold \in 0..MaxSamples
    /\ primed \in BOOLEAN
    /\ proc \in {"up", "dead", "none"}
    /\ shifted \in BOOLEAN
    /\ handed \in Nat
    /\ relaunched \in BOOLEAN
    /\ cut \in BOOLEAN

\* main() up to its first prompt; WinSoundPlayer runs a process per utterance.
PlaybackInit ==
    /\ player \in Player
    /\ session = "up"
    /\ speaking = FALSE
    /\ received = 0
    /\ tail = <<>>
    /\ hold = 0
    /\ primed = FALSE
    /\ proc = IF player = "winsound" THEN "none" ELSE "up"
    /\ shifted = FALSE
    /\ handed = 0
    /\ relaunched = FALSE
    /\ cut = FALSE

-----------------------------------------------------------------------------
(* Alignment                                                               *)

\* The next n bytes of the utterance.
Chunk(n) == [i \in 1..n |-> (received + i - 1) % SampleBytes]

Samples(buf) == Len(buf) \div SampleBytes

\* A fault: bytes past the last whole sample are dropped.
RestDropped(buf) == <<>>

\* _gain_align: what is left of the buffer after its whole samples.
Rest(buf) == SubSeq(buf, Samples(buf) * SampleBytes + 1, Len(buf))

\* Some of those "whole" samples mix the bytes of two.
Mixed(buf) == \E i \in 1..(Samples(buf) * SampleBytes) : buf[i] # (i - 1) % SampleBytes

-----------------------------------------------------------------------------
(* FfplayPlayer                                                            *)

\* _feed(data) with n samples; "launched" says whether _launch ran first.
\* The pipe may break during the write: the data is gone, and _proc is None.
Feed(n, launched) ==
    /\ launched = (n > 0 /\ proc # "up")
    /\ handed' = handed + n
    /\ relaunched' = (relaunched \/ launched)
    /\ IF n = 0
         THEN proc' = proc
         ELSE proc' \in {"up", "none"}

\* write(): hold back until the lead is full, then pass on.  _launch resets
\* the tail and the lead.
FfplayWrite(buf) ==
    \E launched \in BOOLEAN :
        LET n == Samples(buf)
            full == ~primed /\ n > 0 /\ hold + n >= Lead
        IN  /\ Feed(IF primed THEN n ELSE IF full THEN hold + n ELSE 0, launched)
            /\ hold' = IF primed \/ full THEN 0 ELSE hold + n
            /\ primed' = (full \/ (primed /\ ~launched))
            /\ tail' = IF launched THEN <<>> ELSE Rest(buf)
            /\ shifted' = (shifted \/ Mixed(buf))

\* A fault: a lead that never filled is dropped.
FfplayEndDropsLead ==
    /\ hold' = 0
    /\ tail' = <<>>
    /\ primed' = FALSE
    /\ UNCHANGED <<proc, shifted, handed, relaunched>>

\* A fault: the next utterance starts without a lead.
FfplayEndStaysPrimed ==
    /\ \E launched \in BOOLEAN : Feed(hold, launched)
    /\ hold' = 0
    /\ tail' = <<>>
    /\ UNCHANGED <<primed, shifted>>

\* end_utterance()
FfplayEnd ==
    /\ \E launched \in BOOLEAN : Feed(hold, launched)
    /\ hold' = 0
    /\ tail' = <<>>
    /\ primed' = FALSE
    /\ UNCHANGED shifted

-----------------------------------------------------------------------------
(* PacatPlayer and WinSoundPlayer                                          *)

\* write(); to a dead pacat it raises.
PacatWrite(buf) ==
    /\ Samples(buf) > 0 => proc = "up"
    /\ tail' = Rest(buf)
    /\ shifted' = (shifted \/ Mixed(buf))
    /\ handed' = handed + Samples(buf)
    /\ UNCHANGED <<hold, primed, proc, relaunched>>

WinSoundWrite(buf) ==
    /\ tail' = buf
    /\ UNCHANGED <<hold, primed, proc, shifted, handed, relaunched>>

\* end_utterance(): the utterance is played as a whole.
WinSoundEnd ==
    /\ Len(tail) % SampleBytes = 0
    /\ handed' = handed + Samples(tail)
    /\ shifted' = (shifted \/ Mixed(tail))
    /\ tail' = <<>>
    /\ UNCHANGED <<hold, primed, proc, relaunched>>

-----------------------------------------------------------------------------
(* _speak                                                                  *)

\* A request is answered with 200.
Speak ==
    /\ session = "up"
    /\ ~speaking
    /\ speaking' = TRUE
    /\ received' = 0
    /\ shifted' = FALSE
    /\ handed' = 0
    /\ relaunched' = FALSE
    /\ UNCHANGED <<player, session, tail, hold, primed, proc, cut>>

\* player.write(raw)
Write(buf) ==
    \/ player = "ffplay" /\ FfplayWrite(buf)
    \/ player = "pacat" /\ PacatWrite(buf)
    \/ player = "winsound" /\ WinSoundWrite(buf)

Receive(n) ==
    /\ speaking
    /\ received + n <= MaxSamples * SampleBytes
    /\ Write(tail \o Chunk(n))
    /\ received' = received + n
    /\ UNCHANGED <<player, session, speaking, cut>>

\* pacat is gone: BrokenPipeError goes through _speak and main.
ReceiveRaises(n) ==
    /\ speaking
    /\ player = "pacat" /\ proc # "up"
    /\ Samples(tail \o Chunk(n)) > 0
    /\ session' = "crashed"
    /\ speaking' = FALSE
    /\ UNCHANGED <<player, received, cut, playerVars>>

\* The body ends: complete, or broken off anywhere.  end_utterance() runs
\* either way.
EndUtterance ==
    /\ speaking
    /\ \/ player = "ffplay" /\ FfplayEnd
       \/ player = "pacat" /\ UNCHANGED playerVars
       \/ player = "winsound" /\ WinSoundEnd
    /\ speaking' = FALSE
    /\ cut' = (cut \/ received % SampleBytes # 0)
    /\ UNCHANGED <<player, session, received>>

\* np.frombuffer raises on a partial sample, from the finally of _speak.
EndRaises ==
    /\ speaking
    /\ player = "winsound"
    /\ Len(tail) % SampleBytes # 0
    /\ session' = "crashed"
    /\ speaking' = FALSE
    /\ UNCHANGED <<player, received, cut, playerVars>>

\* The player's process dies, or the user closes it.
PlayerDies ==
    /\ proc = "up"
    /\ proc' = "dead"
    /\ UNCHANGED <<stateVars, tail, hold, primed, shifted, handed, relaunched>>

\* :quit, ^D or, in mid-speech, ^C: end_utterance() and close().
Quit ==
    /\ session = "up"
    /\ session' = "ended"
    /\ speaking' = FALSE
    /\ proc' = "none"
    /\ tail' = <<>>
    /\ hold' = 0
    /\ primed' = FALSE
    /\ UNCHANGED <<player, received, cut, shifted, handed, relaunched>>

\* What the network and the player's process do to a line.
LineStep ==
    \/ \E n \in 1..(MaxSamples * SampleBytes) : Receive(n) \/ ReceiveRaises(n)
    \/ EndRaises
    \/ PlayerDies

-----------------------------------------------------------------------------
(***************************************************************************)
(* No sample is played that mixes the bytes of two, however the network    *)
(* cuts the stream.  Two things end that, each for a known time.  An       *)
(* ffplay started anew within an utterance loses the carried bytes, and    *)
(* the rest of the utterance may be noise; the next one is not.  A pacat   *)
(* keeps those of a stream that broke off, for the rest of the session.    *)
(***************************************************************************)
Aligned ==
    shifted => relaunched \/ (player = "pacat" /\ cut)

\* A finished utterance has left the buffers: every whole sample that came
\* was handed to the player's process, short utterances that never filled the
\* lead included, also when the stream broke off.
AllHandedOver ==
    ~speaking /\ ~relaunched /\ session = "up" => handed >= received \div SampleBytes

\* ffplay gets the lead at once or, at the end, all there is: never the first
\* samples of an utterance without their cushion.
LeadIsKept ==
    player = "ffplay" /\ speaking /\ ~relaunched => handed = 0 \/ handed >= Lead
=============================================================================
