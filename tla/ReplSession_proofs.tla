-------------------------- MODULE ReplSession_proofs --------------------------
(***************************************************************************)
(* What TLAPS proves of ReplSession and of the Playback it composes, for   *)
(* any sample width, lead and length of utterance, any chunks, any voices, *)
(* recordings and knob settings: the samples reach the player whole, none  *)
(* is left behind, an utterance starts with its lead, and the voice and    *)
(* the knobs the session shows are those the server speaks with.           *)
(***************************************************************************)
EXTENDS ReplSession, SequenceTheorems, TLAPS

-----------------------------------------------------------------------------
(* The inductive invariant of playback                                     *)

\* A sequence of bytes that starts with the first byte of a sample.
FromStart(s) == \A i \in 1..Len(s) : s[i] = (i - 1) % SampleBytes

\* Between utterances the buffers are empty, but for a pacat's partial sample.
QuietInv ==
    ~speaking /\ session = "up" =>
        /\ hold = 0 /\ ~primed
        /\ ~(player = "pacat" /\ cut) => tail = <<>>

\* What only FfplayPlayer has, and what WinSoundPlayer does only at the end.
PlayerInv ==
    /\ player # "ffplay" => hold = 0 /\ ~primed /\ ~relaunched
    /\ player = "winsound" /\ speaking => handed = 0 /\ ~shifted

\* Until a known event breaks the alignment, the carried bytes are the first
\* of the sample that the stream is in.
ByteInv ==
    speaking /\ ~relaunched /\ ~(player = "pacat" /\ cut) =>
        /\ ~shifted
        /\ FromStart(tail)
        /\ Len(tail) % SampleBytes = received % SampleBytes

\* Every byte received went to the process, is held for the lead, or carried.
CountInv ==
    /\ speaking /\ ~relaunched => received <= SampleBytes * (handed + hold) + Len(tail)
    /\ ~speaking /\ ~relaunched /\ session = "up" => received < SampleBytes * (handed + 1)
    /\ player = "ffplay" /\ speaking => SampleBytes * hold + Len(tail) <= received

LeadInv ==
    /\ primed => hold = 0
    /\ player = "ffplay" /\ speaking /\ ~relaunched =>
          IF primed THEN handed >= Lead ELSE handed = 0

PlayInv ==
    PlaybackTypeOK /\ QuietInv /\ PlayerInv /\ Aligned /\ ByteInv /\ CountInv /\ LeadInv

-----------------------------------------------------------------------------
(* The inductive invariant of the session's choices                        *)

ChoiceTypeOK ==
    /\ available \subseteq PiperVoice \cup RvcVoice
    /\ library \in [Name -> Nat]
    /\ backend \in Backend
    /\ params \in [Knob -> Int]
    /\ asked \in [Knob -> Pct \cup {None}]
    /\ assured \in BOOLEAN

\* The server's clamp changes none of the knobs the session shows.
RangeInv == \A k \in Knob : ClampParam(k, params[k]) = params[k]

\* A source is kept under the knob it was made with.
SourceInv == \A e \in DOMAIN sources : sources[e].exaggeration = e

ChoiceInv ==
    ChoiceTypeOK /\ RangeInv /\ SourceInv /\ VoiceSpeaks /\ KnobsAreShown /\ HeardAsShown

IInv == PlayInv /\ ChoiceInv

-----------------------------------------------------------------------------
(* Whole samples and what is left                                          *)

LEMMA DivMod ==
    ASSUME NEW m \in Nat \ {0}, NEW x \in Nat
    PROVE  x \div m \in Nat /\ x % m \in 0..(m - 1) /\ x = m * (x \div m) + (x % m)
OBVIOUS

LEMMA ModIs ==
    ASSUME NEW m \in Nat \ {0}, NEW q \in Nat, NEW r \in 0..(m - 1)
    PROVE  (m * q + r) % m = r /\ (m * q + r) \div m = q
OBVIOUS

LEMMA ModShift ==
    ASSUME NEW m \in Nat \ {0}, NEW a \in Nat, NEW b \in Nat, a % m = b % m, NEW c \in Nat
    PROVE  (a + c) % m = (b + c) % m
<1> DEFINE p == a \div m
           q == b \div m
           r == a % m
           s == (r + c) \div m
           t == (r + c) % m
<1>1. p \in Nat /\ q \in Nat /\ r \in 0..(m - 1) /\ a = m * p + r /\ b = m * q + r
  BY DivMod
<1>2. s \in Nat /\ t \in 0..(m - 1) /\ r + c = m * s + t
  <2>1. r + c \in Nat
    BY <1>1
  <2> QED
    BY <2>1, DivMod
<1> HIDE DEF p, q, r, s, t
<1>3. a + c = m * (p + s) + t /\ b + c = m * (q + s) + t /\ p + s \in Nat /\ q + s \in Nat
  BY <1>1, <1>2
<1>4. (m * (p + s) + t) % m = t /\ (m * (q + s) + t) % m = t
  BY <1>2, <1>3, ModIs
<1> QED
  BY <1>3, <1>4

\* A multiple of m leaves the remainder as it is.
LEMMA ModWhole ==
    ASSUME NEW m \in Nat \ {0}, NEW q \in Nat, NEW c \in Nat
    PROVE  (m * q + c) % m = c % m
<1> DEFINE a == m * q
<1>1. a \in Nat
  OBVIOUS
<1>2. (m * q + 0) % m = 0 /\ (m * 0 + 0) % m = 0
  BY ModIs
<1>3. a % m = 0 % m
  BY <1>2
<1> HIDE DEF a
<1>4. (a + c) % m = (0 + c) % m
  BY <1>1, <1>3, ModShift
<1> QED
  BY <1>4 DEF a

LEMMA Product ==
    ASSUME NEW m \in Nat, NEW n \in Nat
    PROVE  m * n \in Nat /\ m * n = n * m
OBVIOUS

LEMMA FewerWhole ==
    ASSUME NEW m \in Nat \ {0}, NEW a \in Nat, NEW b \in Nat, m * a < m * (b + 1)
    PROVE  a <= b
OBVIOUS

\* The next chunk.
LEMMA ChunkIs ==
    ASSUME NEW n \in Nat, received \in Nat
    PROVE  /\ Chunk(n) \in Seq(Byte) /\ Len(Chunk(n)) = n
           /\ \A i \in 1..n : Chunk(n)[i] = (received + i - 1) % SampleBytes
<1>1. ASSUME NEW i \in 1..n PROVE (received + i - 1) % SampleBytes \in Byte
  <2>1. received + i - 1 \in Nat
    OBVIOUS
  <2> QED
    BY <2>1, DivMod, PlaybackAssumption DEF Byte
<1>2. Chunk(n) \in Seq(Byte)
  BY <1>1, IsASeq DEF Chunk
<1>3. Len(Chunk(n)) = n
  BY <1>2, LenProperties DEF Chunk
<1> QED
  BY <1>2, <1>3 DEF Chunk

\* A buffer is its whole samples and a rest shorter than one.
LEMMA BufferParts ==
    ASSUME NEW buf \in Seq(Byte)
    PROVE  /\ Len(buf) \in Nat /\ Samples(buf) \in Nat
           /\ Rest(buf) \in Seq(Byte)
           /\ Len(Rest(buf)) = Len(buf) % SampleBytes
           /\ Len(Rest(buf)) < SampleBytes /\ Len(Rest(buf)) \in Nat
           /\ Len(buf) = SampleBytes * Samples(buf) + Len(Rest(buf))
           /\ \A i \in 1..Len(Rest(buf)) : Rest(buf)[i] = buf[SampleBytes * Samples(buf) + i]
<1> DEFINE n == Samples(buf)
           r == Len(buf) % SampleBytes
           m == SampleBytes * n
<1>1. /\ Len(buf) \in Nat /\ n \in Nat /\ r \in 0..(SampleBytes - 1)
      /\ Len(buf) = SampleBytes * n + r
  BY LenProperties, DivMod, PlaybackAssumption DEF Samples
<1>2. m \in Nat /\ SampleBytes \in Nat
  BY <1>1, PlaybackAssumption
<1>3. Rest(buf) = SubSeq(buf, m + 1, Len(buf))
  <2>1. n * SampleBytes = m
    BY <1>1, PlaybackAssumption
  <2> QED
    BY <2>1 DEF Rest
<1> HIDE DEF n, r
<1>4. Len(buf) = m + r
  BY <1>1
<1> HIDE DEF m
<1>5. \A i \in (m + 1)..Len(buf) : buf[i] \in Byte
  BY <1>1, <1>2, ElementOfSeq
<1>6. /\ Rest(buf) \in Seq(Byte)
      /\ Len(Rest(buf)) = IF m + 1 <= Len(buf) THEN Len(buf) - (m + 1) + 1 ELSE 0
      /\ \A i \in 1..(Len(buf) - (m + 1) + 1) : Rest(buf)[i] = buf[(m + 1) + i - 1]
  BY <1>1, <1>2, <1>3, <1>5, SubSeqProperties
<1>7. Len(Rest(buf)) = r
  BY <1>1, <1>2, <1>4, <1>6
<1>8. ASSUME NEW i \in 1..Len(Rest(buf)) PROVE Rest(buf)[i] = buf[m + i]
  BY <1>1, <1>2, <1>4, <1>6, <1>7
<1> QED
  BY <1>1, <1>2, <1>6, <1>7, <1>8 DEF n, r, m

\* write() with the carried bytes in front.
LEMMA JoinedParts ==
    ASSUME NEW n \in Nat, received \in Nat, tail \in Seq(Byte)
    PROVE  LET buf == tail \o Chunk(n)
           IN  /\ buf \in Seq(Byte)
               /\ Len(tail) \in Nat
               /\ Len(buf) = Len(tail) + n
               /\ \A i \in 1..Len(buf) :
                     buf[i] = IF i <= Len(tail) THEN tail[i]
                              ELSE (received + (i - Len(tail)) - 1) % SampleBytes
<1>1. /\ Chunk(n) \in Seq(Byte) /\ Len(Chunk(n)) = n
      /\ \A i \in 1..n : Chunk(n)[i] = (received + i - 1) % SampleBytes
  BY ChunkIs
<1> DEFINE c == Chunk(n)
<1> HIDE DEF c
<1>2. c \in Seq(Byte) /\ Len(c) = n /\ \A i \in 1..n : c[i] = (received + i - 1) % SampleBytes
  BY <1>1 DEF c
<1>3. /\ tail \o c \in Seq(Byte) /\ Len(tail \o c) = Len(tail) + Len(c)
      /\ \A i \in 1..(Len(tail) + Len(c)) :
            (tail \o c)[i] = IF i <= Len(tail) THEN tail[i] ELSE c[i - Len(tail)]
  BY <1>2, ConcatProperties
<1>4. Len(tail) \in Nat
  BY LenProperties
<1>5. ASSUME NEW i \in 1..(Len(tail) + n)
      PROVE  (tail \o c)[i] = IF i <= Len(tail) THEN tail[i]
                              ELSE (received + (i - Len(tail)) - 1) % SampleBytes
  <2>1. CASE i <= Len(tail)
    BY <2>1, <1>2, <1>3
  <2>2. CASE ~(i <= Len(tail))
    <3>1. i - Len(tail) \in 1..n
      BY <2>2, <1>4
    <3> QED
      BY <3>1, <2>2, <1>2, <1>3
  <2> QED
    BY <2>1, <2>2
<1> QED
  BY <1>2, <1>3, <1>4, <1>5 DEF c

\* In step with the stream, the joined buffer starts with a sample, none of
\* its samples is mixed, and the rest is in step again.
LEMMA InStep ==
    ASSUME NEW n \in Nat, received \in Nat, tail \in Seq(Byte),
           FromStart(tail), Len(tail) % SampleBytes = received % SampleBytes
    PROVE  LET buf == tail \o Chunk(n)
           IN  /\ FromStart(buf)
               /\ ~Mixed(buf)
               /\ Len(buf) % SampleBytes = (received + n) % SampleBytes
               /\ FromStart(Rest(buf))
               /\ Len(Rest(buf)) % SampleBytes = (received + n) % SampleBytes
<1> DEFINE buf == tail \o Chunk(n)
<1>1. /\ buf \in Seq(Byte) /\ Len(tail) \in Nat /\ Len(buf) = Len(tail) + n
      /\ \A i \in 1..Len(buf) :
            buf[i] = IF i <= Len(tail) THEN tail[i]
                     ELSE (received + (i - Len(tail)) - 1) % SampleBytes
  BY JoinedParts
<1> HIDE DEF buf
<1>2. SampleBytes \in Nat \ {0}
  BY PlaybackAssumption
<1>3. FromStart(buf)
  <2> SUFFICES ASSUME NEW i \in 1..Len(buf) PROVE buf[i] = (i - 1) % SampleBytes
    BY DEF FromStart
  <2>1. CASE i <= Len(tail)
    BY <2>1, <1>1 DEF FromStart
  <2>2. CASE ~(i <= Len(tail))
    <3>1. (i - Len(tail)) - 1 \in Nat
      BY <2>2, <1>1
    <3>2. (received + ((i - Len(tail)) - 1)) % SampleBytes
            = (Len(tail) + ((i - Len(tail)) - 1)) % SampleBytes
      BY <3>1, <1>1, <1>2, ModShift
    <3>3. /\ received + ((i - Len(tail)) - 1) = received + (i - Len(tail)) - 1
          /\ Len(tail) + ((i - Len(tail)) - 1) = i - 1
      BY <1>1
    <3> QED
      BY <3>2, <3>3, <2>2, <1>1
  <2> QED
    BY <2>1, <2>2
<1>4. Len(buf) % SampleBytes = (received + n) % SampleBytes
  <2>1. (Len(tail) + n) % SampleBytes = (received + n) % SampleBytes
    BY <1>1, <1>2, ModShift
  <2> QED
    BY <2>1, <1>1
<1>5. /\ Samples(buf) \in Nat /\ Rest(buf) \in Seq(Byte)
      /\ Len(Rest(buf)) = Len(buf) % SampleBytes
      /\ Len(Rest(buf)) \in Nat /\ Len(Rest(buf)) < SampleBytes
      /\ Len(buf) = SampleBytes * Samples(buf) + Len(Rest(buf))
      /\ \A i \in 1..Len(Rest(buf)) : Rest(buf)[i] = buf[SampleBytes * Samples(buf) + i]
  BY <1>1, BufferParts
<1> DEFINE m == SampleBytes * Samples(buf)
<1>6. m \in Nat /\ m <= Len(buf) /\ m = Samples(buf) * SampleBytes
  <2>1. m \in Nat /\ m = Samples(buf) * SampleBytes
    BY <1>2, <1>5, Product
  <2> HIDE DEF m
  <2>2. Len(buf) = m + Len(Rest(buf))
    BY <1>5 DEF m
  <2> QED
    BY <2>1, <2>2, <1>5
<1>7. ~Mixed(buf)
  <2>1. ASSUME NEW i \in 1..m PROVE buf[i] = (i - 1) % SampleBytes
    <3>1. i \in 1..Len(buf)
      BY <1>5, <1>6, <1>1
    <3> QED
      BY <3>1, <1>3 DEF FromStart
  <2> HIDE DEF m
  <2> QED
    BY <2>1, <1>6 DEF Mixed
<1>8. FromStart(Rest(buf))
  <2> SUFFICES ASSUME NEW i \in 1..Len(Rest(buf)) PROVE Rest(buf)[i] = (i - 1) % SampleBytes
    BY DEF FromStart
  <2>1. Rest(buf)[i] = buf[m + i]
    BY <1>5
  <2>2. (m + (i - 1)) % SampleBytes = (i - 1) % SampleBytes
    <3>1. i - 1 \in Nat
      BY <1>5
    <3> QED
      BY <3>1, <1>2, <1>5, ModWhole
  <2> HIDE DEF m
  <2>3. Len(buf) = m + Len(Rest(buf))
    BY <1>5 DEF m
  <2>4. m + i \in 1..Len(buf) /\ (m + i) - 1 = m + (i - 1)
    BY <1>5, <1>6, <2>3
  <2>5. buf[m + i] = ((m + i) - 1) % SampleBytes
    BY <2>4, <1>3 DEF FromStart
  <2> QED
    BY <2>1, <2>2, <2>4, <2>5
<1>9. Len(Rest(buf)) % SampleBytes = Len(Rest(buf))
  <2>1. Len(Rest(buf)) \in 0..(SampleBytes - 1)
    BY <1>2, <1>5
  <2>2. (SampleBytes * 0 + Len(Rest(buf))) % SampleBytes = Len(Rest(buf))
    BY <1>2, <2>1, ModIs
  <2> QED
    BY <2>2, <1>2, <1>5
<1> QED
  BY <1>3, <1>4, <1>5, <1>7, <1>8, <1>9 DEF buf

-----------------------------------------------------------------------------
(* Playback: the steps                                                     *)

LEMMA Distributes ==
    ASSUME NEW m \in Nat, NEW a \in Nat, NEW b \in Nat
    PROVE  m * (a + b) = m * a + m * b /\ m * a \in Nat /\ m * b \in Nat
OBVIOUS

\* The bytes passed on and carried are those there were and those that came.
LEMMA Balance ==
    ASSUME NEW bytes \in Nat, NEW n \in Nat, NEW before \in Nat, NEW more \in Nat,
           NEW carried \in Nat, NEW rest \in Nat,
           bytes <= before + carried, carried + n = more + rest
    PROVE  bytes + n <= (before + more) + rest
OBVIOUS

\* What a Receive has to work with.
LEMMA Arrived ==
    ASSUME PlayInv, NEW n \in Nat, received + n <= MaxSamples * SampleBytes
    PROVE  LET buf == tail \o Chunk(n)
           IN  /\ buf \in Seq(Byte) /\ Len(tail) \in Nat
               /\ Len(buf) \in Nat /\ Len(buf) = Len(tail) + n
               /\ Samples(buf) \in Nat /\ Rest(buf) \in Seq(Byte)
               /\ Len(Rest(buf)) \in Nat /\ Len(Rest(buf)) < SampleBytes
               /\ SampleBytes * Samples(buf) \in Nat
               /\ Len(tail) + n = SampleBytes * Samples(buf) + Len(Rest(buf))
               /\ received + n \in 0..(MaxSamples * SampleBytes)
               /\ speaking /\ ~relaunched /\ ~(player = "pacat" /\ cut) =>
                     /\ FromStart(buf) /\ ~Mixed(buf) /\ FromStart(Rest(buf))
                     /\ Len(buf) % SampleBytes = (received + n) % SampleBytes
                     /\ Len(Rest(buf)) % SampleBytes = (received + n) % SampleBytes
<1> DEFINE buf == tail \o Chunk(n)
<1>1. received \in Nat /\ tail \in Seq(Byte) /\ MaxSamples * SampleBytes \in Nat
  BY PlaybackAssumption, Product DEF PlayInv, PlaybackTypeOK
<1>2. buf \in Seq(Byte) /\ Len(tail) \in Nat /\ Len(buf) = Len(tail) + n
  BY <1>1, JoinedParts
<1>3. speaking /\ ~relaunched /\ ~(player = "pacat" /\ cut) =>
        /\ FromStart(buf) /\ ~Mixed(buf) /\ FromStart(Rest(buf))
        /\ Len(buf) % SampleBytes = (received + n) % SampleBytes
        /\ Len(Rest(buf)) % SampleBytes = (received + n) % SampleBytes
  BY <1>1, InStep DEF PlayInv, ByteInv
<1> HIDE DEF buf
<1>4. /\ Samples(buf) \in Nat /\ Rest(buf) \in Seq(Byte)
      /\ Len(Rest(buf)) \in Nat /\ Len(Rest(buf)) < SampleBytes
      /\ Len(buf) = SampleBytes * Samples(buf) + Len(Rest(buf))
  BY <1>2, BufferParts
<1>5. SampleBytes * Samples(buf) \in Nat
  BY <1>4, PlaybackAssumption, Product
<1>6. received + n \in 0..(MaxSamples * SampleBytes)
  BY <1>1
<1> QED
  BY <1>2, <1>3, <1>4, <1>5, <1>6 DEF buf

LEMMA PacatReceives ==
    ASSUME PlayInv, NEW n \in Nat, Receive(n), player = "pacat"
    PROVE  PlayInv'
<1> DEFINE buf == tail \o Chunk(n)
<1>1. /\ Samples(buf) \in Nat /\ Rest(buf) \in Seq(Byte) /\ Len(tail) \in Nat
      /\ Len(Rest(buf)) \in Nat /\ Len(Rest(buf)) < SampleBytes
      /\ SampleBytes * Samples(buf) \in Nat
      /\ Len(tail) + n = SampleBytes * Samples(buf) + Len(Rest(buf))
      /\ received + n \in 0..(MaxSamples * SampleBytes)
      /\ speaking /\ ~relaunched /\ ~(player = "pacat" /\ cut) =>
            /\ ~Mixed(buf) /\ FromStart(Rest(buf))
            /\ Len(Rest(buf)) % SampleBytes = (received + n) % SampleBytes
  BY Arrived DEF Receive
<1>2. /\ speaking /\ PacatWrite(buf) /\ received' = received + n
      /\ UNCHANGED <<player, session, speaking, cut>>
  BY DEF Receive, Write
<1> HIDE DEF buf
<1>3. /\ tail' = Rest(buf) /\ shifted' = (shifted \/ Mixed(buf))
      /\ handed' = handed + Samples(buf)
      /\ UNCHANGED <<hold, primed, proc, relaunched>>
  BY <1>2 DEF PacatWrite
<1>4. shifted' \in BOOLEAN
  BY <1>3 DEF PlayInv, PlaybackTypeOK, Mixed
<1>5. PlaybackTypeOK'
  BY <1>1, <1>2, <1>3, <1>4 DEF PlayInv, PlaybackTypeOK
<1>6. QuietInv' /\ PlayerInv' /\ LeadInv'
  BY <1>2, <1>3 DEF PlayInv, QuietInv, PlayerInv, LeadInv
<1>7. Aligned' /\ ByteInv'
  BY <1>1, <1>2, <1>3 DEF PlayInv, Aligned, ByteInv
<1>8. CountInv'
  <2>1. handed \in Nat /\ hold \in Nat /\ received \in Nat /\ SampleBytes \in Nat
    BY PlaybackAssumption DEF PlayInv, PlaybackTypeOK
  <2>2. handed' + hold' = (handed + hold) + Samples(buf)
    BY <1>1, <1>3, <2>1
  <2>3. SampleBytes * (handed' + hold') = SampleBytes * (handed + hold) + SampleBytes * Samples(buf)
    BY <1>1, <2>1, <2>2, Distributes
  <2>4. SampleBytes * (handed + hold) \in Nat
    BY <2>1, Product
  <2>5. ~relaunched => received <= SampleBytes * (handed + hold) + Len(tail)
    BY <1>2 DEF PlayInv, CountInv
  <2>6. ASSUME ~relaunched'
        PROVE  received' <= SampleBytes * (handed' + hold') + Len(tail')
    <3>1. received <= SampleBytes * (handed + hold) + Len(tail)
      BY <1>3, <2>5, <2>6
    <3>2. n \in Nat
      OBVIOUS
    <3>3. received + n <= (SampleBytes * (handed + hold) + SampleBytes * Samples(buf)) + Len(Rest(buf))
      BY <1>1, <2>1, <2>4, <3>1, Balance
    <3> QED
      BY <1>2, <1>3, <2>3, <3>3
  <2> QED
    BY <1>2, <2>6 DEF CountInv
<1> QED
  BY <1>5, <1>6, <1>7, <1>8 DEF PlayInv

LEMMA WinSoundReceives ==
    ASSUME PlayInv, NEW n \in Nat, Receive(n), player = "winsound"
    PROVE  PlayInv'
<1> DEFINE buf == tail \o Chunk(n)
<1>1. /\ buf \in Seq(Byte) /\ Len(buf) = Len(tail) + n /\ Len(tail) \in Nat
      /\ received + n \in 0..(MaxSamples * SampleBytes)
      /\ speaking /\ ~relaunched /\ ~(player = "pacat" /\ cut) =>
            /\ FromStart(buf)
            /\ Len(buf) % SampleBytes = (received + n) % SampleBytes
  BY Arrived DEF Receive
<1>2. /\ speaking /\ tail' = buf /\ received' = received + n
      /\ UNCHANGED <<player, session, speaking, cut, hold, primed, proc, shifted, handed, relaunched>>
  BY DEF Receive, Write, WinSoundWrite
<1> HIDE DEF buf
<1>3. PlaybackTypeOK'
  BY <1>1, <1>2 DEF PlayInv, PlaybackTypeOK
<1>4. QuietInv' /\ PlayerInv' /\ LeadInv' /\ Aligned' /\ ByteInv'
  BY <1>1, <1>2 DEF PlayInv, QuietInv, PlayerInv, LeadInv, Aligned, ByteInv
<1>5. CountInv'
  <2>1. handed \in Nat /\ hold \in Nat /\ received \in Nat /\ SampleBytes \in Nat
    BY PlaybackAssumption DEF PlayInv, PlaybackTypeOK
  <2>2. SampleBytes * (handed + hold) \in Nat
    BY <2>1, Product
  <2> QED
    BY <1>1, <1>2, <2>1, <2>2 DEF PlayInv, CountInv
<1> QED
  BY <1>3, <1>4, <1>5 DEF PlayInv

\* An ffplay started anew forgets the carried bytes; otherwise what arrives is
\* passed on, released with the lead, or held for it.
LEMMA FfplayReceives ==
    ASSUME PlayInv, NEW n \in Nat, Receive(n), player = "ffplay"
    PROVE  PlayInv'
<1> DEFINE buf == tail \o Chunk(n)
           s == Samples(buf)
           r == Rest(buf)
           full == ~primed /\ s > 0 /\ hold + s >= Lead
           fed == IF primed THEN s ELSE IF full THEN hold + s ELSE 0
<1>1. /\ s \in Nat /\ r \in Seq(Byte) /\ Len(tail) \in Nat
      /\ Len(r) \in Nat /\ Len(r) < SampleBytes
      /\ SampleBytes * s \in Nat
      /\ Len(tail) + n = SampleBytes * s + Len(r)
      /\ received + n \in 0..(MaxSamples * SampleBytes)
      /\ speaking /\ ~relaunched /\ ~(player = "pacat" /\ cut) =>
            /\ ~Mixed(buf) /\ FromStart(r)
            /\ Len(r) % SampleBytes = (received + n) % SampleBytes
  BY Arrived DEF Receive
<1>2. /\ speaking /\ FfplayWrite(buf) /\ received' = received + n
      /\ UNCHANGED <<player, session, speaking, cut>>
  BY DEF Receive, Write
<1>3. PICK launched \in BOOLEAN :
        /\ Feed(fed, launched)
        /\ hold' = IF primed \/ full THEN 0 ELSE hold + s
        /\ primed' = (full \/ (primed /\ ~launched))
        /\ tail' = IF launched THEN <<>> ELSE r
        /\ shifted' = (shifted \/ Mixed(buf))
  BY <1>2 DEF FfplayWrite
<1> HIDE DEF s, r
<1>4. /\ launched = (fed > 0 /\ proc # "up")
      /\ handed' = handed + fed /\ relaunched' = (relaunched \/ launched)
      /\ proc' \in {"up", "dead", "none"}
  BY <1>3 DEF Feed, PlayInv, PlaybackTypeOK
<1>5. /\ handed \in Nat /\ hold \in Nat /\ received \in Nat /\ MaxSamples \in Nat
      /\ SampleBytes \in Nat \ {0} /\ primed \in BOOLEAN /\ relaunched \in BOOLEAN
      /\ Lead \in Nat
  BY PlaybackAssumption DEF PlayInv, PlaybackTypeOK
<1>6. fed \in Nat /\ hold' \in Nat
  BY <1>1, <1>3, <1>5
<1>7. SampleBytes * hold' + Len(tail') <= received'
  <2>1. SampleBytes * hold + Len(tail) <= received /\ SampleBytes * hold \in Nat
    BY <1>2, <1>5, Product DEF PlayInv, CountInv
  <2>2. SampleBytes * (hold + s) = SampleBytes * hold + SampleBytes * s
    BY <1>1, <1>5, Distributes
  <2>3. SampleBytes * 0 = 0 /\ Len(<<>>) = 0
    BY <1>5
  <2>4. hold' = 0 \/ (~launched /\ hold' = hold + s)
    <3>1. CASE primed \/ full
      BY <3>1, <1>3
    <3>2. CASE ~(primed \/ full)
      <4>1. fed = 0
        BY <3>2
      <4>2. ~launched
        <5>1. ~(fed > 0)
          BY <4>1
        <5> HIDE DEF fed
        <5> QED
          BY <5>1, <1>4, Zenon
      <4> QED
        BY <3>2, <4>2, <1>3
    <3> QED
      BY <3>1, <3>2
  <2>5. Len(tail') = 0 \/ Len(tail') = Len(r)
    BY <1>3, <2>3
  <2>6. SampleBytes * hold' = 0 \/ SampleBytes * hold' = SampleBytes * hold + SampleBytes * s
    BY <2>2, <2>3, <2>4
  <2> QED
    BY <1>1, <1>2, <1>5, <2>1, <2>5, <2>6
<1>8. hold' \in 0..MaxSamples
  <2>1. Len(tail') \in Nat /\ SampleBytes * hold' \in Nat
    BY <1>1, <1>3, <1>5, <1>6, Product
  <2>2. received' <= SampleBytes * MaxSamples
    BY <1>1, <1>2, <1>5, Product
  <2>3. SampleBytes * (MaxSamples + 1) = SampleBytes * MaxSamples + SampleBytes * 1
    BY <1>5, Distributes
  <2>4. SampleBytes * MaxSamples \in Nat /\ SampleBytes * 1 = SampleBytes
    BY <1>5, Product
  <2>5. SampleBytes * hold' < SampleBytes * (MaxSamples + 1)
    BY <1>2, <1>5, <1>7, <2>1, <2>2, <2>3, <2>4
  <2>6. hold' <= MaxSamples
    BY <2>5, <1>5, <1>6, FewerWhole
  <2> QED
    BY <2>6, <1>5, <1>6
<1>9. PlaybackTypeOK'
  <2>1. shifted' \in BOOLEAN /\ primed' \in BOOLEAN /\ relaunched' \in BOOLEAN
    BY <1>3, <1>4, <1>5 DEF PlayInv, PlaybackTypeOK, Mixed
  <2>2. tail' \in Seq(Byte) /\ Len(tail') < SampleBytes
    <3>1. <<>> \in Seq(Byte) /\ Len(<<>>) = 0
      OBVIOUS
    <3> QED
      BY <3>1, <1>1, <1>3, <1>5
  <2>3. handed' \in Nat
    BY <1>4, <1>5, <1>6
  <2> QED
    BY <1>1, <1>2, <1>4, <1>8, <2>1, <2>2, <2>3 DEF PlayInv, PlaybackTypeOK
<1>10. QuietInv' /\ PlayerInv'
  BY <1>2 DEF PlayInv, QuietInv, PlayerInv
<1>11. Aligned' /\ ByteInv'
  BY <1>1, <1>2, <1>3, <1>4 DEF PlayInv, Aligned, ByteInv
<1>12. LeadInv'
  <2>1. primed' => hold' = 0
    BY <1>3, <1>5
  <2>2. ASSUME ~relaunched' PROVE IF primed' THEN handed' >= Lead ELSE handed' = 0
    <3>1. ~launched /\ ~relaunched
      BY <1>4, <2>2
    <3>2. IF primed THEN handed >= Lead ELSE handed = 0
      BY <1>2, <3>1 DEF PlayInv, LeadInv
    <3>3. primed' = (full \/ primed)
      BY <1>3, <3>1
    <3>4. CASE primed
      <4>1. primed' /\ handed >= Lead
        BY <3>2, <3>3, <3>4
      <4>2. handed' = handed + s
        BY <3>4, <1>4
      <4> QED
        BY <4>1, <4>2, <1>1, <1>5
    <3>5. CASE ~primed /\ full
      <4>1. primed' /\ hold + s >= Lead
        BY <3>3, <3>5
      <4>2. handed' = handed + (hold + s)
        BY <3>5, <1>4
      <4> QED
        BY <4>1, <4>2, <1>1, <1>5
    <3>6. CASE ~primed /\ ~full
      BY <3>2, <3>3, <3>6, <1>4, <1>5
    <3> QED
      BY <3>4, <3>5, <3>6
  <2> QED
    BY <1>2, <2>1, <2>2 DEF LeadInv
<1>13. CountInv'
  <2>1. ASSUME ~relaunched'
        PROVE  received' <= SampleBytes * (handed' + hold') + Len(tail')
    <3>1. ~launched /\ ~relaunched /\ tail' = r
      BY <1>3, <1>4, <2>1
    <3>2. primed => hold = 0
      BY DEF PlayInv, LeadInv
    <3>3. handed' + hold' = (handed + hold) + s
      <4>1. CASE primed
        BY <4>1, <3>2, <1>1, <1>3, <1>4, <1>5
      <4>2. CASE ~primed
        BY <4>2, <1>1, <1>3, <1>4, <1>5
      <4> QED
        BY <4>1, <4>2
    <3>4. SampleBytes * (handed' + hold') = SampleBytes * (handed + hold) + SampleBytes * s
      BY <1>1, <1>5, <3>3, Distributes
    <3>5. SampleBytes * (handed + hold) \in Nat
      BY <1>5, Product
    <3>6. received <= SampleBytes * (handed + hold) + Len(tail)
      BY <1>2, <3>1 DEF PlayInv, CountInv
    <3> QED
      BY <1>1, <1>2, <1>5, <3>1, <3>4, <3>5, <3>6, Balance
  <2> QED
    BY <1>2, <1>7, <2>1 DEF CountInv
<1> QED
  BY <1>9, <1>10, <1>11, <1>12, <1>13 DEF PlayInv

LEMMA PlaybackStays ==
    ASSUME PlayInv, UNCHANGED playbackVars
    PROVE  PlayInv'
BY DEF PlayInv, playbackVars, stateVars, playerVars, PlaybackTypeOK, QuietInv, PlayerInv,
       Aligned, ByteInv, FromStart, CountInv, LeadInv

\* The session ends, or breaks off, and the player with it.
LEMMA SessionEnds ==
    ASSUME PlayInv, session' \in {"ended", "crashed"}, speaking' = FALSE,
           \/ UNCHANGED playerVars
           \/ /\ tail' = <<>> /\ hold' = 0 /\ primed' = FALSE /\ proc' = "none"
              /\ UNCHANGED <<shifted, handed, relaunched>>,
           UNCHANGED <<player, received, cut>>
    PROVE  PlayInv'
<1>1. <<>> \in Seq(Byte) /\ Len(<<>>) = 0 /\ 0 \in 0..MaxSamples /\ SampleBytes > 0
  BY PlaybackAssumption
<1>2. PlaybackTypeOK'
  BY <1>1 DEF PlayInv, PlaybackTypeOK, playerVars
<1>3. PlayerInv' /\ Aligned' /\ LeadInv'
  BY DEF PlayInv, PlayerInv, Aligned, LeadInv, playerVars
<1>4. QuietInv' /\ ByteInv' /\ CountInv'
  BY DEF QuietInv, ByteInv, CountInv
<1> QED
  BY <1>2, <1>3, <1>4 DEF PlayInv

LEMMA SpeakPlay ==
    ASSUME PlayInv, Speak
    PROVE  PlayInv'
<1>1. /\ session = "up" /\ ~speaking /\ speaking' = TRUE
      /\ received' = 0 /\ shifted' = FALSE /\ handed' = 0 /\ relaunched' = FALSE
      /\ UNCHANGED <<player, session, tail, hold, primed, proc, cut>>
  BY DEF Speak
<1>2. hold = 0 /\ ~primed /\ (~(player = "pacat" /\ cut) => tail = <<>>)
  BY <1>1 DEF PlayInv, QuietInv
<1>3. SampleBytes \in Nat \ {0} /\ MaxSamples * SampleBytes \in Nat
  BY PlaybackAssumption, Product
<1>4. Len(<<>>) = 0 /\ Len(tail) \in Nat
  BY LenProperties DEF PlayInv, PlaybackTypeOK
<1>5. PlaybackTypeOK'
  <2>1. 0 \in 0..(MaxSamples * SampleBytes)
    BY <1>3
  <2> QED
    BY <1>1, <2>1 DEF PlayInv, PlaybackTypeOK
<1>6. QuietInv' /\ PlayerInv' /\ Aligned' /\ LeadInv'
  BY <1>1, <1>2 DEF PlayInv, QuietInv, PlayerInv, Aligned, LeadInv
<1>7. ByteInv'
  BY <1>1, <1>2, <1>4 DEF ByteInv, FromStart
<1>8. CountInv'
  <2>1. SampleBytes * 0 = 0
    BY <1>3
  <2>2. handed' + hold' = 0 /\ hold' = 0
    BY <1>1, <1>2
  <2>3. player = "ffplay" => Len(tail) = 0
    BY <1>2, <1>4
  <2> QED
    BY <1>1, <1>4, <2>1, <2>2, <2>3 DEF CountInv
<1> QED
  BY <1>5, <1>6, <1>7, <1>8 DEF PlayInv

\* Fewer bytes than a sample are left when an utterance ends.
LEMMA AllPassedOn ==
    ASSUME NEW bytes \in Nat, NEW n \in Nat, NEW rest \in Nat,
           rest < SampleBytes, bytes <= SampleBytes * n + rest
    PROVE  bytes < SampleBytes * (n + 1)
<1>1. SampleBytes \in Nat
  BY PlaybackAssumption
<1>2. SampleBytes * (n + 1) = SampleBytes * n + SampleBytes * 1
  BY <1>1, Distributes
<1>3. SampleBytes * n \in Nat /\ SampleBytes * 1 = SampleBytes
  BY <1>1, Product
<1> QED
  BY <1>1, <1>2, <1>3

LEMMA EndPlay ==
    ASSUME PlayInv, EndUtterance
    PROVE  PlayInv'
<1>1. /\ speaking /\ speaking' = FALSE /\ UNCHANGED <<player, session, received>>
      /\ cut' = (cut \/ received % SampleBytes # 0)
  BY DEF EndUtterance
<1>2. /\ handed \in Nat /\ hold \in Nat /\ received \in Nat /\ MaxSamples \in Nat
      /\ SampleBytes \in Nat \ {0} /\ tail \in Seq(Byte) /\ Len(tail) \in Nat
      /\ cut' \in BOOLEAN
  BY PlaybackAssumption, LenProperties, <1>1 DEF PlayInv, PlaybackTypeOK
<1>3. ~relaunched => received <= SampleBytes * (handed + hold) + Len(tail)
  BY <1>1 DEF PlayInv, CountInv
<1>4. <<>> \in Seq(Byte) /\ Len(<<>>) < SampleBytes /\ 0 \in 0..MaxSamples
  BY <1>2
<1>5. CASE player = "ffplay"
  <2>1. PICK launched \in BOOLEAN : Feed(hold, launched)
    BY <1>5 DEF EndUtterance, FfplayEnd
  <2>2. /\ handed' = handed + hold /\ relaunched' = (relaunched \/ launched)
        /\ proc' \in {"up", "dead", "none"}
    BY <2>1 DEF Feed, PlayInv, PlaybackTypeOK
  <2>3. hold' = 0 /\ tail' = <<>> /\ primed' = FALSE /\ UNCHANGED shifted
    BY <1>5 DEF EndUtterance, FfplayEnd
  <2>4. PlaybackTypeOK'
    <3>1. relaunched' \in BOOLEAN /\ handed' \in Nat
      BY <1>2, <2>2 DEF PlayInv, PlaybackTypeOK
    <3>2. /\ tail' \in Seq(Byte) /\ Len(tail') < SampleBytes /\ hold' \in 0..MaxSamples
          /\ primed' \in BOOLEAN
      BY <1>4, <2>3
    <3> QED
      BY <1>1, <1>2, <2>2, <2>3, <3>1, <3>2 DEF PlayInv, PlaybackTypeOK
  <2>5. QuietInv' /\ PlayerInv' /\ LeadInv' /\ ByteInv' /\ Aligned'
    BY <1>1, <1>5, <2>2, <2>3 DEF PlayInv, QuietInv, PlayerInv, LeadInv, ByteInv, Aligned
  <2>6. CountInv'
    <3>1. ~relaunched' => ~relaunched
      BY <2>2
    <3>2. handed + hold \in Nat /\ Len(tail) < SampleBytes
      BY <1>2, <1>5 DEF PlayInv, PlaybackTypeOK
    <3>3. ~relaunched' => received < SampleBytes * ((handed + hold) + 1)
      BY <1>2, <1>3, <3>1, <3>2, AllPassedOn
    <3> QED
      BY <1>1, <2>2, <3>3 DEF CountInv
  <2> QED
    BY <2>4, <2>5, <2>6 DEF PlayInv
<1>6. CASE player = "pacat"
  <2>1. UNCHANGED <<tail, hold, primed, proc, shifted, handed, relaunched>>
    BY <1>6 DEF EndUtterance, playerVars
  <2>2. hold = 0 /\ ~primed /\ ~relaunched /\ Len(tail) < SampleBytes
    BY <1>6 DEF PlayInv, PlayerInv, PlaybackTypeOK
  <2>3. PlaybackTypeOK'
    BY <1>1, <1>2, <2>1 DEF PlayInv, PlaybackTypeOK
  <2>4. QuietInv'
    <3> SUFFICES ASSUME ~cut' PROVE tail = <<>>
      BY <1>1, <1>6, <2>1, <2>2 DEF QuietInv
    <3>1. ~cut /\ received % SampleBytes = 0
      BY <1>1
    <3>2. Len(tail) % SampleBytes = 0
      BY <1>1, <1>6, <2>2, <3>1 DEF PlayInv, ByteInv
    <3>3. (SampleBytes * 0 + Len(tail)) % SampleBytes = Len(tail)
      <4>1. Len(tail) \in 0..(SampleBytes - 1)
        BY <1>2, <2>2
      <4> QED
        BY <4>1, <1>2, ModIs
    <3>4. Len(tail) = 0
      BY <1>2, <3>2, <3>3
    <3> QED
      BY <1>2, <3>4, EmptySeq
  <2>5. PlayerInv' /\ LeadInv' /\ ByteInv' /\ Aligned'
    BY <1>1, <1>6, <2>1, <2>2 DEF PlayInv, PlayerInv, LeadInv, ByteInv, Aligned
  <2>6. CountInv'
    <3>1. received <= SampleBytes * handed + Len(tail)
      <4>1. handed + hold = handed
        BY <1>2, <2>2
      <4> QED
        BY <4>1, <1>3, <2>2
    <3>2. received < SampleBytes * (handed + 1)
      BY <1>2, <2>2, <3>1, AllPassedOn
    <3> QED
      BY <1>1, <2>1, <3>2 DEF CountInv
  <2> QED
    BY <2>3, <2>4, <2>5, <2>6 DEF PlayInv
<1>7. CASE player = "winsound"
  <2>1. /\ Len(tail) % SampleBytes = 0
        /\ handed' = handed + Samples(tail)
        /\ shifted' = (shifted \/ Mixed(tail))
        /\ tail' = <<>>
        /\ UNCHANGED <<hold, primed, proc, relaunched>>
    BY <1>7 DEF EndUtterance, WinSoundEnd
  <2>2. hold = 0 /\ ~primed /\ ~relaunched /\ handed = 0 /\ ~shifted
    BY <1>1, <1>7 DEF PlayInv, PlayerInv
  <2>3. /\ Samples(tail) \in Nat /\ Len(Rest(tail)) = 0
        /\ Len(tail) = SampleBytes * Samples(tail) + Len(Rest(tail))
    BY <1>2, <2>1, BufferParts
  <2>4. ~Mixed(tail)
    <3>1. FromStart(tail)
      BY <1>1, <1>7, <2>2 DEF PlayInv, ByteInv
    <3>2. Samples(tail) * SampleBytes = Len(tail)
      BY <1>2, <2>3, Product
    <3> QED
      BY <3>1, <3>2 DEF Mixed, FromStart
  <2>5. PlaybackTypeOK'
    <3>1. shifted' \in BOOLEAN
      BY <2>1 DEF PlayInv, PlaybackTypeOK, Mixed
    <3>2. handed' \in Nat
      <4>1. Samples(tail) \in Nat
        BY <2>3
      <4> QED
        BY <1>2, <2>1, <4>1
    <3> QED
      BY <1>1, <1>2, <1>4, <2>1, <3>1, <3>2 DEF PlayInv, PlaybackTypeOK
  <2>6. QuietInv' /\ PlayerInv' /\ LeadInv' /\ ByteInv' /\ Aligned'
    BY <1>1, <1>7, <2>1, <2>2, <2>4 DEF QuietInv, PlayerInv, LeadInv, ByteInv, Aligned
  <2>7. CountInv'
    <3>1. received <= SampleBytes * Samples(tail) + 0
      <4>1. handed + hold = 0 /\ SampleBytes * 0 = 0
        BY <1>2, <2>2
      <4>2. received <= 0 + Len(tail)
        BY <4>1, <1>3, <2>2
      <4> QED
        BY <4>2, <2>3, <1>2
    <3>2. received < SampleBytes * (Samples(tail) + 1)
      BY <1>2, <2>3, <3>1, AllPassedOn
    <3>3. handed' = Samples(tail)
      BY <1>2, <2>1, <2>2, <2>3
    <3> QED
      BY <1>1, <2>1, <3>2, <3>3 DEF CountInv
  <2> QED
    BY <2>5, <2>6, <2>7 DEF PlayInv
<1> QED
  BY <1>5, <1>6, <1>7 DEF PlayInv, PlaybackTypeOK, Player

LEMMA LinePlay ==
    ASSUME PlayInv, LineStep
    PROVE  PlayInv'
<1>1. ASSUME NEW n \in 1..(MaxSamples * SampleBytes), Receive(n) PROVE PlayInv'
  <2>1. n \in Nat
    OBVIOUS
  <2>2. player \in Player
    BY DEF PlayInv, PlaybackTypeOK
  <2> QED
    BY <1>1, <2>1, <2>2, PacatReceives, WinSoundReceives, FfplayReceives DEF Player
<1>2. ASSUME NEW n \in 1..(MaxSamples * SampleBytes), ReceiveRaises(n) PROVE PlayInv'
  BY <1>2, SessionEnds DEF ReceiveRaises
<1>3. CASE EndRaises
  BY <1>3, SessionEnds DEF EndRaises
<1>4. CASE PlayerDies
  <2>1. /\ proc' = "dead"
        /\ UNCHANGED <<player, session, speaking, received, cut,
                       tail, hold, primed, shifted, handed, relaunched>>
    BY <1>4 DEF PlayerDies, stateVars
  <2>2. PlaybackTypeOK'
    BY <2>1 DEF PlayInv, PlaybackTypeOK
  <2>3. QuietInv' /\ PlayerInv' /\ Aligned' /\ ByteInv' /\ CountInv' /\ LeadInv'
    BY <2>1 DEF PlayInv, QuietInv, PlayerInv, Aligned, ByteInv, FromStart, CountInv, LeadInv
  <2> QED
    BY <2>2, <2>3 DEF PlayInv
<1> QED
  BY <1>1, <1>2, <1>3, <1>4 DEF LineStep

-----------------------------------------------------------------------------
(* Knobs                                                                   *)

LEMMA ClampIs ==
    ASSUME NEW x \in Int, NEW lo \in Int, NEW hi \in Int, lo <= hi
    PROVE  Clamp(x, lo, hi) = IF x < lo THEN lo ELSE IF x > hi THEN hi ELSE x
<1> DEFINE m == IF x > hi THEN hi ELSE x
           c == IF x < lo THEN lo ELSE IF x > hi THEN hi ELSE x
<1>1. Min({hi, x}) = m
  BY DEF Min
<1>2. m \in Int /\ Max({lo, m}) = c
  BY DEF Max
<1> QED
  BY <1>1, <1>2 DEF Clamp

LEMMA Ranges ==
    /\ KnobRange["exaggeration"].lo = 0 /\ KnobRange["exaggeration"].mid = 50
    /\ KnobRange["exaggeration"].hi = 200
    /\ KnobRange["speed"].lo = 50 /\ KnobRange["speed"].mid = 100 /\ KnobRange["speed"].hi = 200
BY DEF KnobRange

\* A number a user gives a knob lands within the knob's range, and :status
\* shows it again, cut to the scale.
LEMMA PctRoundTrips ==
    ASSUME NEW k \in Knob, NEW pct \in Int
    PROVE  /\ PctToNative(k, pct) \in Int
           /\ ClampParam(k, PctToNative(k, pct)) = PctToNative(k, pct)
           /\ NativeToPct(k, PctToNative(k, pct)) = Clamp(pct, 0, 100)
<1> DEFINE p == Clamp(pct, 0, 100)
           v == PctToNative(k, pct)
<1>1. p \in 0..100
  <2>1. p = IF pct < 0 THEN 0 ELSE IF pct > 100 THEN 100 ELSE pct
    BY ClampIs
  <2> HIDE DEF p
  <2> QED
    BY <2>1
<1> HIDE DEF p
<1>2. CASE k = "exaggeration"
  <2>1. v = IF p <= 50 THEN 0 + (p * (50 - 0)) \div 50
            ELSE 50 + ((p - 50) * (200 - 50)) \div 50
    BY <1>2, Ranges DEF PctToNative, p
  <2>2. v = IF p <= 50 THEN p ELSE 50 + 3 * (p - 50)
    BY <2>1, <1>1
  <2>3. v \in 0..200
    BY <2>2, <1>1
  <2> HIDE DEF v
  <2>4. ClampParam(k, v) = v
    <3>1. Clamp(v, 0, 200) = v
      BY <2>3, ClampIs
    <3> QED
      BY <1>2, <3>1, Ranges DEF ClampParam
  <2>5. NativeToPct(k, v) = IF v <= 50 THEN ((v - 0) * 50) \div (50 - 0)
                            ELSE 50 + ((v - 50) * 50) \div (200 - 50)
    BY <1>2, Ranges DEF NativeToPct
  <2>6. NativeToPct(k, v) = p
    BY <2>2, <2>5, <1>1
  <2> QED
    BY <2>3, <2>4, <2>6 DEF v, p
<1>3. CASE k = "speed"
  <2>1. v = IF p <= 50 THEN 50 + (p * (100 - 50)) \div 50
            ELSE 100 + ((p - 50) * (200 - 100)) \div 50
    BY <1>3, Ranges DEF PctToNative, p
  <2>2. v = IF p <= 50 THEN 50 + p ELSE 100 + 2 * (p - 50)
    BY <2>1, <1>1
  <2>3. v \in 50..200
    BY <2>2, <1>1
  <2> HIDE DEF v
  <2>4. ClampParam(k, v) = v
    <3>1. Clamp(v, 50, 200) = v
      BY <2>3, ClampIs
    <3> QED
      BY <1>3, <3>1, Ranges DEF ClampParam
  <2>5. NativeToPct(k, v) = IF v <= 100 THEN ((v - 50) * 50) \div (100 - 50)
                            ELSE 50 + ((v - 100) * 50) \div (200 - 100)
    BY <1>3, Ranges DEF NativeToPct
  <2>6. NativeToPct(k, v) = p
    BY <2>2, <2>5, <1>1
  <2> QED
    BY <2>3, <2>4, <2>6 DEF v, p
<1> QED
  BY <1>2, <1>3 DEF Knob

\* What the code itself gives a knob is within the knob's range.
LEMMA OwnValues ==
    /\ VoiceDefault \in [Knob -> Int]
    /\ \A k \in Knob : /\ KnobRange[k].mid \in Int
                       /\ ClampParam(k, KnobRange[k].mid) = KnobRange[k].mid
                       /\ ClampParam(k, VoiceDefault[k]) = VoiceDefault[k]
<1>1. /\ VoiceDefault \in [Knob -> Int]
      /\ VoiceDefault["exaggeration"] = 40 /\ VoiceDefault["speed"] = 110
  BY DEF VoiceDefault, Knob
<1>2. /\ Clamp(50, 0, 200) = 50 /\ Clamp(40, 0, 200) = 40
      /\ Clamp(100, 50, 200) = 100 /\ Clamp(110, 50, 200) = 110
  BY ClampIs
<1> QED
  BY <1>1, <1>2, Ranges DEF ClampParam, Knob

-----------------------------------------------------------------------------
(* The session: the steps                                                  *)

LEMMA ChoicesStay ==
    ASSUME ChoiceInv, UNCHANGED <<voicesVars, choiceVars>>,
           speaking' => speaking /\ heard' = heard
    PROVE  ChoiceInv'
BY DEF ChoiceInv, voicesVars, choiceVars, ChoiceTypeOK, RangeInv, SourceInv, VoiceSpeaks,
       Accepts, HasClip, KnobsAreShown, HeardAsShown

\* A command is given while nothing is spoken, and leaves the player alone.
LEMMA CommandPlay ==
    ASSUME PlayInv, Command
    PROVE  PlayInv' /\ ~speaking'
<1>1. CASE CommandRaises
  <2>1. speaking' = FALSE
    BY <1>1 DEF CommandRaises, AtPrompt, PlayInv, PlaybackTypeOK
  <2> QED
    BY <1>1, <2>1, SessionEnds DEF CommandRaises
<1>2. CASE ~CommandRaises
  <2>1. UNCHANGED playbackVars /\ ~speaking
    BY <1>2 DEF Command, Voice, VoiceMissed, CloneFile, CloneName, SetBackend, SetParam, AtPrompt
  <2> QED
    BY <2>1, PlaybackStays DEF playbackVars, stateVars
<1> QED
  BY <1>1, <1>2

LEMMA VoiceChoice ==
    ASSUME ChoiceInv, NEW n \in Name, Voice(n), ~speaking'
    PROVE  ChoiceInv'
<1>1. PICK b \in Backend : FirstListed(b, n) /\ backend' = b
  BY DEF Voice
<1>2. voice' = n /\ assured' = TRUE /\ UNCHANGED voicesVars
  BY DEF Voice
<1>3. Offers(b, n)
  BY <1>1 DEF FirstListed
<1>4. VoiceSpeaks'
  BY <1>1, <1>2, <1>3 DEF VoiceSpeaks, Accepts, Offers, HasClip, voicesVars
<1>5. \/ backend' # "rvc" /\ UNCHANGED <<params, asked>>
      \/ params' = VoiceDefault /\ asked' = [k \in Knob |-> None]
  BY DEF Voice
<1>6. ChoiceTypeOK' /\ RangeInv' /\ KnobsAreShown'
  <2>1. CASE backend' # "rvc" /\ UNCHANGED <<params, asked>>
    BY <2>1, <1>1, <1>2 DEF ChoiceInv, ChoiceTypeOK, RangeInv, KnobsAreShown, voicesVars
  <2>2. CASE params' = VoiceDefault /\ asked' = [k \in Knob |-> None]
    BY <2>2, <1>1, <1>2, OwnValues
       DEF ChoiceInv, ChoiceTypeOK, RangeInv, KnobsAreShown, voicesVars
  <2> QED
    BY <1>5, <2>1, <2>2
<1> QED
  BY <1>2, <1>4, <1>6 DEF ChoiceInv, SourceInv, HeardAsShown, voicesVars

\* The commands that name a voice or a backend, and leave the knobs alone.
LEMMA NamedChoice ==
    ASSUME ChoiceInv, ~speaking', backend' \in Backend, assured' \in BOOLEAN,
           assured' => backend' # "rvc" /\ Accepts(backend, voice)',
           library' \in [Name -> Nat], UNCHANGED <<available, sources, params, asked>>
    PROVE  ChoiceInv'
BY DEF ChoiceInv, ChoiceTypeOK, RangeInv, SourceInv, VoiceSpeaks, KnobsAreShown, HeardAsShown

LEMMA CommandChoice ==
    ASSUME ChoiceInv, Command, ~speaking'
    PROVE  ChoiceInv'
<1>0. /\ library \in [Name -> Nat] /\ backend \in Backend /\ params \in [Knob -> Int]
      /\ asked \in [Knob -> Pct \cup {None}]
  BY DEF ChoiceInv, ChoiceTypeOK
<1>1. ASSUME NEW n \in Name, Voice(n) PROVE ChoiceInv'
  BY <1>1, VoiceChoice
<1>2. ASSUME NEW n \in Name, VoiceMissed(n) PROVE ChoiceInv'
  BY <1>0, <1>2, NamedChoice DEF VoiceMissed, voicesVars
<1>3. ASSUME NEW n \in Name, CloneName(n) PROVE ChoiceInv'
  BY <1>0, <1>3, NamedChoice DEF CloneName, voicesVars, Backend
<1>4. ASSUME NEW n \in ClipName, CloneFile(n) PROVE ChoiceInv'
  <2>1. /\ library' = [library EXCEPT ![n] = @ + 1] /\ voice' = n
        /\ backend' = "chatterbox" /\ assured' = TRUE
        /\ UNCHANGED <<available, sources, params, asked>>
    BY <1>4 DEF CloneFile, AddClip
  <2>2. n \in Name
    BY DEF Name
  <2>3. library[n] \in Nat /\ library' \in [Name -> Nat] /\ library'[n] = library[n] + 1
    BY <1>0, <2>1, <2>2
  <2>4. Accepts(backend, voice)'
    BY <2>1, <2>3 DEF Accepts, HasClip
  <2> QED
    BY <2>1, <2>3, <2>4, NamedChoice DEF Backend
<1>5. ASSUME NEW b \in Backend, SetBackend(b) PROVE ChoiceInv'
  BY <1>0, <1>5, NamedChoice DEF SetBackend, voicesVars
<1>6. ASSUME NEW k \in Knob, NEW pct \in Pct, SetParam(k, pct) PROVE ChoiceInv'
  <2> DEFINE v == PctToNative(k, pct)
  <2>1. pct \in Int /\ pct # None
    BY ReplAssumption
  <2>2. v \in Int /\ ClampParam(k, v) = v /\ NativeToPct(k, v) = Clamp(pct, 0, 100)
    BY <2>1, PctRoundTrips
  <2>3. /\ params' = [params EXCEPT ![k] = v] /\ asked' = [asked EXCEPT ![k] = pct]
        /\ UNCHANGED <<voicesVars, voice, backend, assured>>
    BY <1>6 DEF SetParam
  <2> HIDE DEF v
  <2>4. /\ params' \in [Knob -> Int] /\ asked' \in [Knob -> Pct \cup {None}]
        /\ params'[k] = v /\ asked'[k] = pct
        /\ \A j \in Knob : j # k => params'[j] = params[j] /\ asked'[j] = asked[j]
    BY <1>0, <2>2, <2>3
  <2>5. ChoiceTypeOK' /\ SourceInv' /\ VoiceSpeaks' /\ HeardAsShown'
    BY <2>3, <2>4 DEF ChoiceInv, ChoiceTypeOK, SourceInv, VoiceSpeaks, Accepts, HasClip,
                      HeardAsShown, voicesVars
  <2>6. RangeInv'
    BY <2>2, <2>4 DEF ChoiceInv, RangeInv
  <2>7. KnobsAreShown'
    BY <2>1, <2>2, <2>3, <2>4 DEF ChoiceInv, KnobsAreShown
  <2> QED
    BY <2>5, <2>6, <2>7 DEF ChoiceInv
<1>7. CASE CommandRaises
  BY <1>7, ChoicesStay DEF CommandRaises
<1> QED
  BY <1>1, <1>2, <1>3, <1>4, <1>5, <1>6, <1>7 DEF Command

\* A line: what the server makes of it is what the session shows.
LEMMA SpokenChoice ==
    ASSUME ChoiceInv, NEW replayed \in BOOLEAN, SpeakLine(replayed)
    PROVE  ChoiceInv'
<1> DEFINE e == ClampParam("exaggeration", params.exaggeration)
           h == Made(e, replayed)
<1>1. /\ replayed => backend = "rvc" /\ e \in DOMAIN sources
      /\ heard' = h
      /\ sources' = IF backend = "rvc" THEN Kept(e, h) ELSE sources
      /\ UNCHANGED <<available, library, voice, backend, params, asked, assured>>
  BY DEF SpeakLine, SourceKey, choiceVars
<1>2. /\ "exaggeration" \in Knob /\ "speed" \in Knob
      /\ params["exaggeration"] = params.exaggeration /\ params["speed"] = params.speed
  BY DEF Knob
<1>3. e = params.exaggeration /\ ClampParam("speed", params.speed) = params.speed
  BY <1>2 DEF ChoiceInv, RangeInv
<1>4. replayed => sources[e].exaggeration = e
  BY <1>1 DEF ChoiceInv, SourceInv
<1>5. /\ h.exaggeration = params.exaggeration /\ h.speed = params.speed
      /\ ~replayed => h.clip = library[IF backend = "rvc" THEN RvcSource ELSE voice]
      /\ h.replayed = replayed
  BY <1>3, <1>4 DEF Made
<1> HIDE DEF e, h
<1>6. HeardAsShown'
  BY <1>1, <1>5 DEF HeardAsShown
<1>7. SourceInv'
  <2>1. CASE backend = "rvc"
    BY <1>1, <1>3, <1>5, <2>1 DEF ChoiceInv, SourceInv, Kept
  <2>2. CASE backend # "rvc"
    BY <1>1, <2>2 DEF ChoiceInv, SourceInv
  <2> QED
    BY <2>1, <2>2
<1>8. ChoiceTypeOK' /\ RangeInv' /\ VoiceSpeaks' /\ KnobsAreShown'
  BY <1>1 DEF ChoiceInv, ChoiceTypeOK, RangeInv, VoiceSpeaks, Accepts, HasClip, KnobsAreShown
<1> QED
  BY <1>6, <1>7, <1>8 DEF ChoiceInv

LEMMA InitIInv == Init => IInv
<1> SUFFICES ASSUME Init PROVE IInv
  OBVIOUS
<1>1. <<>> \in Seq(Byte) /\ Len(<<>>) = 0 /\ MaxSamples \in Nat /\ SampleBytes \in Nat \ {0}
  BY PlaybackAssumption
<1>2. 0 \in 0..(MaxSamples * SampleBytes) /\ SampleBytes * (0 + 1) = SampleBytes
  BY <1>1, Product
<1>3. PlaybackTypeOK
  <2>1. 0 \in 0..MaxSamples /\ Len(<<>>) < SampleBytes
    BY <1>1
  <2>2. proc \in {"up", "dead", "none"}
    BY DEF Init, PlaybackInit
  <2> QED
    BY <1>1, <1>2, <2>1, <2>2 DEF Init, PlaybackInit, PlaybackTypeOK
<1>4. QuietInv /\ PlayerInv /\ Aligned /\ ByteInv /\ LeadInv
  BY DEF Init, PlaybackInit, QuietInv, PlayerInv, Aligned, ByteInv, LeadInv
<1>5. CountInv
  BY <1>1, <1>2 DEF Init, PlaybackInit, CountInv
<1>6. PICK clip \in {0, 1} : library = [n \in Name |-> IF n = RvcSource THEN clip ELSE 0]
  BY DEF Init
<1>7. /\ backend = "piper" /\ params = [k \in Knob |-> KnobRange[k].mid]
      /\ asked = [k \in Knob |-> None] /\ assured = FALSE /\ speaking = FALSE
      /\ available \subseteq PiperVoice \cup RvcVoice
      /\ DOMAIN sources = {}
  BY DEF Init, PlaybackInit, Installed
<1>8. ChoiceTypeOK
  <2>1. library \in [Name -> Nat]
    BY <1>6
  <2>2. params \in [Knob -> Int] /\ asked \in [Knob -> Pct \cup {None}]
    BY <1>7, OwnValues
  <2> QED
    BY <1>7, <2>1, <2>2 DEF ChoiceTypeOK, Backend
<1>9. RangeInv /\ KnobsAreShown
  BY <1>7, OwnValues DEF RangeInv, KnobsAreShown
<1>10. SourceInv /\ VoiceSpeaks /\ HeardAsShown
  BY <1>7 DEF SourceInv, VoiceSpeaks, HeardAsShown
<1> QED
  BY <1>3, <1>4, <1>5, <1>8, <1>9, <1>10 DEF IInv, PlayInv, ChoiceInv

LEMMA NextIInv ==
    ASSUME IInv, [Next]_vars
    PROVE  IInv'
<1>1. CASE Command
  BY <1>1, CommandPlay, CommandChoice DEF IInv
<1>2. ASSUME NEW replayed \in BOOLEAN, SpeakLine(replayed) PROVE IInv'
  <2>1. Speak
    BY <1>2 DEF SpeakLine
  <2> QED
    BY <1>2, <2>1, SpeakPlay, SpokenChoice DEF IInv
<1>3. CASE UNCHANGED vars
  <2>1. UNCHANGED playbackVars /\ UNCHANGED <<voicesVars, choiceVars>>
    BY <1>3 DEF vars
  <2>2. speaking' => speaking /\ heard' = heard
    BY <1>3 DEF vars, playbackVars, stateVars
  <2> QED
    BY <2>1, <2>2, PlaybackStays, ChoicesStay DEF IInv
<1>4. ASSUME LineStep \/ EndUtterance \/ Quit,
             heard' = IF speaking' THEN heard ELSE None,
             UNCHANGED <<voicesVars, choiceVars>>
      PROVE  IInv'
  <2>1. speaking' => speaking
    BY <1>4 DEF LineStep, Receive, ReceiveRaises, EndRaises, PlayerDies, EndUtterance, Quit,
                stateVars
  <2>2. PlayInv'
    <3>1. CASE Quit
      BY <3>1, SessionEnds DEF Quit, IInv
    <3>2. CASE ~Quit
      BY <1>4, <3>2, EndPlay, LinePlay DEF IInv
    <3> QED
      BY <3>1, <3>2
  <2>3. ChoiceInv'
    BY <1>4, <2>1, ChoicesStay DEF IInv
  <2> QED
    BY <2>2, <2>3 DEF IInv
<1> QED
  BY <1>1, <1>2, <1>3, <1>4 DEF Next, SpeakRefused

-----------------------------------------------------------------------------
(* The results                                                             *)

\* The inductive invariant, with every variable's type, holds of a session.
THEOREM SessionInvariance == Spec => []IInv
BY InitIInv, NextIInv, PTL DEF Spec

\* No sample is played that mixes the bytes of two, however the network cuts
\* the stream, until an ffplay is started anew within an utterance, or a pacat
\* carries the bytes of a stream that broke off.
THEOREM SamplesStayWhole == Spec => []Aligned
<1>1. IInv => Aligned
  BY DEF IInv, PlayInv
<1> QED
  BY <1>1, SessionInvariance, PTL

\* When an utterance is over, every whole sample received of it has been
\* handed to the player's process.
THEOREM NothingLeftBehind == Spec => []AllHandedOver
<1>1. ASSUME IInv PROVE AllHandedOver
  <2> SUFFICES ASSUME ~speaking, ~relaunched, session = "up"
               PROVE  handed >= received \div SampleBytes
    BY DEF AllHandedOver
  <2> DEFINE q == received \div SampleBytes
  <2>1. /\ handed \in Nat /\ received \in Nat /\ SampleBytes \in Nat \ {0}
        /\ received < SampleBytes * (handed + 1)
    BY <1>1, PlaybackAssumption DEF IInv, PlayInv, PlaybackTypeOK, CountInv
  <2>2. q \in Nat /\ received % SampleBytes \in Nat
        /\ received = SampleBytes * q + (received % SampleBytes)
    BY <2>1, DivMod
  <2>3. SampleBytes * q \in Nat /\ SampleBytes * (handed + 1) \in Nat
    BY <2>1, <2>2, Product
  <2> HIDE DEF q
  <2>4. SampleBytes * q < SampleBytes * (handed + 1)
    BY <2>1, <2>2, <2>3
  <2>5. q <= handed
    BY <2>1, <2>2, <2>4, FewerWhole
  <2> QED
    BY <2>1, <2>2, <2>5 DEF q
<1> QED
  BY <1>1, SessionInvariance, PTL

\* An ffplay that has been given any of an utterance was given the lead first.
THEOREM LeadComesFirst == Spec => []LeadIsKept
<1>1. IInv => LeadIsKept
  BY DEF IInv, PlayInv, LeadInv, LeadIsKept
<1> QED
  BY <1>1, SessionInvariance, PTL

\* A voice found in the list or cloned is accepted until another is named.
THEOREM ListedIsAccepted == Spec => []VoiceSpeaks
<1>1. IInv => VoiceSpeaks
  BY DEF IInv, ChoiceInv
<1> QED
  BY <1>1, SessionInvariance, PTL

\* A knob shows what the user gave it, for every number a user may give.
THEOREM KnobsRoundTrip == Spec => []KnobsAreShown
<1>1. IInv => KnobsAreShown
  BY DEF IInv, ChoiceInv
<1> QED
  BY <1>1, SessionInvariance, PTL

\* A line is made with the knobs the session shows and the clip the library
\* holds, but for a source replayed from before its clip was replaced.
THEOREM SpokenAsShown == Spec => []HeardAsShown
<1>1. IInv => HeardAsShown
  BY DEF IInv, ChoiceInv
<1> QED
  BY <1>1, SessionInvariance, PTL
=============================================================================
