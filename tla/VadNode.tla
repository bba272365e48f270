-------------------------------- MODULE VadNode --------------------------------
(***************************************************************************)
(* ServerVADStep on VADStep, and the streaming VAD service it calls.  A     *)
(* detector fed with every chunk opens turns (and cancels all older work)   *)
(* and closes them; recording signals of the client take over meanwhile.    *)
(* A request to the service may fail, before or after it was served; the    *)
(* service drops a session that is deleted, or idle for long.               *)
(*                                                                         *)
(* The node handles one message or cancel at a time, to completion, so that *)
(* their arrival and their handling are one step here.                      *)
(***************************************************************************)
EXTENDS VadSegment

CONSTANTS
    ChunkLen,                 \* samples in a chunk
    Gaps,                     \* the audio that may be missing before a chunk
    SignalStamps,             \* the stamps of recording signals
    CancelStamps,             \* the stamps of cancels
    ManualStart, ManualEnd,   \* manual_start_offset_ms, manual_end_offset_ms
    AutoStart, AutoEnd,       \* start_offset_ms, end_offset_ms
    StreamModes,              \* the values of stream, in BOOLEAN
    MaxChunks, MaxSignals,    \* bounds: chunks; signals and cancels
    MaxFaults                 \* bound: requests that fail, sessions that idle out

ASSUME VadAssumption ==
    /\ ChunkLen \in 1..RingSize /\ StreamChunk \in Nat \ {0} /\ Gaps \subseteq Nat
    /\ SignalStamps \subseteq Nat /\ CancelStamps \subseteq Nat
    /\ {ManualStart, ManualEnd, AutoStart, AutoEnd} \subseteq Int
    /\ -ManualStart < RingSize /\ -AutoStart < RingSize
    /\ StreamModes \subseteq BOOLEAN
    /\ {MaxChunks, MaxSignals, MaxFaults} \subseteq Nat

VARIABLES
    stream,    \* the node's configuration
    cancel_timestamp, \* nothing older is wanted
    ring,      \* _ring
    heard,     \* history: the samples ingested
    clock,     \* the end of the newest chunk
    voice,     \* the segment: the open turn, what is sent of it, the last one closed
    manual,    \* _manual
    detector,  \* the node's session: "silent", "speech" (in_speech) or "gone"
    orphans,   \* the sessions the node no longer uses
    astray,    \* history: why the detector may be in speech without a turn: "lost" (a
               \* failed request), "cut" (a turn as long as the ring) or "no"
    chunks, signals, faults, alive

voiceVars == <<stream, cancel_timestamp, ring, heard, clock, voice, manual, detector,
               orphans, astray, chunks, signals, faults, alive>>

VoiceInit ==
    /\ stream \in StreamModes /\ cancel_timestamp = 0
    /\ ring = <<>> /\ heard = <<>> /\ clock = 0 /\ voice = Silent
    /\ manual = FALSE /\ detector = "silent" /\ orphans = 0 /\ astray = "no"
    /\ chunks = 0 /\ signals = 0 /\ faults = 0 /\ alive = TRUE

-------------------------------------------------------------------------------
(* Requests to the service.                                                 *)

\* close() swallows a failure, and the session stays behind.
Close ==
    \/ /\ orphans' = orphans /\ faults' = faults
    \/ /\ faults < MaxFaults /\ faults' = faults + 1
       /\ orphans' = orphans + (IF detector = "gone" THEN 0 ELSE 1)

\* The session goes on in the state it was in.
MutantReset == UNCHANGED <<detector, orphans, faults, astray>>

\* reset() is close, then create.  A create that fails leaves the id of the
\* session that was closed; one whose answer is lost leaves a session behind.
Reset ==
    \/ Close /\ detector' = "silent" /\ astray' = "no"
    \/ /\ faults < MaxFaults /\ faults' = faults + 1
       /\ detector' = "gone" /\ astray' = "no"
       /\ orphans' \in {orphans, orphans + 1}
    \/ /\ faults + 1 < MaxFaults /\ faults' = faults + 2
       /\ detector' = detector /\ astray' = "lost"
       /\ orphans' \in {orphans, orphans + 1}

Keep == UNCHANGED <<detector, orphans, faults, astray>>

-------------------------------------------------------------------------------
(* Messages of the pipeline.                                                *)

\* Never past a cancel: the loop discards what is older than the watermark.
Accepts(ts) == alive /\ ts >= cancel_timestamp

\* The audio that the ring has lost since the last message.
Swept == Evicted(ring, cancel_timestamp)

Signal ==
    /\ signals < MaxSignals /\ signals' = signals + 1
    /\ ring' = Swept
    /\ UNCHANGED <<stream, cancel_timestamp, heard, clock, chunks, alive>>

RecordingStart(ts) ==
    /\ Signal /\ Accepts(ts)
    /\ manual' = TRUE
    /\ voice' = Started(voice, ts, ManualStart, ManualEnd, Swept, heard, stream)
    /\ Keep

\* A detector's turn does not end with the client's signal.
IgnoreEnd(ts) ==
    /\ Signal /\ Accepts(ts) /\ ~manual
    /\ UNCHANGED <<voice, manual>>
    /\ Keep

\* A stream has sent what it heard: its end is not older than that.
RecordingEnd(ts) ==
    /\ Signal /\ Accepts(ts) /\ manual
    /\ stream => ts >= clock
    /\ voice' = Ended(voice, ts, Swept, heard, stream)
    /\ IF voice'.turn = Nil THEN manual' = FALSE /\ Reset ELSE manual' = TRUE /\ Keep

NextChunk(gap) == Chunk(ChunkLen, clock + gap + ChunkLen, heard)

\* A chunk enters the ring and the open turn.
Ingest(gap) ==
    LET chunk == NextChunk(gap) IN
    /\ alive /\ chunks < MaxChunks /\ chunks' = chunks + 1 /\ clock' = chunk.end
    /\ chunk.end >= cancel_timestamp
    /\ heard' = heard \o Samples(chunk)
    /\ ring' = Ingested(Swept, chunk)
    /\ UNCHANGED <<stream, signals, alive>>

DiscardChunk(gap) ==
    /\ alive /\ chunks < MaxChunks /\ chunks' = chunks + 1
    /\ clock' = clock + gap + ChunkLen /\ clock' < cancel_timestamp
    /\ UNCHANGED <<stream, cancel_timestamp, ring, heard, voice, manual, detector, orphans,
                   astray, signals, faults, alive>>

Extend(gap) == Heard(voice, NextChunk(gap), ring', heard', stream)

\* While the client records, the detector hears nothing.
ManualChunk(gap) ==
    /\ manual
    /\ Ingest(gap)
    /\ voice' = Extend(gap)
    /\ IF voice'.turn = Nil THEN manual' = FALSE /\ Reset ELSE manual' = TRUE /\ Keep
    /\ UNCHANGED cancel_timestamp

\* A turn without an end was ended at its limit, in the middle of the speech.
CutOff == detector = "speech" /\ astray = "no" /\ voice.turn # Nil /\ voice'.turn = Nil

\* The detector reports nothing, or the request failed (404 for a session that
\* is gone), perhaps after the chunk was served.  Nothing tells the detector
\* that its turn was cut off.
QuietChunk(gap) ==
    /\ ~manual
    /\ Ingest(gap)
    /\ voice' = Extend(gap)
    /\ \/ faults' = faults /\ detector' = detector
       \/ /\ faults < MaxFaults /\ faults' = faults + 1 /\ detector # "gone"
          /\ detector' \in {"silent", "speech"}
    /\ astray' = IF detector' # detector THEN "lost" ELSE IF CutOff THEN "cut" ELSE astray
    /\ UNCHANGED <<cancel_timestamp, manual, orphans>>

TurnOpened(v) == Started(v, clock', AutoStart, AutoEnd, ring', heard', stream)

TurnStopped(v) == Ended(v, clock', ring', heard', stream)

\* The detector's events, in the order it reports them.
Events(before, after) ==
    /\ ~manual /\ detector = before
    /\ detector' = after /\ astray' = "no"
    /\ UNCHANGED <<manual, orphans, faults>>

\* _on_activation: a start cancels what is older, then opens the turn.
BargeIn == cancel_timestamp' = Max({cancel_timestamp, clock'})

SpeechStarted(gap) ==
    /\ Events("silent", "speech")
    /\ Ingest(gap) /\ BargeIn
    /\ voice' = TurnOpened(Extend(gap))

SpeechStopped(gap) ==
    /\ Events("speech", "silent")
    /\ Ingest(gap) /\ UNCHANGED cancel_timestamp
    /\ voice' = TurnStopped(Extend(gap))

\* One chunk may hold a pause, or a whole utterance.
SpeechResumed(gap) ==
    /\ Events("speech", "speech")
    /\ Ingest(gap) /\ BargeIn
    /\ voice' = TurnOpened(TurnStopped(Extend(gap)))

SpeechPassed(gap) ==
    /\ Events("silent", "silent")
    /\ Ingest(gap) /\ BargeIn
    /\ voice' = TurnStopped(TurnOpened(Extend(gap)))

-------------------------------------------------------------------------------
(* Cancels, the reaper, and the end of the node.                            *)

\* A cancel that voids the open turn resets the detector.
Interrupt(c) ==
    /\ alive /\ signals < MaxSignals /\ signals' = signals + 1
    /\ cancel_timestamp' = Max({cancel_timestamp, c})
    /\ IF voice.turn # Nil /\ voice.turn.ts < cancel_timestamp'
       THEN voice' = Discarded(voice) /\ manual' = FALSE /\ Reset
       ELSE UNCHANGED <<voice, manual>> /\ Keep
    /\ UNCHANGED <<stream, ring, heard, clock, chunks, alive>>

\* custom_dispose.
Dispose ==
    /\ alive /\ alive' = FALSE
    /\ Close /\ detector' = "gone"
    /\ UNCHANGED <<stream, cancel_timestamp, ring, heard, clock, voice, manual, astray,
                   chunks, signals>>

\* Sessions are only dropped on request.
MutantReap == FALSE /\ UNCHANGED voiceVars

\* _session_reaper: sessions nobody feeds.
Reap ==
    /\ orphans > 0 /\ orphans' = orphans - 1
    /\ UNCHANGED <<stream, cancel_timestamp, ring, heard, clock, voice, manual, detector,
                   astray, chunks, signals, faults, alive>>

\* The node's own session, when no audio came for as long as the service waits.
Expire ==
    /\ alive /\ detector # "gone" /\ faults < MaxFaults /\ faults' = faults + 1
    /\ detector' = "gone" /\ astray' = "no"
    /\ UNCHANGED <<stream, cancel_timestamp, ring, heard, clock, voice, manual, orphans,
                   chunks, signals, alive>>

Hear ==
    \E gap \in Gaps :
        \/ DiscardChunk(gap) \/ ManualChunk(gap) \/ QuietChunk(gap)
        \/ SpeechStarted(gap) \/ SpeechStopped(gap) \/ SpeechResumed(gap) \/ SpeechPassed(gap)

VoiceNext ==
    \/ Hear
    \/ \E ts \in SignalStamps : RecordingStart(ts) \/ RecordingEnd(ts) \/ IgnoreEnd(ts)
    \/ \E c \in CancelStamps : Interrupt(c)
    \/ Dispose \/ Reap \/ Expire

VoiceSpec == VoiceInit /\ [][VoiceNext]_voiceVars

\* The service's reaper runs; nothing else need happen.
FairVoiceSpec == VoiceSpec /\ WF_voiceVars(Reap)

-------------------------------------------------------------------------------
(* Properties.                                                              *)

TurnOK ==
    LET turn == voice.turn IN
    turn # Nil =>
        /\ turn \in Turns /\ turn.tail \in {ManualEnd, AutoEnd}
        /\ turn.mark \in 0..Len(heard) \cup {Nil} /\ turn.emitted \in 0..Len(heard)

\* Types; the ring keeps its limit and its chunks follow one another.
VoiceTypes ==
    /\ stream \in BOOLEAN /\ cancel_timestamp \in Nat /\ clock \in Nat
    /\ \A i \in DOMAIN ring : ring[i].len \in 1..ChunkLen
    /\ \A i \in 2..Len(ring) : ring[i].start = EndPosition(ring[i - 1])
    /\ ring # <<>> => EndPosition(Last(ring)) - ring[1].start <= RingSize
    /\ heard \in Seq(Nat) /\ voice.spoken \in Seq(Nat) /\ TurnOK
    /\ manual \in BOOLEAN /\ detector \in {"silent", "speech", "gone"} /\ orphans \in Nat
    /\ astray \in {"no", "lost", "cut"} /\ alive \in BOOLEAN
    /\ chunks \in 0..MaxChunks /\ signals \in 0..MaxSignals /\ faults \in 0..MaxFaults

\* A finished turn sent the audio of its interval, each sample once and in
\* order, whatever the chunking, the gaps, the order of audio and signals, the
\* ring's evictions and the chunks streamed meanwhile: no more than was asked
\* and all of it the ring still had at the start (_timestamp_to_sample,
\* _drain_chunks, _finalize).  A turn the client never ends is as long as the
\* ring.
SegmentIsExact ==
    LET c == voice.closed
        Wanted(t) == /\ t >= c.from /\ (c.floor # Nil => t >= c.floor)
                     /\ c.until # Nil => t < c.until
    IN c # Nil =>
         \E first, past \in 0..Len(heard) :
             /\ c.audio = SubSeq(heard, first + 1, past)
             /\ \A i \in DOMAIN heard :
                   Wanted(heard[i]) <=> first < i /\ (c.until # Nil => i <= past)
             /\ c.until = Nil => past = first + RingSize

\* Detection is suspended only while a recording is open (_resume_detection,
\* on_span_cancel).  A detector in speech says nothing more of the utterance, so
\* that it has an open turn with its end to come, with two exceptions: a request
\* that failed, and a turn that reached the ring's length.  The code ends that
\* turn and leaves the detector as it is (VADStep.py:240-251): without any fault
\* the rest of the utterance is lost until the next pause.
DetectorAgrees ==
    /\ manual => voice.turn # Nil
    /\ ~manual /\ detector = "speech" /\ astray # "lost" =>
         IF voice.turn # Nil THEN voice.turn.until = Nil
         ELSE astray = "cut" /\ voice.closed # Nil /\ voice.closed.until = Nil

\* When the node is gone the service forgets all its sessions, also those whose
\* deletion or creation was not answered (drop, _session_reaper).
SessionsEnd == ~alive ~> (detector = "gone" /\ orphans = 0)
================================================================================
