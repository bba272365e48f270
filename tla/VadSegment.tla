------------------------------ MODULE VadSegment ------------------------------
(***************************************************************************)
(* VADStep: the segmentation of voice.  Audio chunks enter a ring, and a    *)
(* segment is the audio between a start and an end boundary, given as       *)
(* timestamps that may lie in the audio already heard or still to come.     *)
(*                                                                         *)
(* One sample lasts one unit of time and is named by the time it starts at; *)
(* heard[p + 1] is the sample at absolute position p.  A chunk covers the   *)
(* times end - len .. end - 1.  The operators give the node's next state    *)
(* from the one before: a value v has the open turn, what has been sent of  *)
(* it, and the last turn finished.                                          *)
(***************************************************************************)
EXTENDS Integers, FiniteSetsExt, SequencesExt

CONSTANTS
    RingSize,     \* ring_samples, also the longest segment
    StreamChunk,  \* chunk_samples
    Nil           \* no time, no position, no turn, no segment

Chunks == [start : Nat, len : Nat \ {0}, end : Nat]

Turns == [ts : Nat, from : Int, until : Int \cup {Nil}, mark : Nat \cup {Nil},
          target : Nat \cup {Nil}, timeline : Seq(Chunks), emitted : Nat, tail : Int,
          floor : Nat \cup {Nil}]

Segments == [audio : Seq(Nat), from : Int, until : Int \cup {Nil}, floor : Nat \cup {Nil}]

ASSUME SegmentAssumption ==
    /\ {RingSize, StreamChunk} \subseteq Nat \ {0}
    /\ Nil \notin Int \cup Turns \cup Segments

NonNegative(n) == Max({0, n})

EndPosition(chunk) == chunk.start + chunk.len

\* What is left of a sequence from the first of some places on.
Since(s, places) == SubSeq(s, Min(places \cup {Len(s) + 1}), Len(s))

-------------------------------------------------------------------------------
(* The ring.                                                                *)

\* _evict_cancelled: the chunk the cancel falls in is trimmed.
Evicted(ring, cancel) ==
    LET kept == Since(ring, {i \in DOMAIN ring : ring[i].end > cancel})
        old  == kept[1]
        cut  == NonNegative(cancel - (old.end - old.len))
        trimmed == [start |-> old.start + cut, len |-> old.len - cut, end |-> old.end]
    IN IF kept = <<>> THEN kept ELSE [kept EXCEPT ![1] = trimmed]

\* Evicts nothing.
MutantIngested(ring, chunk) == Append(ring, chunk)

\* _ingest: the ring keeps at least the newest chunk.
Ingested(ring, chunk) ==
    LET all == Append(ring, chunk)
        fits == {i \in DOMAIN all : EndPosition(chunk) - all[i].start <= RingSize}
    IN Since(all, fits \cup {Len(all)})

\* _timestamp_to_sample: the position of time t, Nil if it is still to come.
Position(t, timeline) ==
    LET covering == {i \in DOMAIN timeline : t <= timeline[i].end}
        chunk    == timeline[Min(covering)]
    IN IF covering = {} THEN Nil
       ELSE chunk.start + NonNegative(chunk.len - (chunk.end - t))

-------------------------------------------------------------------------------
(* The boundaries of a turn.                                                *)

Silent == [turn |-> Nil, spoken |-> <<>>, closed |-> Nil]

\* A new turn, _reset_turn included; floor is the oldest audio it may have.
Turn(ts, from, tail) ==
    [ts |-> ts, from |-> from, until |-> Nil, mark |-> Nil, target |-> Nil,
     timeline |-> <<>>, emitted |-> 0, tail |-> tail, floor |-> Nil]

\* Resolves against the ring.
MutantEndResolved(turn, ring) ==
    IF turn.until = Nil \/ turn.target # Nil THEN turn
    ELSE [turn EXCEPT !.target = Position(turn.until, ring)]

\* _resolve_timestamp_end: the turn's own timeline outlives the ring.
EndResolved(turn, ring) ==
    IF turn.until = Nil \/ turn.target # Nil THEN turn
    ELSE [turn EXCEPT !.target =
             Position(turn.until, IF turn.timeline = <<>> THEN ring ELSE turn.timeline)]

\* _resolve_timestamp_start: the audio from the mark on is the turn's.  Chunks follow
\* one another, so that those that reach the mark are the last ones.
StartResolved(turn, ring) ==
    LET mark  == Position(turn.from, ring)
        reach == {i \in DOMAIN ring : EndPosition(ring[i]) >= mark}
    IN IF turn.mark # Nil \/ mark = Nil THEN turn
       ELSE EndResolved([turn EXCEPT !.mark = mark, !.timeline = Since(ring, reach),
                                     !.floor = ring[1].end - ring[1].len], ring)

\* A chunk belongs to the open turn, or may hold its start.
Extended(turn, chunk, ring) ==
    IF turn.mark = Nil THEN StartResolved(turn, ring)
    ELSE EndResolved([turn EXCEPT !.timeline = Append(@, chunk)], ring)

\* A turn without an end is ended when it is as long as the ring.
Capped(turn, total) ==
    IF turn.mark # Nil /\ turn.until = Nil /\ turn.target = Nil
          /\ total - turn.mark >= RingSize
    THEN [turn EXCEPT !.target = turn.mark + RingSize] ELSE turn

-------------------------------------------------------------------------------
(* What a turn sends; stream is the node's configuration.                   *)

Limit(turn, total) ==
    IF turn.target = Nil
    THEN NonNegative(total - turn.mark - NonNegative(-turn.tail))
    ELSE Min({total - turn.mark, NonNegative(turn.target - turn.mark)})

\* _drain_chunks: full chunks.
Drained(v, heard) ==
    LET turn  == v.turn
        ready == NonNegative(Limit(turn, Len(heard)) - turn.emitted)
        to    == turn.emitted + StreamChunk * (ready \div StreamChunk)
    IN [v EXCEPT !.turn = [turn EXCEPT !.emitted = to],
                 !.spoken = @ \o SubSeq(heard, turn.mark + turn.emitted + 1, turn.mark + to)]

Complete(turn, total) ==
    turn.mark # Nil /\ turn.target # Nil /\ total >= Max({turn.mark, turn.target})

\* _finalize: the rest, or all of it.
Finalized(v, heard) ==
    LET turn == v.turn
        rest == SubSeq(heard, turn.mark + turn.emitted + 1, Max({turn.mark, turn.target}))
    IN [turn |-> Nil, spoken |-> <<>>,
        closed |-> [audio |-> v.spoken \o rest, from |-> turn.from, until |-> turn.until,
                    floor |-> turn.floor]]

Settled(v, heard, stream) ==
    IF v.turn = Nil \/ v.turn.mark = Nil THEN v
    ELSE LET d == IF stream THEN Drained(v, heard) ELSE v
         IN IF Complete(d.turn, Len(heard)) THEN Finalized(d, heard) ELSE d

-------------------------------------------------------------------------------
(* span_process: a chunk of audio, a start and an end.                      *)

Chunk(len, end, heard) == [start |-> Len(heard), len |-> len, end |-> end]

Samples(chunk) == [i \in 1..chunk.len |-> chunk.end - chunk.len + i - 1]

Heard(v, chunk, ring, heard, stream) ==
    IF v.turn = Nil THEN v
    ELSE LET turn == Capped(Extended(v.turn, chunk, ring), Len(heard))
         IN Settled([v EXCEPT !.turn = turn], heard, stream)

\* _on_start: a turn still open is discarded.
Started(v, ts, offset, tail, ring, heard, stream) ==
    Settled([v EXCEPT !.turn = StartResolved(Turn(ts, ts + offset, tail), ring),
                      !.spoken = <<>>],
            heard, stream)

\* _on_end: ignored without a turn; an interval known to be empty needs no audio.
Ended(v, ts, ring, heard, stream) ==
    LET turn  == [v.turn EXCEPT !.until = ts + v.turn.tail, !.target = Nil]
        total == Len(heard)
    IN IF v.turn = Nil THEN v
       ELSE IF turn.mark = Nil /\ turn.until <= turn.from
       THEN Finalized([v EXCEPT !.turn = [turn EXCEPT !.mark = total, !.target = total]], heard)
       ELSE LET e == [v EXCEPT !.turn = EndResolved(turn, ring)]
            IN IF Complete(e.turn, total) THEN Settled(e, heard, stream) ELSE e

\* on_span_cancel.
Discarded(v) == [v EXCEPT !.turn = Nil, !.spoken = <<>>]

================================================================================
