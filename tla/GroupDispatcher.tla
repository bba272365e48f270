--------------------------- MODULE GroupDispatcher ----------------------------
(* The gateway's side of the output (server_webrtc.py): once per group       *)
(* period the consumer task unpacks one group into the lanes of the          *)
(* dispatcher, and each lane's task takes a frame from its lane at its own   *)
(* rate, or falls back to silence, an idle frame or {} when the lane is      *)
(* empty.  Frames are counted; what they show is the splitter's affair.      *)
EXTENDS Integers

CONSTANTS
    Lanes,         \* the lanes of a group
    PerGroup,      \* frames of each lane in a group
    Beats,         \* beats of the shared clock in a period
    MaxWaiting     \* bound: groups received and not yet unpacked

Consumer == "consumer"   \* the task that unpacks the groups

ASSUME RateAssumption ==
    /\ Lanes # {} /\ Consumer \notin Lanes
    /\ PerGroup \in [Lanes -> Nat \ {0}] /\ Beats \in Nat \ {0}
    /\ \A l \in Lanes : Beats % PerGroup[l] = 0
ASSUME WaitingAssumption == MaxWaiting \in Nat

VARIABLES
    waiting,       \* groups in group_queue; its signals take no place in a lane
    frames,        \* frames in each lane's buffer
    beat,          \* the beat of the tracks' clock (start_time), within a period
    phase,         \* the beat on which the consumer's own clock ticks
    due            \* the tasks whose time has come on this beat

laneVars == <<waiting, frames, beat, phase, due>>

Unstarted == Beats

\* The tasks whose frame or group falls on beat b.
DueOn(b) ==
    {l \in Lanes : b % (Beats \div PerGroup[l]) = 0}
      \cup (IF b = phase THEN {Consumer} ELSE {})

LanesInit ==
    /\ waiting = 0 /\ frames = [l \in Lanes |-> 0]
    /\ beat = 0 /\ phase = Unstarted /\ due = Lanes

\* _relay_pipeline_output queues a group.
Receive ==
    /\ waiting < MaxWaiting
    /\ waiting' = waiting + 1
    /\ UNCHANGED <<frames, beat, phase, due>>

\* _group_consumer holds the first group for consumer_offset and starts a clock
\* of its own, anywhere in the tracks' period.
StartConsumer(p) ==
    /\ phase = Unstarted /\ waiting > 0
    /\ phase' = p
    /\ UNCHANGED <<waiting, frames, beat, due>>

\* A task whose time has come runs before the next beat.
Beat ==
    /\ due = {}
    /\ beat' = (beat + 1) % Beats
    /\ due' = DueOn(beat')
    /\ UNCHANGED <<waiting, frames, phase>>

\* The consumer catches up with every group that has arrived.
MutantFillGroup ==
    /\ Consumer \in due /\ waiting > 0
    /\ waiting' = 0
    /\ frames' = [l \in Lanes |-> frames[l] + waiting * PerGroup[l]]
    /\ due' = due \ {Consumer}
    /\ UNCHANGED <<beat, phase>>

\* fill_next_group.
FillGroup ==
    /\ Consumer \in due /\ waiting > 0
    /\ waiting' = waiting - 1
    /\ frames' = [l \in Lanes |-> frames[l] + PerGroup[l]]
    /\ due' = due \ {Consumer}
    /\ UNCHANGED <<beat, phase>>

FillNothing ==
    /\ Consumer \in due /\ waiting = 0
    /\ due' = due \ {Consumer}
    /\ UNCHANGED <<waiting, frames, beat, phase>>

\* get_audio, get_video, get_data: the next frame, or the lane's stand-in.
Take(l) ==
    /\ l \in due
    /\ frames' = [frames EXCEPT ![l] = IF @ > 0 THEN @ - 1 ELSE 0]
    /\ due' = due \ {l}
    /\ UNCHANGED <<waiting, beat, phase>>

LanesNext ==
    \/ Receive \/ Beat \/ FillGroup \/ FillNothing
    \/ \E p \in 0..(Beats - 1) : StartConsumer(p)
    \/ \E l \in Lanes : Take(l)

LanesSpec == LanesInit /\ [][LanesNext]_laneVars

-------------------------------------------------------------------------------
\* Types of the session's buffers and clocks.
LaneTypes ==
    /\ waiting \in 0..MaxWaiting /\ frames \in [Lanes -> Nat]
    /\ beat \in 0..(Beats - 1) /\ phase \in 0..Unstarted
    /\ due \subseteq Lanes \cup {Consumer}

\* However often the queue runs dry, wherever in the period the consumer ticks
\* and whichever task of a beat comes first, two lanes are never further apart
\* than one frame of each, and none keeps more than one frame when the next
\* group arrives: what the client hears and sees stays together, and no lane
\* falls behind for good.
LanesStayTogether ==
    /\ \A l, k \in Lanes :
         frames[l] * PerGroup[k] - frames[k] * PerGroup[l] <= PerGroup[l] + PerGroup[k]
    /\ \A l \in Lanes : frames[l] <= PerGroup[l] + 1
===============================================================================
