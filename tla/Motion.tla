------------------------------- MODULE Motion -------------------------------
(***************************************************************************)
(* Motion statistics of clips (kvs/clipupload/core/cvr_daemon.cpp): video  *)
(* analytics sends its results by rtMessage to a thread that queues them;  *)
(* for every video frame CVR::do_cvr takes one, and from them come, clip   *)
(* by clip, the motion level of each second, the event that is reported    *)
(* and the frames that show the most motion.  How frames are read and      *)
(* clips are cut is the subject of Recorder.                               *)
(*                                                                         *)
(* Times are in half seconds.  The time of day passes by itself (now); a   *)
(* frame is read when it was made or any time later (pts): after a sleep   *)
(* for want of memory, or a call of cvr_upload that did not return, the    *)
(* recorder lags behind.  A result has the PTS of the frame it is about,   *)
(* the second in which analytics looked at it (curr_time), a motion score, *)
(* a raw motion level in percent and a set of event types.                 *)
(***************************************************************************)
EXTENDS Integers, Sequences

CONSTANTS
  RT_MSG_CVR_Q_SIZE_LIMIT, OD_FRAMES_MAX, VIDEO_DURATION_MAX,
  Results,          \* what analytics may send: [score, level, events]
  QuietIntervals,   \* values of the quiet interval, in seconds
  Delays,           \* how long analytics may take with a frame
  MaxTime           \* bound

ASSUME SizesAssumption ==
  /\ RT_MSG_CVR_Q_SIZE_LIMIT \in Nat \ {0} /\ OD_FRAMES_MAX \in Nat \ {0, 1}
  /\ VIDEO_DURATION_MAX \in Nat \ {0} /\ MaxTime \in Nat \ 0..3

EventTypes == {"motion", "tamper", "people"}

ASSUME ResultsAssumption ==
  /\ \A r \in Results : r.score \in Nat /\ r.level \in Nat /\ r.events \subseteq EventTypes
  /\ QuietIntervals \subseteq Nat /\ Delays \subseteq 0..3

VARIABLES
  now,                   \* time of day
  pts,                   \* of the video frame read last
  \* The receiving thread
  rtmessageCVRQ,
  iscvrenabled,          \* as on_message_cvr last read it
  reload_cvr_config,     \* SIGUSR1 has come since
  \* The recorder
  pc, local_stream_err,
  start,                 \* start_msec: PTS of the first frame of the clip, or of the next one
  start_t,               \* time of day at which that frame was read
  cvr_starttime,         \* start of the clip, in seconds of the time of day
  vai_result_recved,     \* the result last taken
  frame_num_count, motion_level_raw_sum, event_type_raw,  \* of the current second
  motion_level_idx, motion_statistics_info,
  cvr_event_seconds,     \* by event type: its first event in the clip, or 0
  prev_cvr_event_seconds, event_quiet_time,
  od_frames, low_bound_motion_score,
  best,                  \* ghost: the highest score taken since a clip was submitted
  counted,               \* ghost: by second of the clip, what the frames counted to it said
  taken,                 \* ghost: by type, when an event was last made the clip's own
  skipped                \* ghost: type and time of an event just skipped

frame    == <<pts, start, start_t>>
clock    == <<frame, cvr_starttime>>
listener == <<iscvrenabled, reload_cvr_config>>
second   == <<frame_num_count, motion_level_raw_sum, event_type_raw>>
levels   == <<motion_level_idx, motion_statistics_info, counted>>
events   == <<prev_cvr_event_seconds, event_quiet_time, taken, skipped>>
od       == <<od_frames, low_bound_motion_score, best>>
vars     == <<now, rtmessageCVRQ, listener, pc, local_stream_err, clock, vai_result_recved,
              second, levels, cvr_event_seconds, events, od>>

Seconds(t) == t \div 2
NoResult   == [ts |-> 0, curr_time |-> 0, score |-> 0, level |-> 0, events |-> {}]
NoEvents   == [e \in EventTypes |-> 0]
NoLevel    == [motion |-> 0, events |-> {}]
NoLevels   == [i \in 1 .. VIDEO_DURATION_MAX |-> NoLevel]
NoneCounted == [i \in 1 .. VIDEO_DURATION_MAX + 1 |-> [frames |-> 0, level |-> 0, events |-> {}]]

Init ==
  /\ now = 4 /\ pts = 0
  /\ rtmessageCVRQ = <<>> /\ iscvrenabled = FALSE /\ reload_cvr_config = TRUE
  /\ pc = "waitI" /\ local_stream_err = FALSE
  /\ start = 0 /\ start_t = 0 /\ cvr_starttime = 0
  /\ vai_result_recved = NoResult
  /\ frame_num_count = 0 /\ motion_level_raw_sum = 0 /\ event_type_raw = {}
  /\ motion_level_idx = 1 /\ motion_statistics_info = NoLevels /\ counted = NoneCounted
  /\ cvr_event_seconds = NoEvents /\ prev_cvr_event_seconds = NoEvents
  /\ event_quiet_time \in QuietIntervals /\ taken = NoEvents /\ skipped = <<>>
  /\ od_frames = <<>> /\ low_bound_motion_score = 0 /\ best = 0

-----------------------------------------------------------------------------
(* The thread of receive_rtmessage *)

\* However many there are.
push_msg_Unlimited(r) == rtmessageCVRQ' = Append(rtmessageCVRQ, r)

\* When the queue is full the oldest result goes.
push_msg(r) ==
  rtmessageCVRQ' =
    Append(IF Len(rtmessageCVRQ) >= RT_MSG_CVR_Q_SIZE_LIMIT
             THEN Tail(rtmessageCVRQ) ELSE rtmessageCVRQ, r)

\* Analytics looks at frames in their order.
Newest(ts) ==
  /\ ts > vai_result_recved.ts
  /\ \A i \in DOMAIN rtmessageCVRQ : ts > rtmessageCVRQ[i].ts

\* A result is not looked at while recording is disabled or the stream is broken.
on_message_cvr(r, ts, curr_time) ==
  /\ Newest(ts)
  /\ reload_cvr_config' = FALSE
  /\ iscvrenabled' \in IF reload_cvr_config THEN BOOLEAN ELSE {iscvrenabled}
  /\ IF iscvrenabled' /\ ~local_stream_err
       THEN push_msg([ts |-> ts, curr_time |-> curr_time, score |-> r.score, level |-> r.level,
                      events |-> r.events])
       ELSE UNCHANGED rtmessageCVRQ
  /\ UNCHANGED <<now, pc, local_stream_err, clock, vai_result_recved, second, levels,
                 cvr_event_seconds, events, od>>

\* Analytics is done with a frame, a little after it was made.
Message ==
  \E r \in Results, d \in Delays : \E curr_time \in Seconds(now - d) .. Seconds(now) :
    on_message_cvr(r, now - d, curr_time)

\* SIGUSR1
reload_config ==
  /\ ~reload_cvr_config
  /\ reload_cvr_config' = TRUE
  /\ UNCHANGED <<now, rtmessageCVRQ, iscvrenabled, pc, local_stream_err, clock,
                 vai_result_recved, second, levels, cvr_event_seconds, events, od>>

-----------------------------------------------------------------------------
(* The frames with the most motion, of which only the scores are kept *)

sort_od_frame_data(frames, score) ==
  LET higher == {i \in DOMAIN frames : frames[i] >= score}
  IN  [i \in 1 .. Len(frames) + 1 |->
         IF i \in higher THEN frames[i] ELSE IF i - 1 \in higher \cup {0} /\ i \notin higher
         THEN score ELSE frames[i - 1]]

\* The first slot is taken instead of the last.
push_od_frame_data_First(score) ==
  LET full == Len(od_frames) = OD_FRAMES_MAX
      low  == IF low_bound_motion_score = 0 \/ full THEN score ELSE low_bound_motion_score
  IN  /\ od_frames' = sort_od_frame_data(IF full THEN Tail(od_frames) ELSE od_frames, score)
      /\ low_bound_motion_score' = low

\* When no slot is free pop_od_frame_data empties the last one, and the bound
\* becomes the score of the frame that came instead.
push_od_frame_data(score) ==
  LET full == Len(od_frames) = OD_FRAMES_MAX
      low  == IF low_bound_motion_score = 0 \/ full THEN score ELSE low_bound_motion_score
  IN  /\ od_frames' =
           sort_od_frame_data(IF full THEN SubSeq(od_frames, 1, OD_FRAMES_MAX - 1) ELSE od_frames, score)
      /\ low_bound_motion_score' = low

update_od_frame_data(r) ==
  /\ IF r.score > low_bound_motion_score
       THEN push_od_frame_data(r.score) ELSE UNCHANGED <<od_frames, low_bound_motion_score>>
  /\ best' = IF r.score > best THEN r.score ELSE best

reset_od_frame_data == od_frames' = <<>> /\ low_bound_motion_score' = 0 /\ best' = 0

-----------------------------------------------------------------------------
(* The statistics of a frame *)

\* With no result waiting the caller has the last one again.
pop_msg ==
  IF rtmessageCVRQ = <<>>
    THEN UNCHANGED <<rtmessageCVRQ, vai_result_recved>>
    ELSE rtmessageCVRQ' = Tail(rtmessageCVRQ) /\ vai_result_recved' = Head(rtmessageCVRQ)

\* Any result counts.
Current_Any(r, arm_pts) == r.ts # 0

\* A second or less between the result and the frame, whichever is the older.
Current(r, arm_pts) == r.ts # 0 /\ arm_pts - r.ts <= 2 /\ r.ts - arm_pts <= 2

\* A frame in second i of the clip, after n, sum and raw before.
get_motion_statistics_info(arm_pts, i, n, sum, raw) ==
  LET r == vai_result_recved'
  IN  /\ pop_msg
      /\ update_od_frame_data(r)
      /\ IF Current(r, arm_pts)
           THEN /\ frame_num_count' = n + 1
                /\ motion_level_raw_sum' = sum + r.level
                /\ event_type_raw' = raw \cup (r.events \ {"motion"})
                /\ cvr_event_seconds' =
                     [e \in EventTypes |-> IF e \in r.events /\ cvr_event_seconds[e] = 0
                                             THEN r.curr_time ELSE cvr_event_seconds[e]]
                /\ counted' = [counted EXCEPT ![i] =
                                 [frames |-> @.frames + 1, level |-> @.level + r.level,
                                  events |-> @.events \cup (r.events \ {"motion"})]]
           ELSE /\ frame_num_count' = n /\ motion_level_raw_sum' = sum /\ event_type_raw' = raw
                /\ UNCHANGED <<cvr_event_seconds, counted>>

\* Tenths of the average, rounded up: below one percent there was no motion.
calculate_motion_level(frames, sum, raw) ==
  LET average == sum \div frames
  IN  [motion |-> IF average = 0 THEN 0 ELSE (average - 1) \div 10 + 1, events |-> raw]

LevelOfSecond ==
  [motion_statistics_info EXCEPT ![motion_level_idx] =
     calculate_motion_level(frame_num_count, motion_level_raw_sum, event_type_raw)]

-----------------------------------------------------------------------------
(* do_cvr *)

Goes(from, to) == pc = from /\ pc' = to

\* The next frame there is, made now or before; some may be missing.
Reads == pts' \in pts + 1 .. now /\ UNCHANGED now

\* Time passes: no frame comes, memory is low, or cvr_upload is at work.
Passes ==
  /\ now < MaxTime /\ now' = now + 1
  /\ UNCHANGED <<rtmessageCVRQ, listener, pc, local_stream_err, clock, vai_result_recved,
                 second, levels, cvr_event_seconds, events, od>>

\* A frame that starts a clip: its PTS and the time of day are kept.
KeepKeyFrame == Reads /\ start' = pts' /\ start_t' = now

\* The session starts with a key frame, or there is none yet.
R_WaitKeyFrame ==
  /\ \/ Goes("waitI", "start") /\ KeepKeyFrame /\ local_stream_err' = FALSE
     \/ Goes("waitI", "waitI") /\ local_stream_err' \in BOOLEAN /\ UNCHANGED <<now, frame>>
  /\ UNCHANGED <<rtmessageCVRQ, listener, cvr_starttime, vai_result_recved, second, levels,
                 cvr_event_seconds, events, od>>

\* The clip gets its name, from the time of day, and its first frame.
R_StartClip ==
  /\ Goes("start", "record")
  /\ cvr_starttime' = Seconds(start_t)
  /\ motion_level_idx' = 1 /\ motion_statistics_info' = NoLevels
  /\ get_motion_statistics_info(start, 1, 0, 0, {})
  /\ skipped' = <<>>
  /\ UNCHANGED <<now, listener, local_stream_err, frame, prev_cvr_event_seconds,
                 event_quiet_time, taken>>

\* A video frame of the clip, in the loop until the clip has its length or in the
\* loop that looks for a key frame after it.
ReadsFrame == Goes("record", "record") /\ Reads

\* A frame of the current second.
R_Frame ==
  /\ ReadsFrame
  /\ pts' - start <= 2 * motion_level_idx
  /\ get_motion_statistics_info(pts', motion_level_idx,
                                frame_num_count, motion_level_raw_sum, event_type_raw)
  /\ UNCHANGED <<listener, local_stream_err, start, start_t, cvr_starttime, motion_level_idx,
                 motion_statistics_info, events>>

\* ... whose level is forgotten.
R_NextSecond_NoReset ==
  /\ ReadsFrame
  /\ pts' - start > 2 * motion_level_idx
  /\ motion_level_idx <= VIDEO_DURATION_MAX
  /\ UNCHANGED motion_statistics_info
  /\ motion_level_idx' = motion_level_idx + 1
  /\ get_motion_statistics_info(pts', motion_level_idx', 0, 0, {})
  /\ UNCHANGED <<listener, local_stream_err, start, start_t, cvr_starttime, events>>

\* The first frame after it: the level of the second is calculated.  After a gap
\* of some seconds the frames to come are counted to seconds long past.
R_NextSecond ==
  /\ ReadsFrame
  /\ pts' - start > 2 * motion_level_idx
  /\ motion_level_idx <= VIDEO_DURATION_MAX
  /\ motion_statistics_info' = (IF frame_num_count > 0 THEN LevelOfSecond
                                ELSE motion_statistics_info)
  /\ motion_level_idx' = motion_level_idx + 1
  /\ get_motion_statistics_info(pts', motion_level_idx', 0, 0, {})
  /\ UNCHANGED <<listener, local_stream_err, start, start_t, cvr_starttime, events>>

\* There is no room for the levels of a longer clip: no result is taken.
R_LevelsFull ==
  /\ ReadsFrame
  /\ pts' - start > 2 * motion_level_idx
  /\ motion_level_idx > VIDEO_DURATION_MAX
  /\ UNCHANGED <<rtmessageCVRQ, listener, local_stream_err, start, start_t, cvr_starttime,
                 vai_result_recved, second, levels, cvr_event_seconds, events, od>>

\* The clip is over with a key frame, which starts the next one.
R_KeyFrame ==
  /\ Goes("record", "finish") /\ KeepKeyFrame
  /\ UNCHANGED <<rtmessageCVRQ, listener, local_stream_err, cvr_starttime, vai_result_recved,
                 second, levels, cvr_event_seconds, events, od>>

\* A read fails.  After the first loop the second one still reads frames, and ends
\* with a key frame or when a read fails again; after the key frame it is a read
\* of audio.
R_ReadError ==
  /\ pc \in {"record", "finish"} /\ pc' \in {pc, "finish"}
  /\ local_stream_err' = TRUE
  /\ UNCHANGED <<now, rtmessageCVRQ, listener, clock, vai_result_recved, second, levels,
                 cvr_event_seconds, events, od>>

\* The type that is looked at, if any: the first whose event is not before the clip.
ClipEvent ==
  LET InClip(e) == cvr_event_seconds[e] >= cvr_starttime - 1
  IN  CASE InClip("motion") -> {"motion"}
        [] InClip("tamper") /\ ~InClip("motion") -> {"tamper"}
        [] InClip("people") /\ ~InClip("motion") /\ ~InClip("tamper") -> {"people"}
        [] OTHER -> {}

Loud(e, quiet) ==
  \/ prev_cvr_event_seconds[e] = 0
  \/ cvr_event_seconds[e] >= prev_cvr_event_seconds[e] + quiet

\* A skipped event starts the interval again.
cvr_get_event_info_Restart ==
  /\ event_quiet_time' \in QuietIntervals
  /\ LET own == {e \in ClipEvent : Loud(e, event_quiet_time')}
     IN  /\ taken' = [e \in EventTypes |-> IF e \in own THEN cvr_event_seconds[e] ELSE taken[e]]
         /\ prev_cvr_event_seconds' =
              [e \in EventTypes |-> IF e \in ClipEvent THEN cvr_event_seconds[e]
                                    ELSE prev_cvr_event_seconds[e]]
         /\ skipped' = IF ClipEvent = own THEN <<>>
                       ELSE <<CHOOSE e \in ClipEvent : TRUE,
                              cvr_event_seconds[CHOOSE e \in ClipEvent : TRUE]>>
  /\ cvr_event_seconds' = NoEvents

\* The event of the clip, unless one of its type was within the quiet interval.
\* The events of the other types are forgotten.
cvr_get_event_info ==
  /\ event_quiet_time' \in QuietIntervals
  /\ LET own == {e \in ClipEvent : Loud(e, event_quiet_time')}
     IN  /\ taken' = [e \in EventTypes |-> IF e \in own THEN cvr_event_seconds[e] ELSE taken[e]]
         /\ prev_cvr_event_seconds' =
              [e \in EventTypes |-> IF e \in own THEN cvr_event_seconds[e]
                                    ELSE prev_cvr_event_seconds[e]]
         /\ skipped' = IF ClipEvent = own THEN <<>>
                       ELSE <<CHOOSE e \in ClipEvent : TRUE,
                              cvr_event_seconds[CHOOSE e \in ClipEvent : TRUE]>>
  /\ cvr_event_seconds' = NoEvents

\* The last second, the levels and the event of the clip.  A clip cut short by an
\* error is unlinked, but its event counts, and its frames with the most motion
\* are not given up.
R_Finish ==
  /\ Goes("finish", "written")
  /\ motion_statistics_info' =
       (IF frame_num_count > 0 /\ motion_level_idx <= VIDEO_DURATION_MAX
          THEN LevelOfSecond ELSE motion_statistics_info)
  /\ cvr_get_event_info
  /\ UNCHANGED <<now, rtmessageCVRQ, listener, local_stream_err, clock, vai_result_recved,
                 second, motion_level_idx, counted, od>>

\* cvr_upload, with the frames if the event is motion.  After an error the session
\* is closed, and a new one waits for a key frame of its own.
R_Submit ==
  /\ Goes("written", IF local_stream_err THEN "waitI" ELSE "start")
  /\ IF local_stream_err THEN UNCHANGED od ELSE reset_od_frame_data
  /\ counted' = NoneCounted
  /\ UNCHANGED <<now, rtmessageCVRQ, listener, local_stream_err, clock, vai_result_recved,
                 second, motion_level_idx, motion_statistics_info, cvr_event_seconds, events>>

Next ==
  \/ Message \/ reload_config \/ Passes
  \/ R_WaitKeyFrame \/ R_StartClip \/ R_Frame \/ R_NextSecond \/ R_LevelsFull
  \/ R_KeyFrame \/ R_ReadError \/ R_Finish \/ R_Submit

Spec == Init /\ [][Next]_vars

-----------------------------------------------------------------------------
TypeOK ==
  /\ Len(rtmessageCVRQ) <= RT_MSG_CVR_Q_SIZE_LIMIT
  /\ pc \in {"waitI", "start", "record", "finish", "written"}
  /\ iscvrenabled \in BOOLEAN /\ reload_cvr_config \in BOOLEAN /\ local_stream_err \in BOOLEAN
  /\ now \in 4..MaxTime /\ pts \in 0..now /\ start \in 0..pts /\ start_t \in 0..now
  /\ frame_num_count \in Nat /\ motion_level_idx \in 1 .. VIDEO_DURATION_MAX + 1
  /\ DOMAIN motion_statistics_info = 1 .. VIDEO_DURATION_MAX
  /\ Len(od_frames) <= OD_FRAMES_MAX
  /\ cvr_event_seconds \in [EventTypes -> 0..MaxTime]
  /\ prev_cvr_event_seconds \in [EventTypes -> 0..MaxTime]

\* The key frame was read in a later second than it was made in.
ReadLate == Seconds(start) < cvr_starttime

\* get_motion_statistics_info: a result is used again when there is no newer
\* one, be it from the clip before, and only the first event of a type counts.
\* Still no event older than the clip stands in the way of one of the clip, which
\* cvr_get_event_info would then not look at.  One exception: when its key frame
\* was read late, the clip is said to start later than its first frame, and an
\* event may be older than that, yet not older than a second before the frame.
EventsOfClip ==
  pc = "record" =>
    \A e \in EventTypes : cvr_event_seconds[e] # 0 =>
      \/ cvr_event_seconds[e] >= cvr_starttime - 1
      \/ ReadLate /\ cvr_event_seconds[e] >= Seconds(start) - 1

\* update_od_frame_data: although a frame may be dropped for one with less
\* motion, the frame with the most is the first of those sent with the clip.
BestFrame == IF od_frames = <<>> THEN best = 0 ELSE od_frames[1] = best

\* do_cvr: whatever the gaps between frames, and however late a second is closed,
\* the statistics of a clip have for each second the level of all frames counted
\* to it and of no others, the last second included, as far as there is room.
LevelsComplete ==
  pc = "written" =>
    \A i \in 1 .. VIDEO_DURATION_MAX :
      motion_statistics_info[i] =
        IF counted[i].frames = 0 THEN NoLevel
        ELSE calculate_motion_level(counted[i].frames, counted[i].level, counted[i].events)

\* cvr_get_event_info: an event is skipped only soon after one that was not:
\* events that go on are reported again.
SkipsJustified ==
  skipped # <<>> =>
    LET e == skipped[1]
    IN  taken[e] # 0 /\ skipped[2] < taken[e] + event_quiet_time
=============================================================================
