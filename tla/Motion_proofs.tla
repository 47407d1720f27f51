--------------------------- MODULE Motion_proofs ---------------------------
(***************************************************************************)
(* Proofs about Motion, for any results, sizes and times: the types, and   *)
(* EventsOfClip, BestFrame, SkipsJustified and LevelsComplete.             *)
(***************************************************************************)
EXTENDS Motion, TLAPS

-----------------------------------------------------------------------------
(* Results, and the clock. *)

\* What the queue and the recorder hold: a result about a time, or none yet.
Received == [ts : 0..MaxTime, curr_time : 0..MaxTime, score : Nat, level : Nat, events : SUBSET EventTypes]

\* Analytics has looked at the frame when it was made or later.
Dated(r) == r.curr_time >= Seconds(r.ts)

Clock ==
  /\ now \in 4..MaxTime /\ pts \in 0..now /\ start \in 0..pts /\ start_t \in 0..now
  /\ pc \in {"waitI", "start", "record", "finish", "written"}
  /\ cvr_starttime \in Nat /\ start <= start_t
  /\ pc = "record" => cvr_starttime = Seconds(start_t)

Queue ==
  /\ rtmessageCVRQ \in Seq(Received) /\ Len(rtmessageCVRQ) <= RT_MSG_CVR_Q_SIZE_LIMIT
  /\ vai_result_recved \in Received
  /\ Dated(vai_result_recved) /\ \A i \in DOMAIN rtmessageCVRQ : Dated(rtmessageCVRQ[i])
  /\ iscvrenabled \in BOOLEAN /\ reload_cvr_config \in BOOLEAN /\ local_stream_err \in BOOLEAN

LEMMA SecondsGrow ==
  \A a, b \in Nat : a <= b => Seconds(a) \in Nat /\ Seconds(b) \in Nat /\ Seconds(a) <= Seconds(b)
BY DEF Seconds

LEMMA ClockStep ==
  ASSUME Clock, [Next]_vars
  PROVE  Clock'
<1> USE SizesAssumption
<1>1. CASE Message
  BY <1>1 DEF Clock, Message, on_message_cvr, clock, frame
<1>2. CASE reload_config \/ Passes
  BY <1>2 DEF Clock, reload_config, Passes, clock, frame
<1>3. CASE R_WaitKeyFrame \/ R_KeyFrame
  BY <1>3 DEF Clock, R_WaitKeyFrame, R_KeyFrame, KeepKeyFrame, Reads, Goes, frame
<1>4. CASE R_Frame \/ R_NextSecond \/ R_LevelsFull
  BY <1>4 DEF Clock, R_Frame, R_NextSecond, R_LevelsFull, ReadsFrame, Reads, Goes
<1>5. CASE R_StartClip
  BY <1>5 DEF Clock, R_StartClip, Goes, Seconds, frame
<1>6. CASE R_Finish \/ R_Submit \/ R_ReadError
  BY <1>6 DEF Clock, R_Finish, R_Submit, R_ReadError, Goes, clock, frame
<1>7. CASE UNCHANGED vars
  BY <1>7 DEF Clock, vars, clock, frame
<1> QED
  BY <1>1, <1>2, <1>3, <1>4, <1>5, <1>6, <1>7 DEF Next

\* pop_msg
LEMMA PopType ==
  ASSUME Queue, pop_msg
  PROVE  /\ rtmessageCVRQ' \in Seq(Received) /\ Len(rtmessageCVRQ') <= RT_MSG_CVR_Q_SIZE_LIMIT
         /\ vai_result_recved' \in Received
         /\ Dated(vai_result_recved') /\ \A i \in DOMAIN rtmessageCVRQ' : Dated(rtmessageCVRQ'[i])
<1>1. CASE rtmessageCVRQ = <<>>
  BY <1>1 DEF Queue, pop_msg
<1>2. CASE rtmessageCVRQ # <<>>
  <2>1. rtmessageCVRQ' = Tail(rtmessageCVRQ) /\ vai_result_recved' = rtmessageCVRQ[1]
    BY <1>2 DEF pop_msg
  <2>2. /\ Tail(rtmessageCVRQ) \in Seq(Received)
        /\ Len(Tail(rtmessageCVRQ)) = Len(rtmessageCVRQ) - 1
        /\ 1 \in DOMAIN rtmessageCVRQ
        /\ \A i \in DOMAIN Tail(rtmessageCVRQ) : /\ i + 1 \in DOMAIN rtmessageCVRQ
                                                 /\ Tail(rtmessageCVRQ)[i] = rtmessageCVRQ[i + 1]
    BY <1>2 DEF Queue
  <2> QED
    BY <2>1, <2>2, SizesAssumption DEF Queue
<1> QED
  BY <1>1, <1>2

\* push_msg
LEMMA PushType ==
  ASSUME Queue, NEW m \in Received, Dated(m), push_msg(m)
  PROVE  /\ rtmessageCVRQ' \in Seq(Received) /\ Len(rtmessageCVRQ') <= RT_MSG_CVR_Q_SIZE_LIMIT
         /\ \A i \in DOMAIN rtmessageCVRQ' : Dated(rtmessageCVRQ'[i])
<1> DEFINE q == IF Len(rtmessageCVRQ) >= RT_MSG_CVR_Q_SIZE_LIMIT THEN Tail(rtmessageCVRQ) ELSE rtmessageCVRQ
<1>1. q \in Seq(Received) /\ Len(q) < RT_MSG_CVR_Q_SIZE_LIMIT /\ \A i \in DOMAIN q : Dated(q[i])
  <2>1. CASE Len(rtmessageCVRQ) >= RT_MSG_CVR_Q_SIZE_LIMIT
    <3>1. /\ rtmessageCVRQ # <<>> /\ q = Tail(rtmessageCVRQ)
          /\ Len(q) = Len(rtmessageCVRQ) - 1 /\ q \in Seq(Received)
      BY <2>1, SizesAssumption DEF Queue
    <3>2. \A i \in DOMAIN q : i + 1 \in DOMAIN rtmessageCVRQ /\ q[i] = rtmessageCVRQ[i + 1]
      BY <3>1 DEF Queue
    <3> QED
      BY <3>1, <3>2, SizesAssumption DEF Queue
  <2>2. CASE ~(Len(rtmessageCVRQ) >= RT_MSG_CVR_Q_SIZE_LIMIT)
    BY <2>2, SizesAssumption DEF Queue
  <2> QED
    BY <2>1, <2>2
<1>2. rtmessageCVRQ' = Append(q, m)
  BY DEF push_msg
<1> HIDE DEF q
<1>3. Append(q, m) \in Seq(Received) /\ Len(Append(q, m)) = Len(q) + 1
  BY <1>1
<1>4. ASSUME NEW i \in DOMAIN Append(q, m)
      PROVE  Dated(Append(q, m)[i])
  <2>1. CASE i = Len(q) + 1
    BY <1>1, <2>1
  <2>2. CASE i # Len(q) + 1
    <3>1. i \in DOMAIN q /\ Append(q, m)[i] = q[i]
      BY <1>1, <1>3, <2>2
    <3> QED
      BY <1>1, <3>1
  <2> QED
    BY <2>1, <2>2
<1> QED
  BY <1>1, <1>2, <1>3, <1>4, SizesAssumption

LEMMA QueueStep ==
  ASSUME Clock, Queue, [Next]_vars
  PROVE  Queue'
<1>1. CASE Message
  <2>1. PICK r \in Results, d \in Delays : \E c \in Seconds(now - d)..Seconds(now) : on_message_cvr(r, now - d, c)
    BY <1>1 DEF Message
  <2>2. PICK c \in Seconds(now - d)..Seconds(now) : on_message_cvr(r, now - d, c)
    BY <2>1
  <2> DEFINE m == [ts |-> now - d, curr_time |-> c, score |-> r.score, level |-> r.level,
                   events |-> r.events]
  <2>3. /\ now - d \in 0..MaxTime /\ Seconds(now - d) \in 0..MaxTime /\ Seconds(now) \in 0..MaxTime
        /\ c \in 0..MaxTime /\ c >= Seconds(now - d)
    BY ResultsAssumption, SizesAssumption DEF Clock, Seconds
  <2>4. m \in Received /\ Dated(m)
    BY <2>3, ResultsAssumption DEF Received, Dated
  <2>5. push_msg(m) \/ UNCHANGED rtmessageCVRQ
    BY <2>2 DEF on_message_cvr
  <2> HIDE DEF m
  <2>6. /\ rtmessageCVRQ' \in Seq(Received) /\ Len(rtmessageCVRQ') <= RT_MSG_CVR_Q_SIZE_LIMIT
        /\ \A i \in DOMAIN rtmessageCVRQ' : Dated(rtmessageCVRQ'[i])
    BY <2>4, <2>5, PushType DEF Queue
  <2>7. /\ UNCHANGED <<vai_result_recved, local_stream_err>> /\ reload_cvr_config' \in BOOLEAN
        /\ iscvrenabled' \in BOOLEAN
    BY <2>2 DEF on_message_cvr, Queue
  <2> QED
    BY <2>6, <2>7 DEF Queue
<1>2. CASE R_StartClip \/ R_Frame \/ R_NextSecond
  <2>1. pop_msg
    BY <1>2 DEF R_StartClip, R_Frame, R_NextSecond, get_motion_statistics_info
  <2>2. UNCHANGED <<iscvrenabled, reload_cvr_config, local_stream_err>>
    BY <1>2 DEF R_StartClip, R_Frame, R_NextSecond, listener
  <2> QED
    BY <2>1, <2>2, PopType DEF Queue
<1>3. CASE \/ reload_config \/ Passes \/ R_WaitKeyFrame \/ R_LevelsFull \/ R_KeyFrame \/ R_ReadError
           \/ R_Finish \/ R_Submit \/ UNCHANGED vars
  <2>1. /\ UNCHANGED <<rtmessageCVRQ, vai_result_recved, iscvrenabled>>
        /\ reload_cvr_config' \in {reload_cvr_config, TRUE} /\ local_stream_err' \in {local_stream_err, TRUE, FALSE}
    BY <1>3 DEF reload_config, Passes, R_WaitKeyFrame, R_LevelsFull, R_KeyFrame, R_ReadError, R_Finish,
                R_Submit, listener, vars
  <2> QED
    BY <2>1 DEF Queue
<1> QED
  BY <1>1, <1>2, <1>3 DEF Next

-----------------------------------------------------------------------------
(* The seconds of the clip. *)

Counters ==
  /\ frame_num_count \in Nat /\ motion_level_idx \in 1..VIDEO_DURATION_MAX + 1
  /\ DOMAIN motion_statistics_info = 1..VIDEO_DURATION_MAX

LEMMA CountersStep ==
  ASSUME Counters, [Next]_vars
  PROVE  Counters'
<1>1. CASE Message
  BY <1>1 DEF Counters, Message, on_message_cvr, second, levels
<1>2. CASE R_StartClip
  BY <1>2, SizesAssumption DEF Counters, R_StartClip, get_motion_statistics_info, NoLevels
<1>3. CASE R_Frame
  BY <1>3 DEF Counters, R_Frame, get_motion_statistics_info
<1>4. CASE R_NextSecond
  BY <1>4, SizesAssumption DEF Counters, R_NextSecond, get_motion_statistics_info, LevelOfSecond
<1>5. CASE R_Finish
  BY <1>5 DEF Counters, R_Finish, LevelOfSecond, second
<1>6. CASE reload_config \/ Passes \/ R_WaitKeyFrame \/ R_LevelsFull \/ R_KeyFrame \/ R_ReadError \/ R_Submit
  BY <1>6 DEF Counters, reload_config, Passes, R_WaitKeyFrame, R_LevelsFull, R_KeyFrame, R_ReadError, R_Submit, second, levels
<1>7. CASE UNCHANGED vars
  BY <1>7 DEF Counters, vars, second, levels
<1> QED
  BY <1>1, <1>2, <1>3, <1>4, <1>5, <1>6, <1>7 DEF Next

-----------------------------------------------------------------------------
(* The frames with the most motion. *)

\* The first frame is the best one, and the bound that a better one has to pass is no higher.
Best ==
  /\ od_frames \in Seq(Nat) /\ Len(od_frames) <= OD_FRAMES_MAX
  /\ low_bound_motion_score \in Nat /\ best \in Nat /\ low_bound_motion_score <= best
  /\ IF od_frames = <<>> THEN best = 0 ELSE od_frames[1] = best

\* sort_od_frame_data puts a frame first when no frame has its score.
LEMMA SortFirst ==
  ASSUME NEW q \in Seq(Nat), NEW r \in Nat
  PROVE  /\ sort_od_frame_data(q, r) \in Seq(Nat)
         /\ Len(sort_od_frame_data(q, r)) = Len(q) + 1
         /\ sort_od_frame_data(q, r) # <<>>
         /\ sort_od_frame_data(q, r)[1] = IF q # <<>> /\ q[1] >= r THEN q[1] ELSE r
<1> DEFINE higher == {i \in DOMAIN q : q[i] >= r}
<1> DEFINE item(i) == IF i \in higher THEN q[i] ELSE IF i - 1 \in higher \cup {0} /\ i \notin higher
                      THEN r ELSE q[i - 1]
<1>1. Len(q) \in Nat /\ DOMAIN q = 1..Len(q)
  OBVIOUS
<1>2. \A i \in 1..Len(q) + 1 : item(i) \in Nat
  <2> TAKE i \in 1..Len(q) + 1
  <2>1. CASE i \in higher
    BY <2>1, <1>1
  <2>2. CASE i \notin higher /\ i = 1
    BY <2>2, <1>1
  <2>3. CASE i \notin higher /\ i # 1
    <3>1. i - 1 \in 1..Len(q)
      BY <2>3, <1>1
    <3> QED
      BY <2>3, <3>1, <1>1
  <2> QED
    BY <2>1, <2>2, <2>3
<1>3. sort_od_frame_data(q, r) = [i \in 1..Len(q) + 1 |-> item(i)]
  BY DEF sort_od_frame_data
<1>4. 1 \in higher <=> q # <<>> /\ q[1] >= r
  BY <1>1
<1>5. item(1) = IF q # <<>> /\ q[1] >= r THEN q[1] ELSE r
  BY <1>4
<1> HIDE DEF item
<1>6. 1 \in 1..Len(q) + 1 /\ Len(q) + 1 \in Nat
  BY <1>1
<1> DEFINE s == [i \in 1..Len(q) + 1 |-> item(i)]
<1>7. s \in Seq(Nat) /\ Len(s) = Len(q) + 1 /\ s[1] = item(1)
  BY <1>2, <1>6
<1>8. s # <<>>
  BY <1>1, <1>7
<1> QED
  BY <1>3, <1>5, <1>7, <1>8

\* update_od_frame_data
LEMMA UpdateBest ==
  ASSUME Best, NEW r \in Received, update_od_frame_data(r)
  PROVE  Best'
<1>0. r.score \in Nat /\ best' = IF r.score > best THEN r.score ELSE best
  BY DEF Received, update_od_frame_data
<1>1. CASE r.score > low_bound_motion_score
  <2> DEFINE q == IF Len(od_frames) = OD_FRAMES_MAX THEN SubSeq(od_frames, 1, OD_FRAMES_MAX - 1) ELSE od_frames
  <2>1. /\ od_frames' = sort_od_frame_data(q, r.score)
        /\ low_bound_motion_score' \in {r.score, low_bound_motion_score}
    BY <1>1 DEF update_od_frame_data, push_od_frame_data
  <2>2. /\ q \in Seq(Nat) /\ Len(q) < OD_FRAMES_MAX
        /\ (q = <<>>) = (od_frames = <<>>) /\ (q # <<>> => q[1] = od_frames[1])
    <3>1. CASE Len(od_frames) = OD_FRAMES_MAX
      <4>1. OD_FRAMES_MAX - 1 \in Nat \ {0} /\ OD_FRAMES_MAX - 1 <= Len(od_frames)
            /\ od_frames \in Seq(Nat) /\ od_frames # <<>>
        BY <3>1, SizesAssumption DEF Best
      <4>2. /\ q \in Seq(Nat) /\ Len(q) = OD_FRAMES_MAX - 1 /\ q[1] = od_frames[1]
        BY <3>1, <4>1
      <4> QED
        BY <4>1, <4>2, SizesAssumption
    <3>2. CASE Len(od_frames) # OD_FRAMES_MAX
      BY <3>2, SizesAssumption DEF Best
    <3> QED
      BY <3>1, <3>2
  <2> HIDE DEF q
  <2>3. /\ od_frames' \in Seq(Nat) /\ Len(od_frames') = Len(q) + 1 /\ od_frames' # <<>>
        /\ od_frames'[1] = IF q # <<>> /\ q[1] >= r.score THEN q[1] ELSE r.score
    BY <1>0, <2>1, <2>2, SortFirst
  <2>4. Len(od_frames') <= OD_FRAMES_MAX
    BY <2>2, <2>3, SizesAssumption
  <2>5. od_frames'[1] = best'
    BY <1>0, <2>2, <2>3 DEF Best
  <2>6. low_bound_motion_score' \in Nat /\ best' \in Nat /\ low_bound_motion_score' <= best'
    BY <1>0, <2>1 DEF Best
  <2> QED
    BY <2>3, <2>4, <2>5, <2>6 DEF Best
<1>2. CASE ~(r.score > low_bound_motion_score)
  BY <1>0, <1>2 DEF Best, update_od_frame_data
<1> QED
  BY <1>1, <1>2

LEMMA BestStep ==
  ASSUME Queue, Best, [Next]_vars
  PROVE  Best'
<1>1. CASE R_StartClip \/ R_Frame \/ R_NextSecond
  <2>1. pop_msg /\ update_od_frame_data(vai_result_recved')
    BY <1>1 DEF R_StartClip, R_Frame, R_NextSecond, get_motion_statistics_info
  <2> QED
    BY <2>1, PopType, UpdateBest
<1>2. CASE R_Submit
  <2>1. UNCHANGED od \/ reset_od_frame_data
    BY <1>2 DEF R_Submit
  <2>2. CASE UNCHANGED od
    BY <2>2 DEF Best, od
  <2>3. CASE reset_od_frame_data
    <3>1. od_frames' = <<>> /\ low_bound_motion_score' = 0 /\ best' = 0
      BY <2>3 DEF reset_od_frame_data
    <3>2. od_frames' \in Seq(Nat) /\ Len(od_frames') <= OD_FRAMES_MAX
      BY <3>1, SizesAssumption
    <3> QED
      BY <3>1, <3>2 DEF Best
  <2> QED
    BY <2>1, <2>2, <2>3
<1>3. CASE \/ Message
           \/ reload_config \/ Passes \/ R_WaitKeyFrame \/ R_LevelsFull \/ R_KeyFrame \/ R_ReadError \/ R_Finish
           \/ UNCHANGED vars
  BY <1>3 DEF Best, Message, on_message_cvr, reload_config, Passes, R_WaitKeyFrame, R_LevelsFull, R_KeyFrame, R_ReadError, R_Finish,
              vars, od
<1> QED
  BY <1>1, <1>2, <1>3 DEF Next

-----------------------------------------------------------------------------
(* The events. *)

EventTimes ==
  /\ cvr_event_seconds \in [EventTypes -> 0..MaxTime]
  /\ taken \in [EventTypes -> 0..MaxTime]
  /\ event_quiet_time \in QuietIntervals

\* Between two clips there is no event.
NoneLeft == pc \in {"waitI", "start", "written"} => cvr_event_seconds = NoEvents

\* The last event of a type is the last one a clip had.
Remembered == prev_cvr_event_seconds = taken

\* An event is not older than the second before the frame whose result brings it.
LEMMA FrameEvents ==
  ASSUME Queue, EventTimes, NEW t \in 0..MaxTime, NEW i, NEW n, NEW sum, NEW raw,
         get_motion_statistics_info(t, i, n, sum, raw)
  PROVE  /\ cvr_event_seconds' \in [EventTypes -> 0..MaxTime]
         /\ \A e \in EventTypes : cvr_event_seconds'[e] # cvr_event_seconds[e]
                                   => cvr_event_seconds'[e] >= Seconds(t) - 1
<1>1. vai_result_recved' \in Received /\ Dated(vai_result_recved')
  BY PopType DEF get_motion_statistics_info
<1> DEFINE r == vai_result_recved'
<1>2. CASE Current(r, t)
  <2>1. r.ts \in 0..MaxTime /\ r.curr_time \in 0..MaxTime /\ t - r.ts <= 2 /\ r.curr_time >= Seconds(r.ts)
    BY <1>1, <1>2 DEF Received, Current, Dated
  <2>2. r.curr_time \in 0..MaxTime /\ r.curr_time >= Seconds(t) - 1
    BY <2>1, SizesAssumption DEF Seconds
  <2>3. cvr_event_seconds' = [e \in EventTypes |-> IF e \in r.events /\ cvr_event_seconds[e] = 0
                                                   THEN r.curr_time ELSE cvr_event_seconds[e]]
    BY <1>2 DEF get_motion_statistics_info
  <2> HIDE DEF r
  <2> QED
    BY <2>2, <2>3 DEF EventTimes
<1>3. CASE ~Current(r, t)
  BY <1>3 DEF get_motion_statistics_info, EventTimes
<1> QED
  BY <1>2, <1>3

\* The event that is looked at is one at most.
LEMMA OneEvent ==
  /\ ClipEvent \subseteq EventTypes
  /\ \A d, e \in ClipEvent : d = e
BY DEF ClipEvent, EventTypes

LEMMA EventInfo ==
  ASSUME EventTimes, Remembered, cvr_get_event_info
  PROVE  EventTimes' /\ Remembered' /\ SkipsJustified' /\ cvr_event_seconds' = NoEvents
<1> DEFINE own == {e \in ClipEvent : Loud(e, event_quiet_time')}
<1>1. /\ taken' = [e \in EventTypes |-> IF e \in own THEN cvr_event_seconds[e] ELSE taken[e]]
      /\ prev_cvr_event_seconds' =
           [e \in EventTypes |-> IF e \in own THEN cvr_event_seconds[e] ELSE prev_cvr_event_seconds[e]]
      /\ skipped' = IF ClipEvent = own THEN <<>>
                     ELSE <<CHOOSE e \in ClipEvent : TRUE,
                            cvr_event_seconds[CHOOSE e \in ClipEvent : TRUE]>>
      /\ event_quiet_time' \in QuietIntervals /\ cvr_event_seconds' = NoEvents
  BY DEF cvr_get_event_info
<1>2. EventTimes'
  <2>1. 0 \in 0..MaxTime
    BY SizesAssumption
  <2> HIDE DEF own
  <2>2. cvr_event_seconds' \in [EventTypes -> 0..MaxTime]
    BY <1>1, <2>1 DEF NoEvents
  <2> QED
    BY <1>1, <2>2 DEF EventTimes
<1>3. Remembered'
  <2> HIDE DEF own
  <2> QED
    BY <1>1 DEF Remembered
<1>4. SkipsJustified'
  <2>1. CASE ClipEvent = own
    BY <1>1, <2>1 DEF SkipsJustified
  <2>2. CASE ClipEvent # own
    <3> DEFINE e == CHOOSE x \in ClipEvent : TRUE
    <3>1. e \in ClipEvent /\ e \in EventTypes /\ ~Loud(e, event_quiet_time')
      BY <2>2, OneEvent
    <3>2. skipped' = <<e, cvr_event_seconds[e]>>
      BY <1>1, <2>2
    <3> HIDE DEF e
    <3>3. taken'[e] = taken[e] /\ prev_cvr_event_seconds[e] = taken[e]
      BY <1>1, <3>1 DEF Remembered
    <3>4. /\ taken[e] \in Nat /\ cvr_event_seconds[e] \in Nat /\ event_quiet_time' \in Nat
      BY <1>1, <3>1, ResultsAssumption DEF EventTimes
    <3>5. taken[e] # 0 /\ ~(cvr_event_seconds[e] >= taken[e] + event_quiet_time')
      BY <3>1, <3>3 DEF Loud
    <3>6. taken'[e] # 0 /\ cvr_event_seconds[e] < taken'[e] + event_quiet_time'
      BY <3>3, <3>4, <3>5
    <3>7. skipped'[1] = e /\ skipped'[2] = cvr_event_seconds[e]
      BY <3>2
    <3> QED
      BY <3>6, <3>7 DEF SkipsJustified
  <2> QED
    BY <2>1, <2>2
<1> QED
  BY <1>1, <1>2, <1>3, <1>4

\* While a clip is recorded: no event is older than a second before its first frame.
OfClip ==
  pc = "record" => \A e \in EventTypes : cvr_event_seconds[e] # 0
                                           => cvr_event_seconds[e] >= Seconds(start) - 1

EventInv == EventTimes /\ NoneLeft /\ Remembered /\ OfClip /\ SkipsJustified

\* The first frame of the clip may be older than the time the clip is said to start at, never younger.
LEMMA EventsFollow ==
  ASSUME Clock, EventInv
  PROVE  EventsOfClip
<1> SUFFICES ASSUME pc = "record", NEW e \in EventTypes, cvr_event_seconds[e] # 0
             PROVE  \/ cvr_event_seconds[e] >= cvr_starttime - 1
                    \/ ReadLate /\ cvr_event_seconds[e] >= Seconds(start) - 1
  BY DEF EventsOfClip
<1>1. cvr_event_seconds[e] >= Seconds(start) - 1 /\ cvr_event_seconds[e] \in 0..MaxTime
  BY DEF EventInv, OfClip, EventTimes
<1>2. Seconds(start) \in Nat /\ cvr_starttime \in Nat /\ Seconds(start) <= cvr_starttime
  BY SizesAssumption DEF Clock, Seconds
<1> QED
  BY <1>1, <1>2, SizesAssumption DEF ReadLate

LEMMA EventStep ==
  ASSUME Clock, Queue, EventInv, [Next]_vars
  PROVE  EventInv'
<1>1. CASE R_StartClip
  <2>1. /\ pc = "start" /\ pc' = "record" /\ start' = start /\ skipped' = <<>>
        /\ UNCHANGED <<taken, prev_cvr_event_seconds, event_quiet_time>>
        /\ get_motion_statistics_info(start, 1, 0, 0, {}) /\ cvr_event_seconds = NoEvents
    BY <1>1 DEF R_StartClip, Goes, EventInv, NoneLeft, frame
  <2>2. start \in 0..MaxTime /\ Seconds(start) \in Nat
    BY SizesAssumption DEF Clock, Seconds
  <2>3. /\ cvr_event_seconds' \in [EventTypes -> 0..MaxTime]
        /\ \A e \in EventTypes : cvr_event_seconds'[e] # 0 => cvr_event_seconds'[e] >= Seconds(start) - 1
    BY <2>1, <2>2, FrameEvents DEF EventInv, NoEvents
  <2> QED
    BY <2>1, <2>3 DEF EventInv, EventTimes, NoneLeft, Remembered, OfClip, SkipsJustified
<1>2. CASE R_Frame \/ R_NextSecond
  <2>1. /\ pc = "record" /\ pc' = "record" /\ pts' \in pts + 1..now
        /\ UNCHANGED <<start, taken, prev_cvr_event_seconds, event_quiet_time, skipped>>
        /\ \E i, n, sum, raw : get_motion_statistics_info(pts', i, n, sum, raw)
    BY <1>2 DEF R_Frame, R_NextSecond, ReadsFrame, Reads, Goes, events
  <2>2. pts' \in 0..MaxTime /\ Seconds(pts') >= Seconds(start) /\ Seconds(start) \in Nat /\ Seconds(pts') \in Nat
    <3>1. pts \in Nat /\ now \in Nat /\ now <= MaxTime /\ start \in Nat /\ start <= pts
      BY SizesAssumption DEF Clock
    <3>2. pts' \in Nat /\ pts' <= MaxTime /\ start <= pts'
      BY <2>1, <3>1, SizesAssumption
    <3> QED
      BY <3>1, <3>2, SizesAssumption, SecondsGrow
  <2>3. PICK t \in 0..MaxTime : t = pts'
    BY <2>2
  <2>4. PICK i, n, sum, raw : get_motion_statistics_info(t, i, n, sum, raw)
    BY <2>1, <2>3
  <2>5. /\ cvr_event_seconds' \in [EventTypes -> 0..MaxTime]
        /\ \A e \in EventTypes : cvr_event_seconds'[e] # cvr_event_seconds[e]
                                  => cvr_event_seconds'[e] >= Seconds(t) - 1
    BY <2>4, FrameEvents DEF EventInv
  <2>6. Seconds(t) >= Seconds(start) /\ Seconds(t) \in Nat
    BY <2>2, <2>3
  <2>7. ASSUME NEW e \in EventTypes, cvr_event_seconds'[e] # 0
        PROVE  cvr_event_seconds'[e] >= Seconds(start) - 1
    <3>1. CASE cvr_event_seconds'[e] = cvr_event_seconds[e]
      BY <2>1, <2>7, <3>1 DEF EventInv, OfClip
    <3>2. CASE cvr_event_seconds'[e] # cvr_event_seconds[e]
      <4>1. cvr_event_seconds'[e] \in Nat /\ cvr_event_seconds'[e] >= Seconds(t) - 1
        BY <2>5, <3>2
      <4> QED
        BY <2>2, <2>6, <4>1
    <3> QED
      BY <3>1, <3>2
  <2> QED
    BY <2>1, <2>5, <2>7 DEF EventInv, EventTimes, NoneLeft, Remembered, OfClip, SkipsJustified
<1>3. CASE R_Finish
  <2>1. pc' = "written" /\ cvr_get_event_info
    BY <1>3 DEF R_Finish, Goes
  <2> QED
    BY <2>1, EventInfo DEF EventInv, NoneLeft, OfClip
<1>4. CASE R_WaitKeyFrame \/ R_KeyFrame \/ R_Submit
  <2>1. UNCHANGED <<cvr_event_seconds, events>> /\ pc' # "record"
        /\ (pc' \in {"waitI", "start", "written"} => pc \in {"waitI", "start", "written"})
    BY <1>4 DEF R_WaitKeyFrame, R_KeyFrame, R_Submit, Goes
  <2> QED
    BY <2>1 DEF EventInv, EventTimes, NoneLeft, Remembered, OfClip, SkipsJustified, events
<1>5. CASE \/ Message
           \/ reload_config \/ Passes \/ R_LevelsFull \/ R_ReadError \/ UNCHANGED vars
  <2>1. UNCHANGED <<start, cvr_event_seconds, events>> /\ (pc' = pc \/ pc' = "finish")
    BY <1>5 DEF Message, on_message_cvr, reload_config, Passes, R_LevelsFull, ReadsFrame, R_ReadError, Goes, vars,
                clock, frame
  <2> QED
    BY <2>1 DEF EventInv, EventTimes, NoneLeft, Remembered, OfClip, SkipsJustified, events
<1> QED
  BY <1>1, <1>2, <1>3, <1>4, <1>5 DEF Next

-----------------------------------------------------------------------------
(* The levels. *)

Tally   == [frames : Nat, level : Nat, events : SUBSET EventTypes]
Nothing == [frames |-> 0, level |-> 0, events |-> {}]

LevelOf(t) == IF t.frames = 0 THEN NoLevel ELSE calculate_motion_level(t.frames, t.level, t.events)

InSecond == [frames |-> frame_num_count, level |-> motion_level_raw_sum, events |-> event_type_raw]

\* The current second has its frames in hand and no level yet; of the seconds before it the level is
\* written, of those after it there is nothing.
Open ==
  /\ counted[motion_level_idx] = InSecond
  /\ \A i \in 1..VIDEO_DURATION_MAX + 1 : i > motion_level_idx => counted[i] = Nothing
  /\ \A i \in 1..VIDEO_DURATION_MAX :
       motion_statistics_info[i] = IF i = motion_level_idx THEN NoLevel ELSE LevelOf(counted[i])

Tallied ==
  /\ counted \in [1..VIDEO_DURATION_MAX + 1 -> Tally]
  /\ pc \in {"waitI", "start"} => counted = NoneCounted
  /\ pc \in {"record", "finish"} => Open
  /\ LevelsComplete

\* get_motion_statistics_info counts a frame to its second only.
LEMMA TallyFrame ==
  ASSUME Queue, counted \in [1..VIDEO_DURATION_MAX + 1 -> Tally],
         NEW ts, NEW i \in 1..VIDEO_DURATION_MAX + 1, NEW n, NEW sum, NEW raw,
         counted[i] = [frames |-> n, level |-> sum, events |-> raw],
         get_motion_statistics_info(ts, i, n, sum, raw)
  PROVE  /\ counted' \in [1..VIDEO_DURATION_MAX + 1 -> Tally]
         /\ counted'[i] = InSecond'
         /\ \A j \in 1..VIDEO_DURATION_MAX + 1 : j # i => counted'[j] = counted[j]
<1>1. vai_result_recved' \in Received
  BY PopType DEF get_motion_statistics_info
<1> DEFINE r == vai_result_recved'
<1>2. CASE Current(r, ts)
  <2> DEFINE t == [frames |-> n + 1, level |-> sum + r.level, events |-> raw \cup (r.events \ {"motion"})]
  <2>0. counted[i].frames = n /\ counted[i].level = sum /\ counted[i].events = raw
    OBVIOUS
  <2>1. counted' = [counted EXCEPT ![i] = t] /\ InSecond' = t
    <3>1. counted' = [counted EXCEPT ![i] =
                       [frames |-> counted[i].frames + 1, level |-> counted[i].level + r.level,
                        events |-> counted[i].events \cup (r.events \ {"motion"})]]
      BY <1>2, Zenon DEF get_motion_statistics_info
    <3>2. InSecond' = t
      BY <1>2, Zenon DEF get_motion_statistics_info, InSecond
    <3> QED
      BY <2>0, <3>1, <3>2
  <2>2. t \in Tally
    <3>1. counted[i] \in Tally
      OBVIOUS
    <3>2. n \in Nat /\ sum \in Nat /\ raw \subseteq EventTypes
      BY <3>1 DEF Tally
    <3>3. r.level \in Nat /\ r.events \subseteq EventTypes
      BY <1>1 DEF Received
    <3> QED
      BY <3>2, <3>3 DEF Tally
  <2> HIDE DEF t
  <2> QED
    BY <2>1, <2>2
<1>3. CASE ~Current(r, ts)
  BY <1>3 DEF get_motion_statistics_info, InSecond
<1> QED
  BY <1>2, <1>3

LEMMA TalliedStep ==
  ASSUME Queue, Counters, Tallied, [Next]_vars
  PROVE  Tallied'
<1> USE SizesAssumption
<1>1. CASE R_StartClip
  <2>1. /\ pc = "start" /\ pc' = "record" /\ motion_level_idx' = 1 /\ motion_statistics_info' = NoLevels
        /\ get_motion_statistics_info(start, 1, 0, 0, {}) /\ counted = NoneCounted
    BY <1>1 DEF R_StartClip, Goes, Tallied
  <2>2. 1 \in 1..VIDEO_DURATION_MAX + 1 /\ counted[1] = Nothing
    BY <2>1 DEF NoneCounted, Nothing
  <2>3. /\ counted' \in [1..VIDEO_DURATION_MAX + 1 -> Tally] /\ counted'[1] = InSecond'
        /\ \A j \in 1..VIDEO_DURATION_MAX + 1 : j # 1 => counted'[j] = Nothing
    BY <2>1, <2>2, TallyFrame DEF Tallied, Nothing, NoneCounted
  <2>4. \A i \in 1..VIDEO_DURATION_MAX : i # 1 => NoLevels[i] = LevelOf(counted'[i])
    BY <2>3 DEF NoLevels, LevelOf, Nothing
  <2> QED
    BY <2>1, <2>3, <2>4 DEF Tallied, Open, LevelsComplete, NoLevels
<1>2. CASE R_Frame
  <2>1. /\ pc = "record" /\ pc' = "record" /\ UNCHANGED <<motion_level_idx, motion_statistics_info>>
        /\ get_motion_statistics_info(pts', motion_level_idx, frame_num_count, motion_level_raw_sum,
                                      event_type_raw)
    BY <1>2 DEF R_Frame, ReadsFrame, Goes
  <2>2. PICK t : t = pts'
    OBVIOUS
  <2>3. Open /\ motion_level_idx \in 1..VIDEO_DURATION_MAX + 1 /\ counted[motion_level_idx] = InSecond
    BY <2>1 DEF Tallied, Open, Counters
  <2>4. /\ counted' \in [1..VIDEO_DURATION_MAX + 1 -> Tally] /\ counted'[motion_level_idx] = InSecond'
        /\ \A j \in 1..VIDEO_DURATION_MAX + 1 : j # motion_level_idx => counted'[j] = counted[j]
    BY <2>1, <2>2, <2>3, TallyFrame DEF Tallied, InSecond
  <2>5. Open'
    BY <2>1, <2>3, <2>4 DEF Open
  <2> QED
    BY <2>1, <2>4, <2>5 DEF Tallied, LevelsComplete
<1>3. CASE R_NextSecond
  <2>1. /\ pc = "record" /\ pc' = "record" /\ motion_level_idx <= VIDEO_DURATION_MAX
        /\ motion_level_idx' = motion_level_idx + 1
        /\ motion_statistics_info' = (IF frame_num_count > 0 THEN LevelOfSecond ELSE motion_statistics_info)
        /\ get_motion_statistics_info(pts', motion_level_idx', 0, 0, {})
    BY <1>3 DEF R_NextSecond, ReadsFrame, Goes
  <2>2. PICK t, i : t = pts' /\ i = motion_level_idx'
    OBVIOUS
  <2>3. Open /\ i \in 1..VIDEO_DURATION_MAX + 1 /\ i = motion_level_idx + 1 /\ motion_level_idx \in 1..VIDEO_DURATION_MAX
    BY <2>1, <2>2 DEF Tallied, Counters
  <2>4. counted[i] = Nothing
    BY <2>3 DEF Open
  <2>5. /\ counted' \in [1..VIDEO_DURATION_MAX + 1 -> Tally] /\ counted'[i] = InSecond'
        /\ \A j \in 1..VIDEO_DURATION_MAX + 1 : j # i => counted'[j] = counted[j]
    <3>1. get_motion_statistics_info(t, i, 0, 0, {})
      BY <2>1, <2>2
    <3>2. counted[i] = [frames |-> 0, level |-> 0, events |-> {}]
      BY <2>4 DEF Nothing
    <3> QED
      BY <2>3, <3>1, <3>2, TallyFrame DEF Tallied
  <2>6. motion_statistics_info'[motion_level_idx] = LevelOf(counted[motion_level_idx])
    BY <2>1, <2>3 DEF Open, Counters, InSecond, LevelOf, LevelOfSecond
  <2>7. \A j \in 1..VIDEO_DURATION_MAX : j # motion_level_idx => motion_statistics_info'[j] = motion_statistics_info[j]
    BY <2>1 DEF LevelOfSecond
  <2>8. i \in 1..VIDEO_DURATION_MAX => motion_statistics_info[i] = NoLevel
    BY <2>3, <2>4 DEF Open, LevelOf, Nothing
  <2>9. Open'
    BY <2>2, <2>3, <2>5, <2>6, <2>7, <2>8 DEF Open
  <2> QED
    BY <2>1, <2>5, <2>9 DEF Tallied, LevelsComplete
<1>4. CASE R_Finish
  <2>1. /\ pc = "finish" /\ pc' = "written" /\ UNCHANGED counted
        /\ motion_statistics_info' = (IF frame_num_count > 0 /\ motion_level_idx <= VIDEO_DURATION_MAX
                                        THEN LevelOfSecond ELSE motion_statistics_info)
    BY <1>4 DEF R_Finish, Goes
  <2>2. Open /\ motion_level_idx \in 1..VIDEO_DURATION_MAX + 1
    BY <2>1 DEF Tallied, Counters
  <2>3. \A j \in 1..VIDEO_DURATION_MAX : motion_statistics_info'[j] = LevelOf(counted[j])
    <3> TAKE j \in 1..VIDEO_DURATION_MAX
    <3>1. CASE j = motion_level_idx
      BY <2>1, <2>2, <3>1 DEF Open, Counters, InSecond, LevelOf, LevelOfSecond
    <3>2. CASE j # motion_level_idx
      BY <2>1, <2>2, <3>2 DEF Open, LevelOfSecond
    <3> QED
      BY <3>1, <3>2
  <2> QED
    BY <2>1, <2>3 DEF Tallied, LevelsComplete, LevelOf
<1>5. CASE R_Submit
  <2>1. pc' \in {"waitI", "start"} /\ counted' = NoneCounted
    BY <1>5 DEF R_Submit, Goes
  <2> QED
    BY <2>1 DEF Tallied, LevelsComplete, NoneCounted, Tally
<1>6. CASE R_WaitKeyFrame \/ R_KeyFrame \/ R_ReadError
  <2>1. /\ UNCHANGED <<second, levels>>
        /\ \/ pc \in {"record", "finish"} /\ pc' \in {"record", "finish"}
           \/ pc = "waitI" /\ pc' \in {"waitI", "start"}
    BY <1>6 DEF R_WaitKeyFrame, R_KeyFrame, R_ReadError, Goes
  <2> QED
    BY <2>1 DEF Tallied, Open, InSecond, LevelsComplete, second, levels
<1>7. CASE Message \/ reload_config \/ Passes \/ R_LevelsFull
           \/ UNCHANGED vars
  <2>1. UNCHANGED <<pc, second, levels>>
    BY <1>7 DEF Message, on_message_cvr, reload_config, Passes, R_LevelsFull, ReadsFrame, Goes, vars
  <2> QED
    BY <2>1 DEF Tallied, Open, InSecond, LevelsComplete, second, levels
<1> QED
  BY <1>1, <1>2, <1>3, <1>4, <1>5, <1>6, <1>7 DEF Next

-----------------------------------------------------------------------------
(* The theorems. *)

IInv == Clock /\ Queue /\ Counters /\ Best /\ EventInv /\ Tallied

LEMMA InvInit == Init => IInv
<1> SUFFICES ASSUME Init PROVE IInv
  OBVIOUS
<1>1. Clock
  BY SizesAssumption DEF Init, Clock
<1>2. NoResult \in Received
  BY SizesAssumption DEF NoResult, Received
<1>3. Queue
  <2>1. rtmessageCVRQ \in Seq(Received) /\ Len(rtmessageCVRQ) <= RT_MSG_CVR_Q_SIZE_LIMIT
    BY SizesAssumption DEF Init
  <2>2. Dated(NoResult) /\ rtmessageCVRQ = <<>>
    <3>1. NoResult.curr_time = 0 /\ NoResult.ts = 0
      BY DEF NoResult
    <3>2. Seconds(0) <= 0
      BY DEF Seconds
    <3> QED
      BY <3>1, <3>2 DEF Init, Dated
  <2>3. \A i \in DOMAIN rtmessageCVRQ : Dated(rtmessageCVRQ[i])
    BY <2>2
  <2> QED
    BY <1>2, <2>1, <2>2, <2>3 DEF Init, Queue
<1>4. Counters
  BY SizesAssumption DEF Init, Counters, NoLevels
<1>5. Best
  BY SizesAssumption DEF Init, Best
<1>6. NoEvents \in [EventTypes -> 0..MaxTime]
  BY SizesAssumption DEF NoEvents
<1>7. EventInv
  BY <1>6 DEF Init, EventInv, EventTimes, NoneLeft, Remembered, OfClip, SkipsJustified
<1>8. Tallied
  BY SizesAssumption DEF Init, Tallied, LevelsComplete, NoneCounted, Tally
<1> QED
  BY <1>1, <1>3, <1>4, <1>5, <1>7, <1>8 DEF IInv

LEMMA Invariant == Spec => []IInv
<1>1. IInv /\ [Next]_vars => IInv'
  BY ClockStep, QueueStep, CountersStep, BestStep, EventStep, TalliedStep DEF IInv
<1> QED
  BY <1>1, InvInit, PTL DEF Spec

LEMMA IInvGives == IInv => TypeOK /\ EventsOfClip /\ BestFrame /\ SkipsJustified /\ LevelsComplete
<1> SUFFICES ASSUME IInv PROVE TypeOK /\ EventsOfClip /\ BestFrame /\ SkipsJustified /\ LevelsComplete
  OBVIOUS
<1>1. TypeOK
  BY SizesAssumption DEF IInv, Clock, Queue, Counters, Best, EventInv, EventTimes, Remembered, TypeOK
<1>2. BestFrame
  BY DEF IInv, Best, BestFrame
<1>3. EventsOfClip
  BY EventsFollow DEF IInv
<1> QED
  BY <1>1, <1>2, <1>3 DEF IInv, EventInv, Tallied

\* The types; the queue of results and the frames to send stay within their limits.
THEOREM TypeCorrect == Spec => []TypeOK
BY Invariant, IInvGives, PTL

\* No event older than the clip stands in the way of one of the clip, although a result is used
\* again until there is a newer one, unless the key frame of the clip was read in a later second
\* than it was made in; then it is at most a second older than that frame
\* (get_motion_statistics_info).
THEOREM EventsAreOfTheClip == Spec => []EventsOfClip
BY Invariant, IInvGives, PTL

\* The frame with the most motion is the first of those sent with the clip (update_od_frame_data).
THEOREM BestIsFirst == Spec => []BestFrame
BY Invariant, IInvGives, PTL

\* An event is skipped only within the quiet interval after one that was reported
\* (cvr_get_event_info).
THEOREM SkipsAreJustified == Spec => []SkipsJustified
BY Invariant, IInvGives, PTL

\* The statistics of a clip have for each second the level of exactly the frames counted to it,
\* whatever the gaps between frames, the last second included (do_cvr, calculate_motion_level).
THEOREM LevelsAreComplete == Spec => []LevelsComplete
BY Invariant, IInvGives, PTL
=============================================================================
