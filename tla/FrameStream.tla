----------------------------- MODULE FrameStream -----------------------------
(***************************************************************************)
(* kvs/frameupload/upload/kvsupload.cpp: frames put one by one into a      *)
(* Kinesis stream, where the first frame of a clip opens a fragment and    *)
(* the acknowledgement of that fragment is the news that the clip is       *)
(* stored.  Callbacks of the SDK come from its own threads at any time.    *)
(*                                                                         *)
(* A frame is its timestamp and whether it is an I frame.  Time is counted *)
(* in clips: a clip has passed when its end is pushed.                     *)
(***************************************************************************)
EXTENDS Integers, FiniteSets

CONSTANTS
  CVR_THRESHHOLD_COUNT,     \* clips remembered until their acknowledgement
  CVR_THRESHHOLD_CLIPS,     \* CVR_THRESHHOLD_COUNT_IN_MILLISECONDS, in clips
  CVR_THRESHHOLD_FRAMEDROP, \* frames refused in a row before the stream is reset
  USE_EPOCH                 \* the environment variable: timecodes are the wall clock's

ASSUME StreamAssumption == /\ CVR_THRESHHOLD_COUNT \in Nat \ {0} /\ CVR_THRESHHOLD_CLIPS \in Nat
                           /\ CVR_THRESHHOLD_FRAMEDROP \in Nat /\ USE_EPOCH \in BOOLEAN

VARIABLES
  kinesis_video_stream,   \* there is a stream
  stream_started,
  isstreamerror_reported, \* set by the SDK's thread
  frame_dropped_count, frame_dropped_flag,
  first_frame,            \* the next frame opens a clip
  clipmapwithtimecode,    \* clips not acknowledged yet, by timecode
  clipmapwithrealtime,    \* the same clips by name
  unacked,                \* clip_senttokvssdk_time - lastclippersisted_time
  persisted,              \* lastclippersisted_time was ever set
  fragments,              \* SDK: fragments opened and not acknowledged, and by whose frame
  opener,                 \* ghost: the clip whose frame opened the latest fragment
  mixed,                  \* ghost: a frame went into the fragment of another clip
  trouble                 \* ghost: a stream, a frame or a read has failed

handle  == <<kinesis_video_stream, stream_started>>
drops   == <<frame_dropped_count, frame_dropped_flag>>
clips   == <<first_frame, clipmapwithtimecode, clipmapwithrealtime>>
times   == <<unacked, persisted>>
sdk     == <<fragments, opener, mixed>>
svars   == <<handle, isstreamerror_reported, drops, clips, times, sdk, trouble>>

NoClip == 0
LongAgo == CVR_THRESHHOLD_CLIPS + 1   \* sent a while ago, never persisted: longer than the threshold

StreamTypeOK ==
  /\ kinesis_video_stream \in BOOLEAN /\ stream_started \in BOOLEAN
  /\ isstreamerror_reported \in BOOLEAN
  /\ frame_dropped_count \in 0..CVR_THRESHHOLD_FRAMEDROP + 1 /\ frame_dropped_flag \in BOOLEAN
  /\ first_frame \in BOOLEAN
  /\ clipmapwithtimecode \subseteq [at : Nat, clip : Nat]
  /\ Cardinality(clipmapwithtimecode) <= CVR_THRESHHOLD_COUNT
  /\ Cardinality(clipmapwithrealtime) <= CVR_THRESHHOLD_COUNT
  /\ unacked \in 0..LongAgo + 1 /\ persisted \in BOOLEAN
  /\ fragments \subseteq [at : Nat, clip : Nat]
  /\ mixed \in BOOLEAN /\ trouble \in BOOLEAN

StreamInit ==
  /\ kinesis_video_stream = FALSE /\ stream_started = FALSE
  /\ isstreamerror_reported = FALSE /\ frame_dropped_count = 0 /\ frame_dropped_flag = FALSE
  /\ first_frame = TRUE /\ clipmapwithtimecode = {} /\ clipmapwithrealtime = {}
  /\ unacked = 0 /\ persisted = FALSE
  /\ fragments = {} /\ opener = NoClip /\ mixed = FALSE /\ trouble = FALSE

-----------------------------------------------------------------------------
(* The stream.  The loops of retries are one step: nothing they do between  *)
(* two tries can be seen by a callback.                                     *)

\* kinesisVideoInit makes the client or throws.  Where the environment has no credentials it
\* copies the name of the stream from a pointer nobody set: that may end the process.
kinesisVideoInit == {"ready", "thrown", "crashed"}

\* kvsInit: what is thrown is a status.
kvsInit(outcome) == IF outcome = "ready" THEN 0 ELSE -1

\* lastclippersisted_time = now
PersistedNow == unacked' = 0 /\ persisted' = TRUE

\* createStreamSync gives a stream or throws, and the old handle stays.
kinesisVideoStreamInit(ok, old) == kinesis_video_stream' = (old \/ ok)

\* A stream that is there is stopped and freed.
kinesisVideoStreamUninit == stream_started' = (stream_started /\ ~kinesis_video_stream)

\* ... without the time: the silence of the old stream counts against the new one.
recreate_stream_KeepTime(ok) ==
  /\ kinesisVideoStreamUninit /\ kinesisVideoStreamInit(ok, FALSE)
  /\ UNCHANGED times

\* The stream is freed and created again, KVSINITMAXRETRY times at most.
recreate_stream(ok) ==
  /\ kinesisVideoStreamUninit /\ kinesisVideoStreamInit(ok, FALSE)
  /\ IF ok THEN PersistedNow ELSE UNCHANGED times

\* A first creation that fails goes on as a recreation.
kvsStreamInit(contentchangestatus, ok) ==
  \/ /\ contentchangestatus = 0 /\ ok
     /\ kinesisVideoStreamInit(ok, kinesis_video_stream) /\ UNCHANGED <<stream_started, times>>
  \/ recreate_stream(ok)

\* resetStream() fails or works in the end; the handle stays.
reset_stream(ok) == IF ok THEN PersistedNow ELSE UNCHANGED times

-----------------------------------------------------------------------------
(* kvsUploadFrames(f, clip, isEOF), and the status it returns. *)

\* ... empties the maps one clip too late.
Remember_TooLate(at, clip) ==
  LET old   == IF Cardinality(clipmapwithtimecode) > CVR_THRESHHOLD_COUNT THEN {} ELSE clipmapwithtimecode
      names == IF Cardinality(clipmapwithrealtime) > CVR_THRESHHOLD_COUNT THEN {} ELSE clipmapwithrealtime
  IN  /\ clipmapwithtimecode' = IF \E e \in old : e.at = at THEN old ELSE old \cup {[at |-> at, clip |-> clip]}
      /\ clipmapwithrealtime' = names \cup {clip}

\* What the two maps hold once clip is known by timecode at: a full map is emptied first.
Remember(at, clip) ==
  LET old   == IF Cardinality(clipmapwithtimecode) = CVR_THRESHHOLD_COUNT THEN {} ELSE clipmapwithtimecode
      names == IF Cardinality(clipmapwithrealtime) = CVR_THRESHHOLD_COUNT THEN {} ELSE clipmapwithrealtime
  IN  /\ clipmapwithtimecode' = IF \E e \in old : e.at = at THEN old ELSE old \cup {[at |-> at, clip |-> clip]}
      /\ clipmapwithrealtime' = names \cup {clip}

\* ... does not leave the first frame of the clip behind.
OpenClip_KeepFirst(at, clip, isEOF) ==
  IF first_frame THEN Remember(at, clip) /\ UNCHANGED first_frame
                 ELSE first_frame' = isEOF /\ UNCHANGED <<clipmapwithtimecode, clipmapwithrealtime>>

\* ... takes the end of a clip for one more frame of it.
OpenClip_NoEnd(at, clip, isEOF) ==
  IF first_frame THEN Remember(at, clip) /\ first_frame' = FALSE
                 ELSE UNCHANGED <<first_frame, clipmapwithtimecode, clipmapwithrealtime>>

\* The first frame of a clip registers it; the end of the clip makes the next frame a first one.
OpenClip(at, clip, isEOF) ==
  IF first_frame THEN Remember(at, clip) /\ first_frame' = FALSE
                 ELSE first_frame' = isEOF /\ UNCHANGED <<clipmapwithtimecode, clipmapwithrealtime>>

\* put_frame: only a first frame that is an I frame opens a fragment.
put_frame(f, clip, ok) ==
  IF ok /\ first_frame /\ f.key
  THEN fragments' = fragments \cup {[at |-> f.at, clip |-> clip]} /\ opener' = clip /\ UNCHANGED mixed
  ELSE mixed' = (mixed \/ (ok /\ opener # clip)) /\ UNCHANGED <<fragments, opener>>

\* An error was reported, or the reset after too many refused frames failed.
Upload_Fail(reset) ==
  /\ IF isstreamerror_reported
     THEN isstreamerror_reported' = FALSE /\ UNCHANGED drops
     ELSE /\ frame_dropped_flag /\ ~reset
          /\ frame_dropped_flag' = FALSE /\ frame_dropped_count' = 0
          /\ UNCHANGED isstreamerror_reported
  /\ trouble' = TRUE /\ UNCHANGED <<handle, clips, times, sdk>>

\* The frame is put, after a reset when too many were refused.
Upload_Frame(f, clip, put) ==
  LET count == IF put THEN 0 ELSE (IF frame_dropped_flag THEN 0 ELSE frame_dropped_count) + 1
  IN  /\ ~isstreamerror_reported
      /\ IF frame_dropped_flag THEN reset_stream(TRUE) ELSE UNCHANGED times
      /\ stream_started' = TRUE
      /\ OpenClip(f.at, clip, FALSE)
      /\ put_frame(f, clip, put)
      /\ frame_dropped_count' = count
      /\ frame_dropped_flag' = (count > CVR_THRESHHOLD_FRAMEDROP)
      /\ trouble' = (trouble \/ ~put)
      /\ UNCHANGED <<kinesis_video_stream, isstreamerror_reported>>

\* The clip before was sent too long after the last acknowledgement.  Before the first
\* acknowledgement that is a time since 1970.
Silent == unacked > CVR_THRESHHOLD_CLIPS

\* The end of the clip is not put into the stream: it resets a stream that is silent, and
\* takes the time.  A clip whose frames were all turned away is registered here, by a
\* timecode nobody set when USE_EPOCH.
Upload_End(f, clip, reset) ==
  /\ OpenClip(IF USE_EPOCH THEN 0 ELSE f.at, clip, TRUE)
  /\ IF Silent /\ reset THEN PersistedNow
     ELSE /\ unacked' = IF ~persisted /\ unacked = 0 THEN LongAgo ELSE unacked + 1
          /\ UNCHANGED persisted
  /\ frame_dropped_flag' = (frame_dropped_flag \/ frame_dropped_count > CVR_THRESHHOLD_FRAMEDROP)
  /\ trouble' = (trouble \/ (Silent /\ ~reset))
  /\ UNCHANGED <<handle, isstreamerror_reported, frame_dropped_count, sdk>>

kvsUploadFrames(f, clip, isEOF, ret) ==
  \/ ~isEOF /\ ret = 1 /\ Upload_Fail(FALSE)
  \/ ~isEOF /\ ret \in {-1, 0} /\ Upload_Frame(f, clip, ret = 0)
  \/ isEOF /\ ret = 0 /\ Upload_End(f, clip, TRUE)
  \/ isEOF /\ ret = 1 /\ Silent /\ Upload_End(f, clip, FALSE)

-----------------------------------------------------------------------------
(* Callbacks of the SDK. *)

\* streamErrorReportHandler
streamErrorReportHandler ==
  /\ kinesis_video_stream /\ isstreamerror_reported' = TRUE
  /\ UNCHANGED <<handle, drops, clips, times, sdk, trouble>>

\* FragmentAckReceivedHandler, PERSISTED: the clip is reported and forgotten, and so are the
\* clips before it, which nobody hears of.
FragmentPersisted(f) ==
  /\ f \in fragments /\ fragments' = fragments \ {f}
  /\ PersistedNow
  /\ IF \E e \in clipmapwithtimecode : e.at = f.at
     THEN LET clip == (CHOOSE e \in clipmapwithtimecode : e.at = f.at).clip
          IN  /\ clipmapwithtimecode' = {e \in clipmapwithtimecode : e.at > f.at}
              /\ clipmapwithrealtime' = IF clip \in clipmapwithrealtime
                                        THEN {n \in clipmapwithrealtime : n > clip} ELSE clipmapwithrealtime
     ELSE UNCHANGED <<clipmapwithtimecode, clipmapwithrealtime>>
  /\ UNCHANGED <<handle, isstreamerror_reported, drops, first_frame, opener, mixed, trouble>>

\* ... ERROR: only this clip.
FragmentError(f) ==
  /\ f \in fragments /\ fragments' = fragments \ {f}
  /\ clipmapwithtimecode' = {e \in clipmapwithtimecode : e.at # f.at}
  /\ clipmapwithrealtime' = clipmapwithrealtime \
                            {e.clip : e \in {x \in clipmapwithtimecode : x.at = f.at}}
  /\ UNCHANGED <<handle, isstreamerror_reported, drops, first_frame, times, opener, mixed, trouble>>
=============================================================================
