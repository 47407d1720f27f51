------------------------------- MODULE KvsPlay -------------------------------
(***************************************************************************)
(* kvs_stream_play (kvs/clipupload/upload/kvsupload.cpp): the kvsUpload    *)
(* thread plays a clip through a GStreamer pipeline into the Kinesis       *)
(* producer SDK and waits for the acknowledgement.  Callbacks of the       *)
(* pipeline's streaming threads and of the SDK's threads share CustomData  *)
(* with it.                                                                *)
(*                                                                         *)
(* The daemon sends no live and no absolute-time clips (cvr_daemon.cpp     *)
(* fixes both flags to 0), so neither mode is here: every clip has its own *)
(* pipeline and waits for its acknowledgement.                             *)
(***************************************************************************)
EXTENDS Naturals, FiniteSets

CONSTANT MaxClips   \* bound: clips played

ASSUME MaxClipsAssumption == MaxClips \in Nat

VARIABLES
  pc,                   \* kvsUpload thread, in kvs_stream_play
  clip,                 \* number of the clip it plays or played last
  oks,                  \* clips for which it returned 0
  audio,                \* data.gkvsclip_audio
  mainloop_running,     \* data.mainloop_running, meant to say that the loop runs
  is_running,           \* the GMainLoop really runs
  connection_error,     \* data.connection_error, under custom_data_mtx
  clip_upload_status_,  \* an acknowledgement has come, under clip_upload_mutex_
  eos_triggered,        \* one of two tracks has ended
  put_frame_flushed,    \* frames held back for the other track were flushed
  track,                \* streaming thread of each track
  bus_eos,              \* an EOS message waits on the bus for the main loop
  early,                \* ghost: a callback wanted to quit before the loop ran
  hpc,                  \* SDK thread in a stale or error handler
  sent,                 \* clips whose fragment was ended, and may be acknowledged
  acked                 \* clips the SDK has reported as PERSISTED

player == <<pc, clip, oks, audio>>
loop   == <<mainloop_running, is_running>>
eos    == <<eos_triggered, put_frame_flushed>>
gst    == <<track, bus_eos, early>>
sdk    == <<hpc, sent, acked>>
vars   == <<player, loop, connection_error, clip_upload_status_, eos, gst, sdk>>

Tracks == {"video", "audio"}
Active == IF audio THEN Tracks ELSE {"video"}
Clips  == 1..MaxClips

Init ==
  /\ pc = "idle" /\ clip = 0 /\ oks = {} /\ audio \in BOOLEAN
  /\ mainloop_running = FALSE /\ is_running = FALSE
  /\ connection_error = FALSE /\ clip_upload_status_ = FALSE
  /\ eos_triggered = FALSE /\ put_frame_flushed = FALSE
  /\ track = [t \in Tracks |-> "off"] /\ bus_eos = FALSE /\ early = FALSE
  /\ hpc = "idle" /\ sent = {} /\ acked = {}

-----------------------------------------------------------------------------
\* if( mainloop_running ) { mainloop_running = false; g_main_loop_quit(); } --
\* which does nothing to a loop that does not run yet.
QuitMainLoop ==
  /\ IF mainloop_running
       THEN mainloop_running' = FALSE /\ is_running' = FALSE
       ELSE UNCHANGED loop
  /\ early' = (early \/ pc # "looping")

-----------------------------------------------------------------------------
(* The kvsUpload thread. *)

\* kinesis_video_stream_uninit flushes frames still held back, if there is sound
\* and frames were ever held back.
FlushedByUninit(sound) ==
  put_frame_flushed' \in IF sound THEN {put_frame_flushed, TRUE} ELSE {put_frame_flushed}

\* The clip has sound and the one before had none, or the reverse: it returns 1,
\* and kvs_stream_init recreates the stream.  Nothing is acknowledged any more.
P_ContentChange ==
  /\ pc = "idle" /\ clip < MaxClips
  /\ audio' = ~audio /\ connection_error' = FALSE /\ sent' = acked
  /\ FlushedByUninit(audio')
  /\ UNCHANGED <<pc, clip, oks, loop, clip_upload_status_, eos_triggered, gst, hpc, acked>>

\* A new pipeline; without one (a return of 3) the same clip is tried again.
NewPipeline ==
  /\ eos_triggered' = IF audio THEN FALSE ELSE eos_triggered
  /\ put_frame_flushed' = FALSE

\* It starts playing: its streaming threads run from here.
P_Start ==
  /\ pc = "idle" /\ clip < MaxClips
  /\ clip' = clip + 1 /\ pc' = "start"
  /\ NewPipeline
  /\ track' = [t \in Tracks |-> IF t \in Active THEN "flow" ELSE "off"]
  /\ bus_eos' = FALSE /\ early' = FALSE
  /\ UNCHANGED <<oks, audio, loop, connection_error, clip_upload_status_, sdk>>

\* It does not start: -1, and the stream is left alone.
P_StartFails ==
  /\ pc = "idle" /\ clip < MaxClips
  /\ clip' = clip + 1
  /\ NewPipeline
  /\ UNCHANGED <<pc, oks, audio, loop, connection_error, clip_upload_status_, gst, sdk>>

\* A new main loop; mainloop_running = true, without the mutex ...
P_Flag ==
  /\ pc = "start"
  /\ mainloop_running' = TRUE /\ pc' = "flagged"
  /\ UNCHANGED <<clip, oks, audio, is_running, connection_error, clip_upload_status_, eos, gst, sdk>>

\* ... and g_main_loop_run.
P_Run ==
  /\ pc = "flagged"
  /\ is_running' = TRUE /\ pc' = "looping"
  /\ UNCHANGED <<clip, oks, audio, mainloop_running, connection_error, clip_upload_status_, eos, gst, sdk>>

\* It returns: video_pipeline_uninit waits for the streaming threads and ends them.
P_LoopEnd ==
  /\ pc = "looping" /\ ~is_running
  /\ \A t \in Tracks : track[t] # "eos"
  /\ track' = [t \in Tracks |-> "off"] /\ bus_eos' = FALSE
  /\ pc' = "ackwait"
  /\ UNCHANGED <<clip, oks, audio, loop, connection_error, clip_upload_status_, eos, early, sdk>>

\* ... keeps the status.
P_AckOk_Keeps ==
  /\ pc = "ackwait" /\ clip_upload_status_
  /\ connection_error' = FALSE /\ pc' = "decide"
  /\ UNCHANGED <<clip, oks, audio, loop, clip_upload_status_, eos, gst, sdk>>

\* The acknowledgement is there: it overrides any error seen so far.
P_AckOk ==
  /\ pc = "ackwait" /\ clip_upload_status_
  /\ clip_upload_status_' = FALSE
  /\ connection_error' = FALSE /\ pc' = "decide"
  /\ UNCHANGED <<clip, oks, audio, loop, eos, gst, sdk>>

\* It did not come in time.
P_AckTimeout ==
  /\ pc = "ackwait" /\ ~clip_upload_status_
  /\ connection_error' = TRUE /\ pc' = "decide"
  /\ UNCHANGED <<clip, oks, audio, loop, clip_upload_status_, eos, gst, sdk>>

P_Success ==
  /\ pc = "decide" /\ ~connection_error
  /\ oks' = oks \cup {clip} /\ pc' = "idle"
  /\ UNCHANGED <<clip, audio, loop, connection_error, clip_upload_status_, eos, gst, sdk>>

\* ... forgets which of the stream's clips were acknowledged.
P_Reset_All ==
  /\ pc = "decide" /\ connection_error
  /\ connection_error' = FALSE /\ sent' = {} /\ pc' = "idle"
  /\ FlushedByUninit(audio)
  /\ UNCHANGED <<clip, oks, audio, loop, clip_upload_status_, eos_triggered, gst, hpc, acked>>

\* reset_stream, or recreate_stream if that fails: -1.  The stream starts anew,
\* the acknowledgement status stays.  (recreate_stream may also end the process.)
P_Reset ==
  /\ pc = "decide" /\ connection_error
  /\ connection_error' = FALSE /\ sent' = acked /\ pc' = "idle"
  /\ FlushedByUninit(audio)
  /\ UNCHANGED <<clip, oks, audio, loop, clip_upload_status_, eos_triggered, gst, hpc, acked>>

Player == \/ P_ContentChange \/ P_Start \/ P_StartFails \/ P_Flag \/ P_Run \/ P_LoopEnd
          \/ P_AckOk \/ P_AckTimeout \/ P_Success \/ P_Reset

-----------------------------------------------------------------------------
(* The streaming threads and the bus. *)

\* on_new_sample, on_new_sample_av: the stream does not start, a frame is refused,
\* or the tracks drift apart.
T_Fail(t) ==
  /\ track[t] = "flow"
  /\ connection_error' = TRUE
  /\ QuitMainLoop
  /\ track' = [track EXCEPT ![t] = "dead"]
  /\ UNCHANGED <<player, clip_upload_status_, eos, bus_eos, sdk>>

\* on_new_sample_av after a frame was refused, and an error of the pipeline
\* itself: error_cb and error_cb_av log it.
T_Error(t) ==
  /\ track[t] = "flow"
  /\ track' = [track EXCEPT ![t] = "mute"]
  /\ UNCHANGED <<player, loop, connection_error, clip_upload_status_, eos, bus_eos, early, sdk>>

\* End of a video-only file (or on_new_sample after an error, which drops the
\* frames): a message to the main loop.
T_BusEos ==
  /\ ~audio /\ track["video"] = "flow"
  /\ track' = [track EXCEPT !["video"] = "over"] /\ bus_eos' = TRUE
  /\ UNCHANGED <<player, loop, connection_error, clip_upload_status_, eos, early, sdk>>

\* ... ends the fragment and forgets the loop.
CbMessage_NoQuit ==
  /\ pc = "looping" /\ is_running /\ bus_eos
  /\ bus_eos' = FALSE
  /\ sent' = sent \cup {clip}
  /\ UNCHANGED <<player, loop, early, connection_error, clip_upload_status_, eos, track, hpc, acked>>

\* cb_message, called by the main loop: the fragment ends and the loop too.
CbMessage ==
  /\ pc = "looping" /\ is_running /\ bus_eos
  /\ bus_eos' = FALSE
  /\ sent' = sent \cup {clip}
  /\ QuitMainLoop
  /\ UNCHANGED <<player, connection_error, clip_upload_status_, eos, track, hpc, acked>>

\* End of a track of a file with sound.  eos_cb_av of the first one finds
\* eos_triggered unset ...
T_FirstEos(t) ==
  /\ audio /\ track[t] = "flow" /\ ~eos_triggered
  /\ track' = [track EXCEPT ![t] = "eos"]
  /\ UNCHANGED <<player, loop, connection_error, clip_upload_status_, eos, bus_eos, early, sdk>>

\* ... and sets it, which is another access.
T_MarkEos(t) ==
  /\ track[t] = "eos"
  /\ eos_triggered' = TRUE
  /\ track' = [track EXCEPT ![t] = "over"]
  /\ UNCHANGED <<player, loop, connection_error, clip_upload_status_, put_frame_flushed, bus_eos, early, sdk>>

\* That of the second one flushes, ends the fragment and the loop.
T_SecondEos(t) ==
  /\ audio /\ track[t] = "flow" /\ eos_triggered
  /\ sent' = sent \cup {clip} /\ put_frame_flushed' = TRUE
  /\ QuitMainLoop
  /\ track' = [track EXCEPT ![t] = "over"]
  /\ UNCHANGED <<player, connection_error, clip_upload_status_, eos_triggered, bus_eos, hpc, acked>>

Streaming == \/ \E t \in Tracks : T_Fail(t) \/ T_Error(t) \/ T_FirstEos(t) \/ T_MarkEos(t)
                                  \/ T_SecondEos(t)
             \/ T_BusEos \/ CbMessage

-----------------------------------------------------------------------------
(* The SDK's threads. *)

\* streamConnectionStaleHandler, streamErrorReportHandler: mainloop_running is
\* read before the mutex is taken ...
H_Check ==
  /\ hpc = "idle" /\ mainloop_running
  /\ hpc' = "act"
  /\ UNCHANGED <<player, loop, connection_error, clip_upload_status_, eos, gst, sent, acked>>

\* ... and what was decided is done to whatever loop there is then.
H_Act ==
  /\ hpc = "act"
  /\ connection_error' = TRUE
  /\ mainloop_running' = FALSE /\ is_running' = FALSE
  /\ early' = (early \/ pc # "looping")
  /\ hpc' = "idle"
  /\ UNCHANGED <<player, clip_upload_status_, eos, track, bus_eos, sent, acked>>

\* FragmentAckReceivedHandler: a PERSISTED ack of a clip, ignored while another
\* one has not been used.
H_Ack ==
  /\ \E c \in sent \ acked : acked' = acked \cup {c}
  /\ clip_upload_status_' = TRUE
  /\ UNCHANGED <<player, loop, connection_error, eos, gst, hpc, sent>>

SDK == H_Check \/ H_Act \/ H_Ack

Next == Player \/ Streaming \/ SDK

Spec == Init /\ [][Next]_vars

\* The thread and the handlers run; every file ends, and the SDK takes its frames.
FairSpec == Spec /\ WF_vars(Player) /\ WF_vars(Streaming) /\ WF_vars(H_Act)

-----------------------------------------------------------------------------
(* Type invariant; only clips that were sent are acknowledged. *)
TypeOK ==
  /\ pc \in {"idle", "start", "flagged", "looping", "ackwait", "decide"}
  /\ clip \in 0..MaxClips /\ oks \subseteq Clips /\ audio \in BOOLEAN
  /\ mainloop_running \in BOOLEAN /\ is_running \in BOOLEAN
  /\ connection_error \in BOOLEAN /\ clip_upload_status_ \in BOOLEAN
  /\ eos_triggered \in BOOLEAN /\ put_frame_flushed \in BOOLEAN
  /\ track \in [Tracks -> {"off", "flow", "eos", "over", "dead", "mute"}]
  /\ bus_eos \in BOOLEAN /\ early \in BOOLEAN
  /\ hpc \in {"idle", "act"} /\ sent \subseteq Clips /\ acked \subseteq sent

-----------------------------------------------------------------------------
(* Properties. *)

\* kvs_stream_play reports no more clips as uploaded than the cloud has
\* acknowledged: an acknowledgement is used once, by whichever clip waits.
SuccessesAcked == Cardinality(oks) <= Cardinality(acked)

\* The loop can run for ever only in one of these ways: a callback wanted to quit
\* before it ran; an error the callbacks only log ended a track; both tracks
\* ended at once and each took itself for the first.
Deaf == is_running /\ \/ early
                      \/ \E t \in Active : track[t] = "mute"
                      \/ audio /\ ~put_frame_flushed /\ \A t \in Tracks : track[t] = "over"

\* Otherwise the main loop of every clip ends: at the end of the file, at a
\* refused frame, or when the SDK reports an error (the thread has no timeout here).
LoopEnds == pc = "looping" ~> (pc # "looping" \/ Deaf)

\* "Indicating that the clip uploaded" (kvsupload.cpp:209): clip_upload_status_
\* is about the clip being played, so a clip reported as uploaded was acknowledged.
AckOfOwnClip == oks \subseteq acked

\* "Media pipeline for one track has ended. Next time eos_cb_av is called means
\* the entire file has been received." (kvsupload.cpp:1503): when both tracks
\* have ended, the second call has flushed the frames and ended the fragment.
LastEosFlushes ==
  audio /\ (\A t \in Tracks : track[t] = "over") => put_frame_flushed

=============================================================================
