----------------------------- MODULE FrameUpload -----------------------------
(***************************************************************************)
(* The daemon of kvs/frameupload: CVR::do_cvr reads the camera and puts    *)
(* every frame into the Kinesis stream itself (FrameStream).  The Makefile *)
(* builds it from core/osi_cvr_daemon.cpp or from core/cvr_daemon.cpp,     *)
(* the older core, which reads sound from a session of its own and goes on *)
(* where the other one gives up.                                           *)
(*                                                                         *)
(* A clip is named by the I frame it starts with.  The duration of a clip  *)
(* may be over at any time and stays so until a new I frame is kept.       *)
(***************************************************************************)
EXTENDS FrameStream

CONSTANTS
  KVSINITMAXRETRY,
  MaxFrames,    \* bound: frames the camera delivers
  MaxChanges    \* bound: changes of the configuration and of the audio setting

ASSUME UploadAssumption == KVSINITMAXRETRY \in Nat /\ MaxFrames \in Nat /\ MaxChanges \in Nat

VARIABLES
  core,                 \* the core the daemon is built from
  pc,                   \* where cvr_init or do_cvr is
  retry,                \* failures of kvsInit
  term_flag, reload_cvr_flag,
  enabled,              \* external: CVR is enabled in the configuration file
  iscvrenabled,         \* what was read from it
  rfc,                  \* external: the audio setting
  changes,              \* bound: how often the two have changed
  kvsclip_audio,        \* the setting as last seen
  lenableaudio,         \* the setting the stream was created for
  audio,                \* the older core's session for the sound is open
  init_flag, local_stream_err, has_an_iframe,
  key, file_name,       \* the I frame kept, and the name of the clip
  frame,                \* timestamp of cvr_frame: frames are numbered as they are read
  over,                 \* file_len has passed since start_msec
  pushframestatus, iskvsStreamInitDone

signals == <<term_flag, reload_cvr_flag>>
file    == <<enabled, rfc, changes>>
config  == <<iscvrenabled, kvsclip_audio, lenableaudio, audio>>
session == <<init_flag, local_stream_err>>
held    == <<has_an_iframe, key, over>>
status  == <<pushframestatus, iskvsStreamInitDone>>
rvars   == <<core, retry, signals, file, config, session, held, file_name, frame, status>>
vars    == <<svars, pc, rvars>>

TypeOK ==
  /\ StreamTypeOK
  /\ core \in {"osi", "older"} /\ retry \in 0..KVSINITMAXRETRY + 1
  /\ pc \in {"init", "stream", "top", "clear_top", "head", "open", "wait", "begin", "error", "start",
             "rec", "clear_rec", "read", "sound", "lowmem", "search", "seek", "seek_sound", "drain", "finish",
             "close", "done"}
  /\ \A b \in {term_flag, reload_cvr_flag, enabled, iscvrenabled, rfc, kvsclip_audio, lenableaudio,
               audio, init_flag, local_stream_err, has_an_iframe, over, iskvsStreamInitDone} : b \in BOOLEAN
  /\ frame \in 0..MaxFrames /\ key \in 0..MaxFrames /\ file_name \in 0..MaxFrames
  /\ pushframestatus \in {-1, 0, 1}

Init ==
  /\ StreamInit
  /\ core \in {"osi", "older"} /\ pc = "init" /\ retry = 0
  /\ term_flag = FALSE /\ reload_cvr_flag = FALSE
  /\ enabled = TRUE /\ rfc = FALSE /\ changes = 0
  /\ iscvrenabled = TRUE /\ kvsclip_audio = rfc /\ lenableaudio = kvsclip_audio /\ audio = FALSE
  /\ init_flag = FALSE /\ local_stream_err = FALSE
  /\ has_an_iframe = FALSE /\ key = 0 /\ over = FALSE /\ file_name = 0 /\ frame = 0
  /\ pushframestatus = 0 /\ iskvsStreamInitDone = FALSE

-----------------------------------------------------------------------------
(* Frames read and pushed. *)

Osi   == core = "osi"
Older == core = "older"

Goto(next) == pc' = next

IFrame(at) == [at |-> at, key |-> TRUE]
PFrame(at) == [at |-> at, key |-> FALSE]   \* or one of sound

\* The camera delivers its next frame.
ReadFrame == frame < MaxFrames /\ frame' = frame + 1

\* The frame just read starts the next clip: start_t, start_msec, cvr_key_frame.
Keep == has_an_iframe' = TRUE /\ key' = frame' /\ over' = FALSE

\* pushFrames: the status 1 says that the stream has to be created again.
pushFrames(f, clip, isEOF) ==
  \E ret \in {-1, 0, 1} : /\ kvsUploadFrames(f, clip, isEOF, ret)
                          /\ pushframestatus' = ret
                          /\ iskvsStreamInitDone' = (iskvsStreamInitDone /\ ret # 1)

\* createkvsstream(..., recreateflag) once kvsInit has worked: no stream, no daemon.
createkvsstream(recreateflag, next) ==
  \E ok \in BOOLEAN : /\ kvsStreamInit(recreateflag, ok)
                      /\ iskvsStreamInitDone' = ok
                      /\ Goto(IF ok THEN next ELSE "close")
                      /\ UNCHANGED <<isstreamerror_reported, drops, clips, sdk, trouble>>

-----------------------------------------------------------------------------
(* cvr_init *)

\* kvsInit, in the loop of createkvsstream.  Once it worked nobody looks at retry again.
R_KvsInit ==
  /\ pc = "init"
  /\ \E outcome \in kinesisVideoInit :
       \/ outcome = "crashed" /\ Goto("done") /\ UNCHANGED retry
       \/ outcome # "crashed" /\ kvsInit(outcome) = 0 /\ Goto("stream") /\ retry' = 0
       \/ /\ outcome # "crashed" /\ kvsInit(outcome) # 0
          /\ retry' = retry + 1 /\ Goto(IF retry' > KVSINITMAXRETRY THEN "close" ELSE "init")
  /\ UNCHANGED <<svars, core, signals, file, config, session, held, file_name, frame, status>>

\* The configuration is read, then the stream is created.
R_Init ==
  /\ pc = "stream"
  /\ iscvrenabled' = enabled
  /\ createkvsstream(0, "top")
  /\ UNCHANGED <<core, retry, signals, file, kvsclip_audio, lenableaudio, audio, session, held,
                 file_name, frame, pushframestatus>>

-----------------------------------------------------------------------------
(* The head of the main loop. *)

\* if (reload_cvr_flag) cvr_read_config: a configuration that cannot be read changes nothing.
R_Reload ==
  /\ \/ pc = "top" /\ ~term_flag /\ reload_cvr_flag /\ Goto("clear_top")
     \/ pc = "rec" /\ ~over /\ ~term_flag /\ reload_cvr_flag /\ Goto("clear_rec")
  /\ iscvrenabled' \in {enabled, iscvrenabled}
  /\ UNCHANGED <<svars, core, retry, signals, file, kvsclip_audio, lenableaudio, audio, session, held,
                 file_name, frame, status>>

\* reload_cvr_flag = 0, whatever came since the configuration was read.
R_ClearReload ==
  /\ \/ pc = "clear_top" /\ Goto("head")
     \/ pc = "clear_rec" /\ Goto("read")
  /\ reload_cvr_flag' = FALSE
  /\ UNCHANGED <<svars, core, retry, term_flag, file, config, session, held, file_name, frame, status>>

\* SIGTERM ends the main loop.
R_Top ==
  /\ pc = "top" /\ term_flag /\ Goto("close")
  /\ UNCHANGED <<svars, rvars>>

\* The older core opens a session for the sound, if it can.  The other core reads the sound from
\* the session of the video: what its function of this name opens takes the place of that one.
cvr_init_audio_stream == audio' \in IF Older THEN BOOLEAN ELSE {FALSE}

\* The setting, and in a session the sound opened or closed with it.
cvr_check_audio(open) ==
  /\ kvsclip_audio' = rfc
  /\ IF open /\ rfc
     THEN IF kvsclip_audio THEN UNCHANGED audio ELSE cvr_init_audio_stream
     ELSE audio' = FALSE

\* ... in the osi core, which has no session for it.
cvr_check_rfcparams == kvsclip_audio' = rfc /\ UNCHANGED audio

\* ... and waits where nobody looks at term_flag.
R_Head_WaitsForever ==
  /\ pc = "head" \/ (pc = "top" /\ ~term_flag /\ ~reload_cvr_flag)
  /\ local_stream_err' = (local_stream_err /\ ~init_flag)
  /\ init_flag' = (init_flag /\ ~local_stream_err /\ iscvrenabled)
  /\ IF Older THEN cvr_check_audio(init_flag') ELSE cvr_check_rfcparams
  /\ Goto(IF ~iscvrenabled THEN "head" ELSE IF init_flag' THEN "begin" ELSE "open")
  /\ UNCHANGED <<svars, core, retry, signals, file, iscvrenabled, lenableaudio, held, file_name, frame, status>>

\* A failed session is closed; CVR that is disabled closes its session and waits.
R_Head ==
  /\ pc = "head" \/ (pc = "top" /\ ~term_flag /\ ~reload_cvr_flag)
  /\ local_stream_err' = (local_stream_err /\ ~init_flag)
  /\ init_flag' = (init_flag /\ ~local_stream_err /\ iscvrenabled)
  /\ IF Older THEN cvr_check_audio(init_flag') ELSE cvr_check_rfcparams
  /\ Goto(IF ~iscvrenabled THEN "top" ELSE IF init_flag' THEN "begin" ELSE "open")
  /\ UNCHANGED <<svars, core, retry, signals, file, iscvrenabled, lenableaudio, held, file_name, frame, status>>

\* The session is opened.
R_StreamInit ==
  /\ pc = "open" /\ Osi
  /\ \/ Goto("top") /\ UNCHANGED init_flag
     \/ Goto("wait") /\ init_flag' = TRUE
  /\ UNCHANGED <<svars, core, retry, signals, file, config, local_stream_err, held, file_name, frame, status>>

\* The session of the video is opened, and then that of the sound, if it is wanted.
C_StreamInit ==
  /\ pc = "open" /\ Older
  /\ \/ Goto("top") /\ UNCHANGED <<init_flag, audio>>
     \/ /\ init_flag' = TRUE /\ Goto("wait")
        /\ IF kvsclip_audio THEN cvr_init_audio_stream ELSE audio' = FALSE
  /\ UNCHANGED <<svars, core, retry, signals, file, iscvrenabled, kvsclip_audio, lenableaudio,
                 local_stream_err, held, file_name, frame, status>>

\* The wait for the first I frame: frames before it are thrown away.
R_WaitKeyFrame ==
  /\ pc = "wait"
  /\ \/ /\ term_flag /\ Goto("begin") /\ UNCHANGED <<local_stream_err, held, frame, trouble>>
     \/ /\ ~term_flag /\ ReadFrame
        /\ (Keep /\ Goto("begin")) \/ UNCHANGED <<held, pc>>
        /\ UNCHANGED <<local_stream_err, trouble>>
     \/ /\ ~term_flag /\ local_stream_err' = TRUE /\ trouble' = TRUE /\ Goto("begin")
        /\ UNCHANGED <<held, frame>>
  /\ UNCHANGED <<handle, isstreamerror_reported, drops, clips, times, sdk, core, retry, signals, file,
                 config, init_flag, file_name, status>>

\* A failed read goes back to the top.
R_Begin ==
  /\ pc = "begin" /\ local_stream_err /\ Goto("top")
  /\ UNCHANGED <<svars, rvars>>

AudioChanged == lenableaudio # kvsclip_audio

\* Another audio setting wants another stream.
R_AudioChanged ==
  /\ pc = "begin" /\ ~local_stream_err /\ AudioChanged
  /\ lenableaudio' = kvsclip_audio
  /\ createkvsstream(1, "error")
  /\ UNCHANGED <<core, retry, signals, file, iscvrenabled, kvsclip_audio, audio, session, held, file_name,
                 frame, pushframestatus>>

Checked == pc = "error" \/ (pc = "begin" /\ ~local_stream_err /\ ~AudioChanged)

\* An error of the last push wants a new one, too.  The older core leaves the status behind.
R_StreamError ==
  /\ Checked /\ pushframestatus = 1
  /\ createkvsstream(1, "start")
  /\ pushframestatus' = IF Osi THEN 0 ELSE pushframestatus
  /\ UNCHANGED <<core, retry, signals, file, config, session, held, file_name, frame>>

\* The clip can start.
Starting == pc = "start" \/ (Checked /\ pushframestatus # 1)

-----------------------------------------------------------------------------
(* A clip, as osi_cvr_daemon.cpp makes it. *)

\* The clip is named and its I frame pushed; a stream error now ends the main loop.
R_StartClip ==
  /\ Starting /\ Osi
  /\ file_name' = key
  /\ IF has_an_iframe
     THEN /\ pushFrames(IFrame(key), key, FALSE)
          /\ has_an_iframe' = (pushframestatus' = 1)
          /\ Goto(IF pushframestatus' = 1 THEN "close" ELSE "rec")
     ELSE UNCHANGED <<svars, status, has_an_iframe>> /\ Goto("rec")
  /\ UNCHANGED <<core, retry, signals, file, config, session, key, over, frame>>

\* The loop over the duration of the clip: it is over, or SIGTERM has come.
R_RecordEnds ==
  /\ pc = "rec"
  /\ \/ over' = TRUE /\ UNCHANGED <<term_flag>>
     \/ term_flag /\ UNCHANGED <<over, term_flag>>
  /\ Goto("search")
  /\ UNCHANGED <<svars, core, retry, reload_cvr_flag, file, config, session, has_an_iframe, key, file_name,
                 frame, status>>

\* Past the checks at the head of the loop.
Reading == \/ pc = "read"
           \/ pc = "rec" /\ ~over /\ ~term_flag /\ ~reload_cvr_flag

\* CVR was disabled: the daemon terminates itself.
R_Disabled ==
  /\ Reading /\ ~iscvrenabled
  /\ term_flag' = TRUE /\ Goto("search")
  /\ UNCHANGED <<svars, core, retry, reload_cvr_flag, file, config, session, held, file_name, frame, status>>

ReadError == local_stream_err' = TRUE /\ trouble' = TRUE

\* One read: it fails; or an I frame close to the end is kept; or the frame is pushed.
R_Record ==
  /\ Reading /\ iscvrenabled /\ Osi
  /\ \/ /\ ReadError /\ Goto("search")
        /\ UNCHANGED <<handle, isstreamerror_reported, drops, clips, times, sdk, held, frame, status>>
     \/ /\ ReadFrame /\ Keep /\ Goto("finish")
        /\ UNCHANGED <<svars, local_stream_err, status>>
     \/ /\ ReadFrame /\ \E f \in {IFrame(frame'), PFrame(frame')} : pushFrames(f, file_name, FALSE)
        /\ Goto(IF pushframestatus' = 1 THEN "search" ELSE "rec")
        /\ UNCHANGED <<held, local_stream_err>>
  /\ UNCHANGED <<core, retry, signals, file, config, init_flag, file_name>>

\* No I frame for the next clip yet: SIGTERM or a failed read ends the main loop here.
R_Search ==
  /\ pc = "search" /\ Osi /\ (term_flag \/ local_stream_err)
  /\ Goto("close")
  /\ UNCHANGED <<svars, rvars>>

\* The older core searches whatever ended the loop before.
Seeking == \/ pc = "seek"
           \/ pc = "search" /\ (Osi => ~term_flag /\ ~local_stream_err)

\* Frames are pushed until the next I frame; a failed read or a stream error ends the clip.
R_Seek ==
  /\ Seeking /\ Osi
  /\ \/ term_flag /\ Goto("finish") /\ UNCHANGED <<svars, local_stream_err, held, frame, status>>
     \/ /\ ~term_flag /\ ReadError /\ Goto("finish")
        /\ UNCHANGED <<handle, isstreamerror_reported, drops, clips, times, sdk, held, frame, status>>
     \/ /\ ~term_flag /\ ReadFrame /\ Keep /\ Goto("finish")
        /\ UNCHANGED <<svars, local_stream_err, status>>
     \/ /\ ~term_flag /\ ReadFrame /\ pushFrames(PFrame(frame'), file_name, FALSE)
        /\ Goto(IF pushframestatus' = 1 THEN "finish" ELSE "seek")
        /\ UNCHANGED <<held, local_stream_err>>
  /\ UNCHANGED <<core, retry, signals, file, config, init_flag, file_name>>

\* The end of the clip is pushed, unless the camera failed; its status replaces the one before.
R_Finish ==
  /\ pc = "finish" /\ Osi
  /\ IF term_flag \/ local_stream_err THEN UNCHANGED <<svars, status>> ELSE pushFrames(PFrame(frame), file_name, TRUE)
  /\ Goto("top")
  /\ UNCHANGED <<core, retry, signals, file, config, session, held, file_name, frame>>

-----------------------------------------------------------------------------
(* A clip, as the older core makes it. *)

C_StartClip ==
  /\ Starting /\ Older
  /\ file_name' = key
  /\ IF has_an_iframe
     THEN /\ pushFrames(IFrame(key), key, FALSE)
          /\ has_an_iframe' = (pushframestatus' = 1)
          /\ Goto(IF pushframestatus' = 1 THEN "close" ELSE "rec")
     ELSE UNCHANGED <<svars, status, has_an_iframe>> /\ Goto("rec")
  /\ UNCHANGED <<core, retry, signals, file, config, session, key, over, frame>>

\* The end of a round that got a frame: the next one comes when there is memory for more.
NextRound == {"rec", "lowmem"}

\* There is memory again.
C_MemoryBack ==
  /\ pc = "lowmem" /\ Goto("rec")
  /\ UNCHANGED <<svars, rvars>>

\* A video frame, or none yet, and then one of sound.
C_Record ==
  /\ Reading /\ iscvrenabled /\ Older
  /\ \/ /\ ReadError /\ Goto("seek")
        /\ UNCHANGED <<handle, isstreamerror_reported, drops, clips, times, sdk, held, frame, status>>
     \/ /\ ReadFrame /\ Keep /\ Goto("drain")
        /\ UNCHANGED <<svars, local_stream_err, status>>
     \/ /\ ReadFrame /\ \E f \in {IFrame(frame'), PFrame(frame')} : pushFrames(f, file_name, FALSE)
        /\ pc' \in IF pushframestatus' = 1 THEN {"seek"} ELSE IF audio THEN {"sound"} ELSE NextRound
        /\ UNCHANGED <<held, local_stream_err>>
     \/ /\ audio /\ Goto("sound") /\ UNCHANGED <<svars, held, frame, status, local_stream_err>>
  /\ UNCHANGED <<core, retry, signals, file, config, init_flag, file_name>>

\* The read of the sound that goes with it, in either loop: a frame, none yet, or a failure.
C_Sound ==
  /\ pc \in {"sound", "seek_sound"} /\ Older
  /\ LET loop == IF pc = "sound" THEN "rec" ELSE "seek"
         next == IF pc = "sound" THEN NextRound ELSE {"seek"}
         out  == IF pc = "sound" THEN "seek" ELSE "drain"
     IN  \/ /\ ReadError /\ Goto(out)
            /\ UNCHANGED <<handle, isstreamerror_reported, drops, clips, times, sdk, frame, status>>
         \/ /\ ReadFrame /\ pushFrames(PFrame(frame'), file_name, FALSE)
            /\ pc' \in IF pushframestatus' = 1 THEN {out} ELSE next
            /\ UNCHANGED local_stream_err
         \/ Goto(loop) /\ UNCHANGED <<svars, frame, status, local_stream_err>>
  /\ UNCHANGED <<core, retry, signals, file, config, init_flag, held, file_name>>

C_Seek ==
  /\ Seeking /\ Older
  /\ \/ term_flag /\ Goto("drain") /\ UNCHANGED <<svars, local_stream_err, held, frame, status>>
     \/ /\ ~term_flag /\ ReadError /\ Goto("drain")
        /\ UNCHANGED <<handle, isstreamerror_reported, drops, clips, times, sdk, held, frame, status>>
     \/ /\ ~term_flag /\ ReadFrame /\ Keep /\ Goto("drain")
        /\ UNCHANGED <<svars, local_stream_err, status>>
     \/ /\ ~term_flag /\ ReadFrame /\ pushFrames(PFrame(frame'), file_name, FALSE)
        /\ Goto(IF pushframestatus' = 1 THEN "drain" ELSE IF audio THEN "seek_sound" ELSE "seek")
        /\ UNCHANGED <<held, local_stream_err>>
  /\ UNCHANGED <<core, retry, signals, file, config, init_flag, file_name>>

\* The sound that belongs to the clip is read, up to the I frame of the next one.
C_DrainSound ==
  /\ pc = "drain" /\ Older
  /\ \/ /\ audio /\ term_flag
        /\ Goto("finish") /\ UNCHANGED <<svars, local_stream_err, frame, status>>
     \/ /\ audio /\ ~term_flag /\ ReadError /\ Goto("finish")
        /\ UNCHANGED <<handle, isstreamerror_reported, drops, clips, times, sdk, frame, status>>
     \/ /\ audio /\ ~term_flag /\ ReadFrame /\ pushFrames(PFrame(frame'), file_name, FALSE)
        /\ IF pushframestatus' = 1 THEN Goto("finish") ELSE pc' \in {"drain", "finish"}
        /\ UNCHANGED local_stream_err
  /\ UNCHANGED <<core, retry, signals, file, config, init_flag, held, file_name>>

\* The end is pushed even when the camera failed.
C_Finish ==
  /\ Older /\ (pc = "finish" \/ (pc = "drain" /\ ~audio))
  /\ IF term_flag THEN UNCHANGED <<svars, status>> ELSE pushFrames(PFrame(frame), file_name, TRUE)
  /\ Goto("top")
  /\ UNCHANGED <<core, retry, signals, file, config, session, held, file_name, frame>>

cvr_close ==
  /\ pc = "close" /\ Goto("done")
  /\ init_flag' = FALSE /\ audio' = FALSE
  /\ UNCHANGED <<svars, core, retry, signals, file, iscvrenabled, kvsclip_audio, lenableaudio,
                 local_stream_err, held, file_name, frame, status>>

-----------------------------------------------------------------------------
(* Around it: the SDK, the configuration, SIGTERM. *)

Running == pc # "done"

E_StreamError == Running /\ streamErrorReportHandler /\ UNCHANGED <<pc, rvars>>

FragmentAckReceivedHandler ==
  Running /\ (\E f \in fragments : FragmentPersisted(f) \/ FragmentError(f)) /\ UNCHANGED <<pc, rvars>>

\* The configuration changes, and a message or SIGUSR1 says so.
E_Config ==
  /\ Running /\ changes < MaxChanges
  /\ enabled' = ~enabled /\ changes' = changes + 1 /\ reload_cvr_flag' = TRUE
  /\ UNCHANGED <<svars, pc, core, retry, term_flag, rfc, config, session, held, file_name,
                 frame, status>>

E_Audio ==
  /\ Running /\ changes < MaxChanges
  /\ rfc' = ~rfc /\ changes' = changes + 1
  /\ UNCHANGED <<svars, pc, core, retry, signals, enabled, config, session, held, file_name,
                 frame, status>>

self_term ==
  /\ Running /\ ~term_flag /\ term_flag' = TRUE
  /\ UNCHANGED <<svars, pc, core, retry, reload_cvr_flag, file, config, session, held, file_name, frame,
                 status>>

Daemon ==
  \/ R_KvsInit \/ R_Init \/ R_Reload \/ R_ClearReload \/ R_Top \/ R_Head \/ R_StreamInit \/ C_StreamInit
  \/ R_WaitKeyFrame \/ R_Begin \/ R_AudioChanged \/ R_StreamError \/ R_RecordEnds \/ R_Disabled
  \/ R_StartClip \/ R_Record \/ R_Search \/ R_Seek \/ R_Finish
  \/ C_StartClip \/ C_Record \/ C_Sound \/ C_Seek \/ C_DrainSound \/ C_Finish
  \/ cvr_close

Next == \/ Daemon \/ C_MemoryBack
        \/ E_StreamError \/ FragmentAckReceivedHandler \/ E_Config \/ E_Audio \/ self_term

\* The daemon goes on; nothing outside has to happen, and memory need not come back.
Spec == Init /\ [][Next]_vars /\ WF_vars(Daemon)

-----------------------------------------------------------------------------
(* What it promises. *)

\* A report of the upload of a clip is about the clip whose I frame opened the fragment that was
\* acknowledged: timecodes lead to the right name (FragmentAckReceivedHandler).
ReportsTruthful ==
  \A f \in fragments, e \in clipmapwithtimecode : e.at = f.at => e.clip = f.clip

\* When nothing failed, no frame goes into the fragment of another clip: every clip starts with
\* its I frame, in every loop of do_cvr that can hand one over.
FragmentsSeparate == mixed => trouble

\* The daemon never keeps on sending clips into silence: past the threshold the stream was reset,
\* or is about to be created again.
SilenceBounded ==
  unacked <= CVR_THRESHHOLD_CLIPS + 1 \/ (pushframestatus = 1 /\ ~iskvsStreamInitDone) \/ pc \in {"close", "done"}

\* SIGTERM ends the daemon from every loop it can be in, even from the retries of kvsInit.  One
\* exception: in the older core, the loop that waits for memory does not look at term_flag.
TermStops == term_flag ~> (pc = "done" \/ pc = "lowmem")
=============================================================================
