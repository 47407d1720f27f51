------------------------------ MODULE Recorder ------------------------------
(***************************************************************************)
(* How CVR::do_cvr (kvs/clipupload/core/cvr_daemon.cpp) cuts the camera's  *)
(* video and audio streams into clips: its nested read loops, the key      *)
(* frame it holds back for the next clip, stream errors, audio that comes  *)
(* and goes, and SIGTERM.  What becomes of a submitted clip is the subject *)
(* of ClipUpload; motion statistics and events are not here.               *)
(*                                                                         *)
(* Frames are numbered as the camera delivers them and their number is     *)
(* their timestamp, in units of AUDIO_DURATION.  The duration of a clip    *)
(* can be over at any time: the clock is not modelled.                     *)
(***************************************************************************)
EXTENDS Naturals

CONSTANTS MaxVideo, MaxAudio   \* bounds: frames the camera delivers

ASSUME FramesAssumption == MaxVideo \in Nat /\ MaxAudio \in Nat

VARIABLES
  pc,               \* where do_cvr is
  term_flag,        \* SIGTERM has come
  init_flag,        \* the stream session is open
  local_stream_err, \* a read has failed
  has_an_iframe,    \* cvr_key_frame is the first frame of the next clip
  key,              \* cvr_key_frame; its timestamp is start_msec
  cvr_audio_status, \* the audio setting as last seen
  kvsclip_audio,    \* what the upload thread is told about the sound of clips
  audio,            \* cvr_flag & RDKC_STRAM_FLAG_AUDIO: the audio session is open
  v, vI,            \* video frames read so far, and which are I frames
  a,                \* audio frames read so far
  first,            \* first video frame of the clip
  clip, aclip,      \* video and audio frames written to it
  fresh,            \* ghost: it is the first clip of the session
  bad,              \* ghost: a read failed while it was recorded
  submitted         \* ghost: the last clip given to cvr_upload

flags   == <<term_flag, init_flag, local_stream_err>>
held    == <<has_an_iframe, key>>
sound   == <<cvr_audio_status, kvsclip_audio, audio>>
camera  == <<v, vI, a>>
current == <<first, clip, aclip, fresh, bad>>
vars    == <<pc, flags, held, sound, camera, current, submitted>>

NoClip == [first |-> 0, last |-> 0, alast |-> 0, video |-> {}, sound |-> {}, track |-> FALSE,
           flag |-> FALSE, fresh |-> TRUE, bad |-> FALSE, iframe |-> TRUE]

Init ==
  /\ pc = "top" /\ term_flag = FALSE /\ init_flag = FALSE /\ local_stream_err = FALSE
  /\ has_an_iframe = FALSE /\ key = 0
  /\ cvr_audio_status = "unknown" /\ kvsclip_audio \in BOOLEAN /\ audio = TRUE
  /\ v = 0 /\ vI = {} /\ a = 0
  /\ first = 0 /\ clip = {} /\ aclip = {} /\ fresh = FALSE /\ bad = FALSE
  /\ submitted = NoClip

-----------------------------------------------------------------------------
(* recorder->GetStream: a frame is there, or none yet, or the call fails. *)

\* The next video frame; it is an I frame or it is not.
GetVideo(isI) == /\ v < MaxVideo
                 /\ v' = v + 1 /\ vI' = (IF isI THEN vI \cup {v + 1} ELSE vI)
                 /\ UNCHANGED a

GetAudio == a < MaxAudio /\ a' = a + 1 /\ UNCHANGED <<v, vI>>

\* local_stream_err = 1
ReadError == local_stream_err' = TRUE /\ bad' = TRUE

\* The frame just read is kept to be the first one of the next clip.
KeepFrame == has_an_iframe' = TRUE /\ key' = v'

\* CVRBuildWriteFrame(ts_fd, &cvr_frame), whose failures are only logged.
WriteVideo == clip' = clip \cup {v'} /\ UNCHANGED <<first, aclip, fresh, bad>>
WriteAudio == aclip' = aclip \cup {a'} /\ UNCHANGED <<first, clip, fresh, bad>>

-----------------------------------------------------------------------------
(* The head of the main loop. *)

\* ... leaves the session of the failed stream open.
R_Top_NoClose ==
  /\ pc = "top" /\ ~term_flag
  /\ local_stream_err' = FALSE
  /\ \E on \in BOOLEAN :
       /\ cvr_audio_status' = (IF on THEN "enabled" ELSE "disabled")
       /\ kvsclip_audio' = (IF cvr_audio_status' # cvr_audio_status THEN on ELSE kvsclip_audio)
       /\ audio' \in IF ~init_flag \/ cvr_audio_status' = cvr_audio_status THEN {audio}
                     ELSE IF on THEN BOOLEAN ELSE {FALSE}
  /\ pc' = IF init_flag THEN "name" ELSE "init"
  /\ UNCHANGED <<term_flag, init_flag, held, camera, current, submitted>>

\* After an error the session is closed.  cvr_check_audio looks at the setting; if
\* it has changed it tells the upload thread and opens or closes the audio
\* stream of an open session, and opening may fail.
R_Top ==
  /\ pc = "top" /\ ~term_flag
  /\ init_flag' = (init_flag /\ ~local_stream_err)
  /\ local_stream_err' = (local_stream_err /\ ~init_flag)
  /\ \E on \in BOOLEAN :
       /\ cvr_audio_status' = (IF on THEN "enabled" ELSE "disabled")
       /\ kvsclip_audio' = (IF cvr_audio_status' # cvr_audio_status THEN on ELSE kvsclip_audio)
       /\ audio' \in IF init_flag /\ local_stream_err THEN {FALSE}
                     ELSE IF ~init_flag \/ cvr_audio_status' = cvr_audio_status THEN {audio}
                     ELSE IF on THEN BOOLEAN ELSE {FALSE}
  /\ pc' = IF init_flag' THEN "name" ELSE "init"
  /\ UNCHANGED <<term_flag, held, camera, current, submitted>>

\* do_cvr returns.
R_Return ==
  /\ pc = "top" /\ term_flag
  /\ pc' = "ended"
  /\ UNCHANGED <<flags, held, sound, camera, current, submitted>>

\* The video stream cannot be opened: try again.
R_InitFails ==
  /\ pc = "init"
  /\ pc' = "top" /\ audio' = TRUE
  /\ UNCHANGED <<flags, held, cvr_audio_status, kvsclip_audio, camera, current, submitted>>

\* It can; "if audio failed, ignore audio".
R_Init ==
  /\ pc = "init"
  /\ audio' \in IF cvr_audio_status = "enabled" THEN BOOLEAN ELSE {FALSE}
  /\ init_flag' = TRUE /\ fresh' = TRUE /\ pc' = "waitI"
  /\ UNCHANGED <<term_flag, local_stream_err, held, cvr_audio_status, kvsclip_audio, camera,
                 first, clip, aclip, bad, submitted>>

\* ... forgets to copy the frame.
R_WaitFrame_NoCopy ==
  /\ pc = "waitI" /\ ~term_flag
  /\ \E isI \in BOOLEAN : GetVideo(isI)
  /\ has_an_iframe' = TRUE /\ UNCHANGED key
  /\ pc' = "name"
  /\ UNCHANGED <<flags, sound, current, submitted>>

\* Waiting for the first frame, of whatever type.
R_WaitFrame ==
  /\ pc = "waitI" /\ ~term_flag
  /\ \E isI \in BOOLEAN : GetVideo(isI)
  /\ KeepFrame
  /\ pc' = "name"
  /\ UNCHANGED <<flags, sound, current, submitted>>

\* The read fails, or there is no frame for three seconds.
R_WaitError ==
  /\ pc = "waitI" /\ ~term_flag
  /\ ReadError
  /\ pc' = "top"
  /\ UNCHANGED <<term_flag, init_flag, held, sound, camera, first, clip, aclip, fresh, submitted>>

R_WaitTerm ==
  /\ pc = "waitI" /\ term_flag
  /\ pc' = "name"
  /\ UNCHANGED <<flags, held, sound, camera, current, submitted>>

\* open() of the new clip fails: start over, with the same key frame.
R_OpenFails ==
  /\ pc = "name"
  /\ pc' = "top"
  /\ UNCHANGED <<flags, held, sound, camera, current, submitted>>

\* The new clip begins with the frame held back, if there is one (there is none
\* after SIGTERM in the wait for the first frame).
R_Open ==
  /\ pc = "name"
  /\ first' = key
  /\ clip' = (IF has_an_iframe THEN {key} ELSE {})
  /\ aclip' = {} /\ bad' = FALSE
  /\ has_an_iframe' = FALSE
  /\ pc' = "record"
  /\ UNCHANGED <<flags, key, sound, camera, fresh, submitted>>

-----------------------------------------------------------------------------
(* Recording, while the duration of the clip is not over. *)

\* The duration is over, or SIGTERM.
R_TimeUp ==
  /\ pc = "record"
  /\ pc' = "search"
  /\ UNCHANGED <<flags, held, sound, camera, current, submitted>>

\* An I frame in the last 150 ms of the clip is the first frame of the next one.
R_RecordKey ==
  /\ pc = "record" /\ ~term_flag
  /\ GetVideo(TRUE)
  /\ KeepFrame
  /\ pc' = "search"
  /\ UNCHANGED <<flags, sound, current, submitted>>

\* Any other frame is written.  Afterwards, audio; or do_cvr sleeps while the
\* system has little memory.
R_RecordVideo ==
  /\ pc = "record" /\ ~term_flag
  /\ \E isI \in BOOLEAN : GetVideo(isI)
  /\ WriteVideo
  /\ pc' \in IF audio THEN {"raudio"} ELSE {"record", "lowmem"}
  /\ UNCHANGED <<flags, held, sound, submitted>>

\* No video frame yet: audio is read all the same.
R_RecordNone ==
  /\ pc = "record" /\ ~term_flag /\ audio
  /\ pc' = "raudio"
  /\ UNCHANGED <<flags, held, sound, camera, current, submitted>>

R_RecordAudio ==
  /\ pc = "raudio"
  /\ \/ GetAudio /\ WriteAudio /\ pc' \in {"record", "lowmem"}
     \/ pc' = "record" /\ UNCHANGED <<camera, current>>
  /\ UNCHANGED <<flags, held, sound, submitted>>

R_RecordError ==
  /\ (pc = "record" /\ ~term_flag) \/ pc = "raudio"
  /\ ReadError
  /\ pc' = "search"
  /\ UNCHANGED <<term_flag, init_flag, held, sound, camera, first, clip, aclip, fresh, submitted>>

\* There is memory again.
R_MemoryBack ==
  /\ pc = "lowmem"
  /\ pc' = "record"
  /\ UNCHANGED <<flags, held, sound, camera, current, submitted>>

-----------------------------------------------------------------------------
(* The duration is over: the clip goes on until the next I frame. *)

R_SearchDone ==
  /\ pc = "search" /\ (has_an_iframe \/ term_flag)
  /\ pc' = "drain"
  /\ UNCHANGED <<flags, held, sound, camera, current, submitted>>

R_SearchKey ==
  /\ pc = "search" /\ ~has_an_iframe /\ ~term_flag
  /\ GetVideo(TRUE)
  /\ KeepFrame
  /\ pc' = "drain"
  /\ UNCHANGED <<flags, sound, current, submitted>>

R_SearchVideo ==
  /\ pc = "search" /\ ~has_an_iframe /\ ~term_flag
  /\ GetVideo(FALSE)
  /\ WriteVideo
  /\ pc' = IF audio THEN "saudio" ELSE "search"
  /\ UNCHANGED <<flags, held, sound, submitted>>

R_SearchAudio ==
  /\ pc = "saudio"
  /\ (GetAudio /\ WriteAudio) \/ UNCHANGED <<camera, current>>
  /\ pc' = "search"
  /\ UNCHANGED <<flags, held, sound, submitted>>

\* ... is only logged.
R_SearchError_Ignored ==
  /\ (pc = "search" /\ ~has_an_iframe /\ ~term_flag) \/ pc = "saudio"
  /\ bad' = TRUE
  /\ pc' = "drain"
  /\ UNCHANGED <<flags, held, sound, camera, first, clip, aclip, fresh, submitted>>

R_SearchError ==
  /\ (pc = "search" /\ ~has_an_iframe /\ ~term_flag) \/ pc = "saudio"
  /\ ReadError
  /\ pc' = "drain"
  /\ UNCHANGED <<term_flag, init_flag, held, sound, camera, first, clip, aclip, fresh, submitted>>

-----------------------------------------------------------------------------
(* Then the sound up to the next clip's first frame. *)

\* ... waits for the audio stream without looking at term_flag.
R_DrainDone_NoTerm ==
  /\ pc = "drain" /\ ~audio
  /\ pc' = "close"
  /\ UNCHANGED <<flags, held, sound, camera, current, submitted>>

R_DrainDone ==
  /\ pc = "drain" /\ (~audio \/ term_flag)
  /\ pc' = "close"
  /\ UNCHANGED <<flags, held, sound, camera, current, submitted>>

\* ... ends at the first frame.
R_DrainAudio_Once ==
  /\ pc = "drain" /\ audio /\ ~term_flag
  /\ GetAudio /\ WriteAudio
  /\ pc' = "close"
  /\ UNCHANGED <<flags, held, sound, submitted>>

\* frame_timestamp + AUDIO_DURATION > start_msec ends it.
R_DrainAudio ==
  /\ pc = "drain" /\ audio /\ ~term_flag
  /\ GetAudio /\ WriteAudio
  /\ pc' = IF a' + 1 > key THEN "close" ELSE "drain"
  /\ UNCHANGED <<flags, held, sound, submitted>>

R_DrainError ==
  /\ pc = "drain" /\ audio /\ ~term_flag
  /\ ReadError
  /\ pc' = "close"
  /\ UNCHANGED <<term_flag, init_flag, held, sound, camera, first, clip, aclip, fresh, submitted>>

-----------------------------------------------------------------------------
(* The clip is closed. *)

\* After SIGTERM or a read error both its files are deleted.
R_Discard ==
  /\ pc = "close" /\ (term_flag \/ local_stream_err)
  /\ clip' = {} /\ aclip' = {}
  /\ pc' = "top"
  /\ UNCHANGED <<flags, held, sound, camera, first, fresh, bad, submitted>>

\* cvr_upload, with the audio flag.
R_Submit ==
  /\ pc = "close" /\ ~term_flag /\ ~local_stream_err
  /\ submitted' = [first |-> first, last |-> key - 1, alast |-> a, video |-> clip,
                   sound |-> aclip, track |-> audio, flag |-> kvsclip_audio,
                   fresh |-> fresh, bad |-> bad, iframe |-> first \in vI]
  /\ clip' = {} /\ aclip' = {} /\ fresh' = FALSE
  /\ pc' = "top"
  /\ UNCHANGED <<flags, held, sound, camera, first, bad>>

self_term ==
  /\ ~term_flag
  /\ term_flag' = TRUE
  /\ UNCHANGED <<pc, init_flag, local_stream_err, held, sound, camera, current, submitted>>

Read == \/ R_WaitFrame \/ R_RecordKey \/ R_RecordVideo \/ R_RecordNone \/ R_RecordAudio
        \/ R_SearchKey \/ R_SearchVideo \/ R_SearchAudio \/ R_DrainAudio
        \/ R_WaitError \/ R_RecordError \/ R_SearchError \/ R_DrainError

do_cvr == \/ R_Top \/ R_Return \/ R_InitFails \/ R_Init \/ R_WaitTerm \/ R_OpenFails \/ R_Open
          \/ R_TimeUp \/ R_SearchDone \/ R_DrainDone \/ R_Discard \/ R_Submit \/ Read

Next == do_cvr \/ R_MemoryBack \/ self_term

Spec == Init /\ [][Next]_vars

\* The thread runs.  Memory need not come back.
FairSpec == Spec /\ WF_vars(do_cvr)

-----------------------------------------------------------------------------
(* Type invariant: a frame that is held back has been read. *)
TypeOK ==
  /\ pc \in {"top", "init", "waitI", "name", "record", "raudio", "lowmem", "search", "saudio",
             "drain", "close", "ended"}
  /\ term_flag \in BOOLEAN /\ init_flag \in BOOLEAN /\ local_stream_err \in BOOLEAN
  /\ has_an_iframe \in BOOLEAN /\ key \in 0..v /\ (has_an_iframe => key # 0)
  /\ cvr_audio_status \in {"unknown", "enabled", "disabled"}
  /\ kvsclip_audio \in BOOLEAN /\ audio \in BOOLEAN
  /\ v \in 0..MaxVideo /\ vI \subseteq 1..v /\ a \in 0..MaxAudio
  /\ first \in 0..v /\ clip \subseteq 1..v /\ aclip \subseteq 1..a
  /\ fresh \in BOOLEAN /\ bad \in BOOLEAN

-----------------------------------------------------------------------------
(* Properties. *)

Submits == submitted' # submitted

\* No video frame is lost or written twice where one clip ends and the next
\* begins: a clip holds every frame from its first one to the last before the
\* next clip's; unless the stream was opened anew, it starts with an I frame
\* and where the clip before ended.
ClipsJoin ==
  [][Submits =>
       LET c == submitted' IN
       /\ c.video = c.first..c.last
       /\ ~c.fresh => c.iframe /\ c.first = submitted.last + 1]_vars

\* The same of the sound: the clip has all of it up to the next clip's first
\* frame, and while sound is on it starts where the clip before ended.
SoundJoins ==
  [][Submits /\ submitted'.track =>
       LET c == submitted' IN
       /\ c.alast >= c.last
       /\ (submitted.track /\ ~c.fresh) => c.sound = (submitted.alast + 1)..c.alast]_vars

\* A clip is uploaded only if every read while it was recorded succeeded, in
\* whichever of the loops.
CleanClips == [][Submits => ~submitted'.bad]_vars

\* After SIGTERM do_cvr returns from all its loops, unless memory stays low: that
\* loop does not look at term_flag.
TermStops == term_flag ~> (pc = "ended" \/ pc = "lowmem")

\* "if audio failed, ignore audio" (cvr_daemon.cpp:1524): the clip is one
\* without sound then, and the upload thread is not told that it has some.
AudioFailureIgnored == submitted.flag => submitted.track

=============================================================================
