------------------------ MODULE FrameUpload_proofs ------------------------
(***************************************************************************)
(* Proofs about FrameUpload, with both cores, for any number of frames,    *)
(* changes, retries and clips remembered: SilenceBounded, ReportsTruthful, *)
(* FragmentsSeparate and, in the last section, TypeOK.                     *)
(***************************************************************************)
EXTENDS FrameUpload, FiniteSetTheorems, TLAPS

-----------------------------------------------------------------------------
(* What a push does. *)

\* A frame is turned away, or it is put or refused by the SDK.
LEMMA FramePushed ==
  ASSUME NEW f, NEW c, pushFrames(f, c, FALSE)
  PROVE  \/ /\ pushframestatus' = 1 /\ ~iskvsStreamInitDone' /\ trouble' = TRUE
            /\ UNCHANGED <<clips, sdk, times>>
         \/ /\ pushframestatus' # 1 /\ (UNCHANGED times \/ PersistedNow)
            /\ \E put \in BOOLEAN : /\ OpenClip(f.at, c, FALSE) /\ put_frame(f, c, put)
                                    /\ ~trouble' => ~trouble /\ put
<1>1. PICK ret \in {-1, 0, 1} : /\ kvsUploadFrames(f, c, FALSE, ret)
                                /\ pushframestatus' = ret
                                /\ iskvsStreamInitDone' = (iskvsStreamInitDone /\ ret # 1)
  BY DEF pushFrames
<1>2. CASE ret = 1
  <2>1. \/ ret = 1 /\ Upload_Fail(FALSE)
        \/ ret \in {-1, 0} /\ Upload_Frame(f, c, ret = 0)
    BY <1>1, Zenon DEF kvsUploadFrames
  <2>2. ret \notin {-1, 0}
    BY <1>2
  <2>3. Upload_Fail(FALSE)
    BY <2>1, <2>2, Zenon
  <2> QED
    BY <1>1, <1>2, <2>3 DEF Upload_Fail
<1>3. CASE ret # 1
  <2>1. Upload_Frame(f, c, ret = 0)
    BY <1>1, <1>3 DEF kvsUploadFrames
  <2>2. PICK put \in BOOLEAN : put = (ret = 0)
    OBVIOUS
  <2>3. /\ OpenClip(f.at, c, FALSE) /\ put_frame(f, c, put) /\ trouble' = (trouble \/ ~put)
        /\ UNCHANGED times \/ PersistedNow
    BY <2>1, <2>2 DEF Upload_Frame, reset_stream
  <2> QED
    BY <1>1, <1>3, <2>3
<1> QED
  BY <1>2, <1>3

\* The end of a clip; a stream that is silent and cannot be reset has to be created again.
LEMMA EndPushed ==
  ASSUME NEW f, NEW c, pushFrames(f, c, TRUE)
  PROVE  /\ OpenClip(IF USE_EPOCH THEN 0 ELSE f.at, c, TRUE) /\ UNCHANGED sdk
         /\ ~trouble' => ~trouble
         /\ \/ PersistedNow
            \/ /\ unacked' = (IF ~persisted /\ unacked = 0 THEN LongAgo ELSE unacked + 1)
               /\ Silent => pushframestatus' = 1 /\ ~iskvsStreamInitDone' /\ trouble' = TRUE
<1>1. PICK ret \in {-1, 0, 1} : /\ kvsUploadFrames(f, c, TRUE, ret)
                                /\ pushframestatus' = ret
                                /\ iskvsStreamInitDone' = (iskvsStreamInitDone /\ ret # 1)
  BY DEF pushFrames
<1>2. CASE ret = 0
  BY <1>1, <1>2 DEF kvsUploadFrames, Upload_End
<1>3. CASE ret = 1
  BY <1>1, <1>3 DEF kvsUploadFrames, Upload_End
<1> QED
  BY <1>1, <1>2, <1>3 DEF kvsUploadFrames

-----------------------------------------------------------------------------
(* Silence. *)

\* Where do_cvr is between a stream that failed and its creation.
Between == {"top", "clear_top", "head", "open", "wait", "begin"}

Bounded == unacked <= CVR_THRESHHOLD_CLIPS + 1

SilenceInv ==
  /\ unacked \in Nat
  /\ Bounded \/ pc \in {"close", "done"}
             \/ (pc \in Between /\ pushframestatus = 1 /\ ~iskvsStreamInitDone)

\* A push into a stream that was not silent for too long.
LEMMA PushSilence ==
  ASSUME unacked \in Nat, Bounded, NEW f, NEW c, NEW eof \in BOOLEAN, pushFrames(f, c, eof)
  PROVE  /\ unacked' \in Nat
         /\ Bounded' \/ (eof = TRUE /\ pushframestatus' = 1 /\ ~iskvsStreamInitDone')
<1> USE StreamAssumption
<1>1. CASE eof = FALSE
  <2>1. UNCHANGED times \/ PersistedNow
    BY <1>1, FramePushed
  <2> QED
    BY <2>1 DEF Bounded, times, PersistedNow
<1>2. CASE eof = TRUE
  <2>1. CASE PersistedNow
    BY <2>1 DEF Bounded, PersistedNow
  <2>2. CASE ~PersistedNow
    <3>1. /\ unacked' = (IF ~persisted /\ unacked = 0 THEN LongAgo ELSE unacked + 1)
          /\ Silent => pushframestatus' = 1 /\ ~iskvsStreamInitDone'
      BY <1>2, <2>2, EndPushed
    <3> QED
      BY <1>2, <3>1 DEF Bounded, Silent, LongAgo
  <2> QED
    BY <2>1, <2>2
<1> QED
  BY <1>1, <1>2

\* Another stream, or the end of the daemon.
LEMMA CreateSilence ==
  ASSUME unacked \in Nat, NEW flag \in {0, 1}, NEW next, createkvsstream(flag, next)
  PROVE  /\ unacked' \in Nat
         /\ Bounded' \/ pc' = "close" \/ (flag = 0 /\ UNCHANGED unacked)
<1>1. PICK ok \in BOOLEAN : kvsStreamInit(flag, ok) /\ Goto(IF ok THEN next ELSE "close")
  BY DEF createkvsstream
<1>2. CASE UNCHANGED times /\ flag = 0
  BY <1>2 DEF times
<1>3. CASE recreate_stream(ok)
  BY <1>1, <1>3, StreamAssumption DEF recreate_stream, Bounded, PersistedNow, Goto, times
<1> QED
  BY <1>1, <1>2, <1>3 DEF kvsStreamInit

LEMMA SilenceStep ==
  ASSUME SilenceInv, [Next]_vars
  PROVE  SilenceInv'
<1> DEFINE Same == UNCHANGED <<unacked, pushframestatus, iskvsStreamInitDone>>
<1>0. unacked \in Nat
  BY DEF SilenceInv
<1>1. ASSUME Same, pc \in Between => pc' \in Between \cup {"close", "done"},
             pc \in {"close", "done"} => pc' \in {"close", "done"}
      PROVE  SilenceInv'
  BY <1>1 DEF SilenceInv, Bounded
<1>2. ASSUME Bounded, Same PROVE SilenceInv'
  BY <1>0, <1>2 DEF SilenceInv, Bounded
<1>3. ASSUME Bounded, NEW f, NEW c, pushFrames(f, c, FALSE) PROVE SilenceInv'
  BY <1>0, <1>3, PushSilence DEF SilenceInv
<1>4. ASSUME Bounded, NEW f, NEW c, pushFrames(f, c, TRUE), pc' = "top" PROVE SilenceInv'
  BY <1>0, <1>4, PushSilence DEF SilenceInv, Between
<1>5. ASSUME pc \notin Between \cup {"close", "done"} PROVE Bounded
  BY <1>5 DEF SilenceInv
<1>6. CASE R_KvsInit \/ R_RecordEnds \/ R_Disabled \/ R_Search \/ C_MemoryBack
  <2>1. Same
    BY <1>6 DEF R_KvsInit, R_RecordEnds, R_Disabled, R_Search, C_MemoryBack, svars, times, status, rvars
  <2>2. pc \notin Between \cup {"close", "done"}
    BY <1>6 DEF R_KvsInit, R_RecordEnds, R_Disabled, R_Search, C_MemoryBack, Reading, Between
  <2> QED
    BY <1>2, <1>5, <2>1, <2>2
<1>7. CASE R_Reload \/ R_ClearReload \/ R_Top \/ R_Head \/ R_StreamInit \/ C_StreamInit \/ R_Begin
  <2>1. Same
    BY <1>7 DEF R_Reload, R_ClearReload, R_Top, R_Head, R_StreamInit, C_StreamInit, R_Begin, svars, times, status, rvars
  <2>2. /\ pc \in Between => pc' \in Between \cup {"close", "done"}
        /\ pc \notin {"close", "done"}
    BY <1>7 DEF R_Reload, R_ClearReload, R_Top, R_Head, R_StreamInit, C_StreamInit, R_Begin, Goto, Between
  <2> QED
    BY <1>1, <2>1, <2>2
<1>8. CASE R_WaitKeyFrame
  <2>1. Same /\ pc = "wait" /\ pc' \in {"wait", "begin"}
    BY <1>8 DEF R_WaitKeyFrame, times, status, Goto
  <2> QED
    BY <1>1, <2>1 DEF Between
<1>9. CASE cvr_close
  <2>1. Same /\ pc = "close" /\ pc' = "done"
    BY <1>9 DEF cvr_close, svars, times, status, Goto
  <2> QED
    BY <1>1, <2>1 DEF Between
<1>10. CASE E_StreamError \/ E_Config \/ E_Audio \/ self_term \/ UNCHANGED vars
  <2>1. Same /\ pc' = pc
    BY <1>10 DEF E_StreamError, E_Config, E_Audio, self_term, streamErrorReportHandler, svars, times, status, rvars, vars
  <2> QED
    BY <1>1, <2>1
<1>11. CASE FragmentAckReceivedHandler
  <2>1. /\ pc' = pc /\ UNCHANGED <<pushframestatus, iskvsStreamInitDone>>
        /\ (PersistedNow \/ UNCHANGED unacked)
    BY <1>11 DEF FragmentAckReceivedHandler, FragmentPersisted, FragmentError, times, status, rvars
  <2>2. CASE UNCHANGED unacked
    BY <1>1, <2>1, <2>2
  <2>3. CASE PersistedNow
    BY <2>3, StreamAssumption DEF PersistedNow, SilenceInv, Bounded
  <2> QED
    BY <2>1, <2>2, <2>3
<1>12. CASE R_Init
  <2>1. createkvsstream(0, "top") /\ Bounded
    BY <1>5, <1>12 DEF R_Init, Between
  <2> QED
    BY <1>0, <2>1, CreateSilence DEF SilenceInv, Bounded
<1>13. CASE R_AudioChanged \/ R_StreamError
  <2>1. \E next : createkvsstream(1, next)
    BY <1>13 DEF R_AudioChanged, R_StreamError
  <2> QED
    BY <1>0, <2>1, CreateSilence DEF SilenceInv
<1>14. CASE R_StartClip \/ C_StartClip
  <2>1. Bounded
    <3>1. pc \notin Between \cup {"close", "done"} \/ (pc = "begin" /\ pushframestatus # 1)
      BY <1>14 DEF R_StartClip, C_StartClip, Starting, Checked, Between
    <3> QED
      BY <1>5, <3>1 DEF SilenceInv
  <2>2. Same \/ pushFrames(IFrame(key), key, FALSE)
    BY <1>14 DEF R_StartClip, C_StartClip, svars, times, status
  <2> QED
    BY <1>2, <1>3, <2>1, <2>2
<1>15. CASE R_Record \/ R_Seek \/ C_Record \/ C_Sound \/ C_Seek \/ C_DrainSound
  <2>1. pc \notin Between \cup {"close", "done"}
    BY <1>15 DEF R_Record, R_Seek, C_Record, C_Sound, C_Seek, C_DrainSound, Reading, Seeking, Between
  <2>2. Same \/ \E f, c : pushFrames(f, c, FALSE)
    <3>1. CASE R_Record \/ R_Seek
      BY <3>1 DEF R_Record, R_Seek, svars, times, status
    <3>2. CASE C_Record \/ C_Sound
      BY <3>2 DEF C_Record, C_Sound, svars, times, status
    <3>3. CASE C_Seek \/ C_DrainSound
      BY <3>3 DEF C_Seek, C_DrainSound, svars, times, status
    <3> QED
      BY <1>15, <3>1, <3>2, <3>3
  <2> QED
    BY <1>2, <1>3, <1>5, <2>1, <2>2
<1>16. CASE R_Finish \/ C_Finish
  <2>1. pc \notin Between \cup {"close", "done"} /\ pc' = "top"
    BY <1>16 DEF R_Finish, C_Finish, Goto, Between
  <2>2. Same \/ \E f, c : pushFrames(f, c, TRUE)
    BY <1>16 DEF R_Finish, C_Finish, svars, times, status
  <2> QED
    BY <1>2, <1>4, <1>5, <2>1, <2>2
<1> QED
  BY <1>6, <1>7, <1>8, <1>9, <1>10, <1>11, <1>12, <1>13, <1>14, <1>15, <1>16 DEF Next, Daemon

\* The daemon never keeps on sending clips into silence, whichever core and whatever the thresholds:
\* past it the stream was reset, or is about to be created again (kvsUploadFrames, do_cvr).
THEOREM NoLongSilence == Spec => []SilenceBounded
<1>1. Init => SilenceInv
  BY StreamAssumption DEF Init, StreamInit, SilenceInv, Bounded
<1>2. SilenceInv /\ [Next]_vars => SilenceInv'
  BY SilenceStep
<1>3. SilenceInv => SilenceBounded
  BY DEF SilenceInv, SilenceBounded, Bounded
<1> QED
  BY <1>1, <1>2, <1>3, PTL DEF Spec

-----------------------------------------------------------------------------
(* The loops of a clip. *)

\* The loops that record and search, and where they lead.
InClip == {"rec", "clear_rec", "read", "sound", "lowmem", "search", "seek", "seek_sound"}
Behind == {"drain", "finish"}

\* Only past a look at term_flag do they go on.
Ready == ~term_flag \/ pc \in {"read", "sound", "lowmem", "seek", "seek_sound"}

\* A step of a loop that waits or fails, one that keeps the I frame of the next clip, and one that
\* pushes the frame it reads.
Rests  == /\ UNCHANGED <<clips, sdk, frame, has_an_iframe, key>> /\ (~trouble' => ~trouble)
          /\ pc' \in Behind \/ Ready
Keeps  == /\ ReadFrame /\ Keep /\ UNCHANGED <<clips, sdk, trouble>> /\ pc' \in Behind
Pushes == \E f : /\ ReadFrame /\ f.at = frame' /\ (f.key => pc \in InClip)
                 /\ pushFrames(f, file_name, FALSE) /\ UNCHANGED <<has_an_iframe, key>>
                 /\ Ready

\* A clip ends with an I frame kept, with SIGTERM or with an error.
EndsFor == has_an_iframe' \/ term_flag \/ trouble'

InLoop ==
  /\ UNCHANGED <<file_name, term_flag>>
  /\ \/ pc \in InClip /\ pc' \in InClip
     \/ pc \in InClip /\ pc' \in Behind /\ EndsFor
     \/ pc = "drain" /\ pc' \in Behind
  /\ Rests \/ Keeps \/ Pushes

\* The status 1 is an error.
LEMMA StatusIsTrouble ==
  ASSUME NEW f, NEW c, pushFrames(f, c, FALSE), pushframestatus' = 1
  PROVE  trouble'
BY FramePushed

LEMMA In_R_Record == ASSUME R_Record PROVE InLoop
<1>1. UNCHANGED <<file_name, term_flag>> /\ pc \in InClip
  BY DEF R_Record, Reading, signals, InClip
<1>2. ASSUME NEW f, f.at = frame', ~f.key \/ pc \in InClip, ReadFrame, pushFrames(f, file_name, FALSE),
             UNCHANGED <<has_an_iframe, key>>, Ready
      PROVE  Pushes
  BY <1>2 DEF Pushes
<1>3. Rests \/ Keeps \/ Pushes
  BY <1>1, <1>2 DEF R_Record, Reading, Rests, Keeps, Ready, ReadError, Goto, Behind, InClip, IFrame, PFrame, held, clips, sdk, svars
<1>4. pc' \in InClip \/ (pc' \in Behind /\ (pc \in InClip => EndsFor))
  BY StatusIsTrouble DEF R_Record, Reading, ReadError, Goto, Behind, InClip, EndsFor, Keep
<1> QED
  BY <1>1, <1>3, <1>4 DEF InLoop, InClip, Behind

LEMMA In_R_Seek == ASSUME R_Seek PROVE InLoop
<1>1. UNCHANGED <<file_name, term_flag>> /\ pc \in InClip
  BY DEF R_Seek, Seeking, signals, InClip
<1>2. ASSUME NEW f, f.at = frame', ~f.key \/ pc \in InClip, ReadFrame, pushFrames(f, file_name, FALSE),
             UNCHANGED <<has_an_iframe, key>>, Ready
      PROVE  Pushes
  BY <1>2 DEF Pushes
<1>3. Rests \/ Keeps \/ Pushes
  BY <1>1, <1>2 DEF R_Seek, Seeking, Rests, Keeps, Ready, ReadError, Goto, Behind, InClip, IFrame, PFrame, held, clips, sdk, svars
<1>4. pc' \in InClip \/ (pc' \in Behind /\ (pc \in InClip => EndsFor))
  BY StatusIsTrouble DEF R_Seek, Seeking, ReadError, Goto, Behind, InClip, EndsFor, Keep
<1> QED
  BY <1>1, <1>3, <1>4 DEF InLoop, InClip, Behind

LEMMA In_C_Record == ASSUME C_Record PROVE InLoop
<1>1. UNCHANGED <<file_name, term_flag>> /\ pc \in InClip
  BY DEF C_Record, Reading, signals, InClip
<1>2. ASSUME NEW f, f.at = frame', ~f.key \/ pc \in InClip, ReadFrame, pushFrames(f, file_name, FALSE),
             UNCHANGED <<has_an_iframe, key>>, Ready
      PROVE  Pushes
  BY <1>2 DEF Pushes
<1>3. Rests \/ Keeps \/ Pushes
  BY <1>1, <1>2 DEF C_Record, NextRound, Reading, Rests, Keeps, Ready, ReadError, Goto, Behind, InClip, IFrame, PFrame, held, clips, sdk, svars
<1>4. pc' \in InClip \/ (pc' \in Behind /\ (pc \in InClip => EndsFor))
  BY StatusIsTrouble DEF C_Record, NextRound, Reading, ReadError, Goto, Behind, InClip, EndsFor, Keep
<1> QED
  BY <1>1, <1>3, <1>4 DEF InLoop, InClip, Behind

LEMMA In_C_Sound == ASSUME C_Sound PROVE InLoop
<1>1. UNCHANGED <<file_name, term_flag>> /\ pc \in InClip
  BY DEF C_Sound, signals, InClip
<1>2. ASSUME NEW f, f.at = frame', ~f.key \/ pc \in InClip, ReadFrame, pushFrames(f, file_name, FALSE),
             UNCHANGED <<has_an_iframe, key>>, Ready
      PROVE  Pushes
  BY <1>2 DEF Pushes
<1>3. Rests \/ Keeps \/ Pushes
  BY <1>1, <1>2 DEF C_Sound, NextRound, Rests, Keeps, Ready, ReadError, Goto, Behind, InClip, IFrame, PFrame, held, clips, sdk, svars
<1>4. pc' \in InClip \/ (pc' \in Behind /\ (pc \in InClip => EndsFor))
  BY StatusIsTrouble DEF C_Sound, NextRound, ReadError, Goto, Behind, InClip, EndsFor, Keep
<1> QED
  BY <1>1, <1>3, <1>4 DEF InLoop, InClip, Behind

LEMMA In_C_Seek == ASSUME C_Seek PROVE InLoop
<1>1. UNCHANGED <<file_name, term_flag>> /\ pc \in InClip
  BY DEF C_Seek, Seeking, signals, InClip
<1>2. ASSUME NEW f, f.at = frame', ~f.key \/ pc \in InClip, ReadFrame, pushFrames(f, file_name, FALSE),
             UNCHANGED <<has_an_iframe, key>>, Ready
      PROVE  Pushes
  BY <1>2 DEF Pushes
<1>3. Rests \/ Keeps \/ Pushes
  BY <1>1, <1>2 DEF C_Seek, Seeking, Rests, Keeps, Ready, ReadError, Goto, Behind, InClip, IFrame, PFrame, held, clips, sdk, svars
<1>4. pc' \in InClip \/ (pc' \in Behind /\ (pc \in InClip => EndsFor))
  BY StatusIsTrouble DEF C_Seek, Seeking, ReadError, Goto, Behind, InClip, EndsFor, Keep
<1> QED
  BY <1>1, <1>3, <1>4 DEF InLoop, InClip, Behind

LEMMA In_C_MemoryBack == ASSUME C_MemoryBack PROVE InLoop
<1>1. UNCHANGED <<file_name, term_flag, clips, sdk, frame, has_an_iframe, key, trouble>>
  BY DEF C_MemoryBack, svars, rvars, signals, held
<1> QED
  BY <1>1 DEF C_MemoryBack, InLoop, Rests, Ready, Goto, InClip

LEMMA In_C_DrainSound == ASSUME C_DrainSound PROVE InLoop
<1>1. UNCHANGED <<file_name, term_flag>> /\ pc = "drain" /\ pc' \in Behind
  BY DEF C_DrainSound, signals, Goto, Behind
<1>2. ASSUME NEW f, f.at = frame', ~f.key, ReadFrame, pushFrames(f, file_name, FALSE),
             UNCHANGED <<has_an_iframe, key>>, Ready
      PROVE  Pushes
  BY <1>2 DEF Pushes
<1>3. Rests \/ Pushes
  <2>1. CASE ReadFrame /\ ~term_flag /\ pushFrames(PFrame(frame'), file_name, FALSE) /\ UNCHANGED held
    <3>1. PFrame(frame').at = frame' /\ ~PFrame(frame').key
      BY DEF PFrame
    <3> QED
      BY <1>2, <2>1, <3>1 DEF Ready, held
  <2>2. CASE UNCHANGED <<clips, sdk, frame, held>> /\ (~trouble' => ~trouble)
    BY <1>1, <2>2 DEF Rests, held
  <2>3. UNCHANGED held
    BY DEF C_DrainSound
  <2>4. \/ UNCHANGED <<svars, frame>>
        \/ ReadError /\ UNCHANGED <<clips, sdk, frame>>
        \/ ReadFrame /\ ~term_flag /\ pushFrames(PFrame(frame'), file_name, FALSE)
    BY Zenon DEF C_DrainSound
  <2>5. UNCHANGED svars => UNCHANGED <<clips, sdk>> /\ (~trouble' => ~trouble)
    BY DEF svars
  <2>6. ReadError => trouble'
    BY DEF ReadError
  <2> QED
    BY <2>1, <2>2, <2>3, <2>4, <2>5, <2>6
<1> QED
  BY <1>1, <1>3 DEF InLoop

\* All of them.
Loops == R_Record \/ R_Seek \/ C_Record \/ C_Sound \/ C_MemoryBack \/ C_Seek \/ C_DrainSound

LEMMA LoopsIn == ASSUME Loops PROVE InLoop
BY In_R_Record, In_R_Seek, In_C_Record, In_C_Sound, In_C_MemoryBack, In_C_Seek, In_C_DrainSound DEF Loops

-----------------------------------------------------------------------------
(* Timecodes lead to the right clip. *)

\* Names and timecodes are of frames that were read; an I frame that is kept is newer than every
\* fragment, and without one the last key is the name of the clip.
Timecodes ==
  /\ clipmapwithtimecode \subseteq [at : Nat, clip : Nat] /\ fragments \subseteq [at : Nat, clip : Nat]
  /\ frame \in Nat /\ key \in 0..frame /\ file_name \in Nat
  /\ \A e \in clipmapwithtimecode : e.at <= frame
  /\ \A f \in fragments : 0 < f.at /\ f.at <= frame /\ (f.at = frame => f.clip = file_name)
  /\ IF has_an_iframe THEN key > 0 /\ \A f \in fragments : f.at < key ELSE key = file_name
  /\ ReportsTruthful

\* The map has no timecode of an I frame that is kept.
KeyIsNew == has_an_iframe => \A e \in clipmapwithtimecode : e.at # key

\* Before its push an I frame that opens its clip is not in the map; nor is one kept while the end of
\* the clip before is still to come.
Kept ==
  /\ first_frame => KeyIsNew
  /\ pc \in {"drain", "finish"} => KeyIsNew
  /\ pc \in InClip => ~has_an_iframe

ReportInv == Timecodes /\ Kept

\* The maps only ever hold what they held, and the clip that is opened.
LEMMA Opened ==
  ASSUME NEW at, NEW c, NEW eof, OpenClip(at, c, eof)
  PROVE  \/ /\ ~first_frame /\ UNCHANGED clipmapwithtimecode
         \/ /\ first_frame /\ first_frame' = FALSE
            /\ clipmapwithtimecode' \subseteq clipmapwithtimecode \cup {[at |-> at, clip |-> c]}
BY DEF OpenClip, Remember

\* put_frame
LEMMA Put ==
  ASSUME NEW f, NEW c, NEW put, put_frame(f, c, put)
  PROVE  \/ UNCHANGED fragments
         \/ first_frame /\ f.key /\ fragments' = fragments \cup {[at |-> f.at, clip |-> c]}
BY DEF put_frame

\* What a frame of the clip changes, when it is the newest one.
LEMMA FreshPush ==
  ASSUME Timecodes, ReadFrame, NEW f, f.at = frame', f.key => ~has_an_iframe,
         pushFrames(f, file_name, FALSE), UNCHANGED <<has_an_iframe, key, file_name>>
  PROVE  Timecodes' /\ (KeyIsNew => KeyIsNew') /\ (first_frame' => first_frame)
<1>1. frame \in Nat /\ frame' = frame + 1 /\ file_name \in Nat /\ key \in 0..frame
  BY DEF ReadFrame, Timecodes
<1> DEFINE new == [at |-> frame', clip |-> file_name]
<1>2. /\ clipmapwithtimecode' \subseteq clipmapwithtimecode \cup {new}
      /\ fragments' = fragments \/ (f.key /\ fragments' = fragments \cup {new})
      /\ first_frame' => first_frame
  <2>1. CASE UNCHANGED <<clips, sdk, times>>
    BY <2>1 DEF clips, sdk
  <2>2. CASE \E put \in BOOLEAN : OpenClip(f.at, file_name, FALSE) /\ put_frame(f, file_name, put)
    <3>1. PICK put \in BOOLEAN : OpenClip(frame', file_name, FALSE) /\ put_frame(f, file_name, put)
      BY <2>2
    <3>2. clipmapwithtimecode' \subseteq clipmapwithtimecode \cup {new} /\ (first_frame' => first_frame)
      BY <3>1 DEF OpenClip, Remember
    <3>3. fragments' = fragments \/ (f.key /\ fragments' = fragments \cup {new})
      BY <3>1, Put
    <3> QED
      BY <3>2, <3>3
  <2> QED
    BY <2>1, <2>2, FramePushed
<1>3. new \in [at : Nat, clip : Nat] /\ new.at = frame + 1 /\ new.clip = file_name
  BY <1>1
<1>4. PICK n \in [at : Nat, clip : Nat] : n = new
  BY <1>3
<1>5. n.at = frame + 1 /\ n.clip = file_name
  BY <1>3, <1>4
<1>6. /\ clipmapwithtimecode' \subseteq clipmapwithtimecode \cup {n}
      /\ fragments' \subseteq fragments \cup {n} /\ (has_an_iframe => fragments' = fragments)
  BY <1>2, <1>4
<1> HIDE DEF new
<1>7. ReportsTruthful'
  <2> SUFFICES ASSUME NEW g \in fragments', NEW e \in clipmapwithtimecode', e.at = g.at
               PROVE  e.clip = g.clip
    BY DEF ReportsTruthful
  <2>1. \A h \in fragments \cup clipmapwithtimecode : h.at \in Nat /\ h.at <= frame
    BY DEF Timecodes
  <2>2. (g \in fragments /\ e \in clipmapwithtimecode) \/ (g = n /\ e = n)
    BY <1>1, <1>5, <1>6, <2>1
  <2> QED
    BY <2>2 DEF Timecodes, ReportsTruthful
<1>8. /\ \A e \in clipmapwithtimecode' : e.at <= frame'
      /\ \A g \in fragments' : 0 < g.at /\ g.at <= frame' /\ (g.at = frame' => g.clip = file_name')
  BY <1>1, <1>5, <1>6 DEF Timecodes
<1>9. /\ clipmapwithtimecode' \subseteq [at : Nat, clip : Nat] /\ fragments' \subseteq [at : Nat, clip : Nat]
  BY <1>6 DEF Timecodes
<1>10. IF has_an_iframe' THEN key' > 0 /\ \A g \in fragments' : g.at < key' ELSE key' = file_name'
  BY <1>6 DEF Timecodes
<1>11. KeyIsNew => KeyIsNew'
  BY <1>1, <1>5, <1>6 DEF KeyIsNew
<1> QED
  BY <1>1, <1>2, <1>7, <1>8, <1>9, <1>10, <1>11 DEF Timecodes

\* The I frame that was kept opens its clip.
LEMMA KeyPush ==
  ASSUME Timecodes, first_frame => KeyIsNew, has_an_iframe, pushFrames(IFrame(key), key, FALSE),
         file_name' = key, has_an_iframe' = (pushframestatus' = 1), UNCHANGED <<key, frame>>
  PROVE  Timecodes' /\ (has_an_iframe' => (first_frame' => KeyIsNew'))
<1>1. frame \in Nat /\ key \in 1..frame /\ (\A g \in fragments : g.at \in Nat /\ g.at < key)
  BY DEF Timecodes
<1>2. CASE pushframestatus' = 1
  <2>1. UNCHANGED <<clips, sdk>> /\ has_an_iframe'
    BY <1>2, FramePushed
  <2> QED
    BY <1>1, <2>1 DEF Timecodes, ReportsTruthful, KeyIsNew, clips, sdk
<1>3. CASE pushframestatus' # 1
  <2>1. PICK put \in BOOLEAN : OpenClip(key, key, FALSE) /\ put_frame(IFrame(key), key, put)
    BY <1>3, FramePushed DEF IFrame
  <2>2. PICK n \in [at : Nat, clip : Nat] : n = [at |-> key, clip |-> key]
    <3>1. key \in Nat
      BY <1>1
    <3>2. [at |-> key, clip |-> key] \in [at : Nat, clip : Nat]
      BY <3>1
    <3> QED
      BY <3>2
  <2>3. n.at = key /\ n.clip = key
    BY <2>2
  <2>4. \/ UNCHANGED fragments /\ clipmapwithtimecode' \subseteq clipmapwithtimecode
        \/ /\ first_frame /\ clipmapwithtimecode' \subseteq clipmapwithtimecode \cup {n}
           /\ fragments' \subseteq fragments \cup {n}
    BY <2>1, <2>2, Opened, Put DEF IFrame
  <2>5. ~has_an_iframe'
    BY <1>3
  <2>6. ReportsTruthful'
    <3>1. CASE UNCHANGED fragments /\ clipmapwithtimecode' \subseteq clipmapwithtimecode
      BY <3>1 DEF Timecodes, ReportsTruthful
    <3>2. CASE /\ first_frame /\ clipmapwithtimecode' \subseteq clipmapwithtimecode \cup {n}
               /\ fragments' \subseteq fragments \cup {n}
      <4>1. \A e \in clipmapwithtimecode : e.at # key
        BY <3>2 DEF KeyIsNew
      <4>2. \A g \in fragments : g.at # key
        BY <1>1
      <4> QED
        BY <3>2, <4>1, <4>2, <2>3 DEF Timecodes, ReportsTruthful
    <3> QED
      BY <2>4, <3>1, <3>2
  <2>7. /\ clipmapwithtimecode' \subseteq clipmapwithtimecode \cup {n}
        /\ fragments' \subseteq fragments \cup {n}
    BY <2>4
  <2>8. /\ \A e \in clipmapwithtimecode' : e.at <= frame'
        /\ \A g \in fragments' : 0 < g.at /\ g.at <= frame' /\ (g.at = frame' => g.clip = file_name')
    BY <1>1, <2>3, <2>7 DEF Timecodes
  <2>9. /\ clipmapwithtimecode' \subseteq [at : Nat, clip : Nat] /\ fragments' \subseteq [at : Nat, clip : Nat]
    BY <2>7 DEF Timecodes
  <2> QED
    BY <1>1, <2>5, <2>6, <2>8, <2>9 DEF Timecodes
<1> QED
  BY <1>2, <1>3

\* The end of a clip may be registered under the frame read last, in which case the next frame opens
\* no fragment.
LEMMA EndPush ==
  ASSUME Timecodes, KeyIsNew, pushFrames(PFrame(frame), file_name, TRUE),
         UNCHANGED <<has_an_iframe, key, file_name, frame>>
  PROVE  Timecodes' /\ (first_frame' => KeyIsNew')
<1> DEFINE at == IF USE_EPOCH THEN 0 ELSE PFrame(frame).at
<1>1. OpenClip(at, file_name, TRUE) /\ UNCHANGED fragments
  BY EndPushed DEF sdk
<1>2. at \in {0, frame} /\ frame \in Nat /\ file_name \in Nat
  BY DEF Timecodes, PFrame
<1> HIDE DEF at
<1>3. PICK n \in [at : Nat, clip : Nat] : n = [at |-> at, clip |-> file_name]
  <2>1. at \in Nat /\ file_name \in Nat
    BY <1>2
  <2>2. [at |-> at, clip |-> file_name] \in [at : Nat, clip : Nat]
    BY <2>1
  <2> QED
    BY <2>2
<1>4. n.at \in {0, frame} /\ n.clip = file_name
  BY <1>2, <1>3
<1>5. \/ UNCHANGED clipmapwithtimecode
      \/ ~first_frame' /\ clipmapwithtimecode' \subseteq clipmapwithtimecode \cup {n}
  BY <1>1, <1>3, Opened
<1>6. ReportsTruthful'
  <2> SUFFICES ASSUME NEW g \in fragments, NEW e \in clipmapwithtimecode', e.at = g.at
               PROVE  e.clip = g.clip
    BY <1>1 DEF ReportsTruthful
  <2>1. CASE e \in clipmapwithtimecode
    BY <2>1 DEF Timecodes, ReportsTruthful
  <2>2. CASE e = n
    BY <1>2, <1>4, <2>2 DEF Timecodes
  <2> QED
    BY <1>5, <2>1, <2>2
<1>7. /\ clipmapwithtimecode' \subseteq [at : Nat, clip : Nat]
      /\ \A e \in clipmapwithtimecode' : e.at <= frame'
  BY <1>2, <1>4, <1>5 DEF Timecodes
<1>8. first_frame' => KeyIsNew'
  BY <1>5 DEF KeyIsNew
<1> QED
  BY <1>1, <1>6, <1>7, <1>8 DEF Timecodes

\* The I frame of the next clip is kept.
LEMMA KeepStep ==
  ASSUME Timecodes, ReadFrame, Keep, UNCHANGED <<fragments, clipmapwithtimecode, file_name>>
  PROVE  Timecodes' /\ KeyIsNew'
BY DEF Timecodes, ReadFrame, Keep, KeyIsNew, ReportsTruthful

\* An acknowledgement only takes away.
LEMMA AckStep ==
  ASSUME Timecodes, Kept, FragmentAckReceivedHandler
  PROVE  Timecodes' /\ Kept'
<1>1. /\ fragments' \subseteq fragments /\ clipmapwithtimecode' \subseteq clipmapwithtimecode
      /\ UNCHANGED <<first_frame, pc, frame, key, has_an_iframe, file_name>>
  BY DEF FragmentAckReceivedHandler, FragmentPersisted, FragmentError, rvars, held
<1> QED
  BY <1>1 DEF Timecodes, Kept, KeyIsNew, ReportsTruthful

LEMMA ReportStep ==
  ASSUME ReportInv, [Next]_vars
  PROVE  ReportInv'
<1> USE DEF ReportInv
<1> DEFINE Same == UNCHANGED <<fragments, clipmapwithtimecode, first_frame, frame, key, has_an_iframe, file_name>>
<1>1. ASSUME Same, pc' \in {"drain", "finish"} => pc \in {"drain", "finish"} \/ ~has_an_iframe,
             pc' \in InClip => pc \in InClip \/ ~has_an_iframe
      PROVE  ReportInv'
  BY <1>1 DEF Timecodes, Kept, KeyIsNew, ReportsTruthful
<1>2. ASSUME ReadFrame, Keep, UNCHANGED <<clips, sdk, file_name>>, pc' \notin InClip
      PROVE  ReportInv'
  BY <1>2, KeepStep DEF Kept, clips, sdk
<1>3. ASSUME ReadFrame, NEW f, f.at = frame', f.key => ~has_an_iframe, pushFrames(f, file_name, FALSE),
             UNCHANGED <<has_an_iframe, key, file_name>>, pc \in InClip \/ (pc = "drain" /\ pc' \in {"drain", "finish"})
      PROVE  ReportInv'
  <2>1. Timecodes' /\ (KeyIsNew => KeyIsNew') /\ (first_frame' => first_frame)
    BY <1>3, FreshPush
  <2>2. CASE pc \in InClip
    BY <1>3, <2>1, <2>2 DEF Kept, KeyIsNew
  <2>3. CASE pc = "drain" /\ pc' \in {"drain", "finish"}
    BY <1>3, <2>1, <2>3 DEF Kept, InClip
  <2> QED
    BY <1>3, <2>2, <2>3
<1>4. CASE \/ R_KvsInit \/ R_Init \/ R_Reload \/ R_ClearReload \/ R_Top \/ R_Head \/ R_StreamInit \/ C_StreamInit
           \/ R_Begin \/ R_AudioChanged \/ R_StreamError
  <2>1. Same
    <3>1. CASE \/ R_KvsInit \/ R_Reload \/ R_ClearReload \/ R_Top \/ R_Head \/ R_StreamInit \/ C_StreamInit
               \/ R_Begin
      BY <3>1 DEF R_KvsInit, R_Reload, R_ClearReload, R_Top, R_Head, R_StreamInit, C_StreamInit, R_Begin,
         svars, clips, sdk, held, rvars
    <3>2. CASE R_Init \/ R_AudioChanged \/ R_StreamError
      BY <3>2 DEF R_Init, R_AudioChanged, R_StreamError, createkvsstream, clips, sdk, held
    <3> QED
      BY <1>4, <3>1, <3>2
  <2>2. pc' \notin {"drain", "finish"} /\ (pc' \in InClip => pc \in InClip)
    BY <1>4 DEF R_KvsInit, R_Init, R_Reload, R_ClearReload, R_Top, R_Head, R_StreamInit, C_StreamInit, R_Begin,
       R_AudioChanged, R_StreamError, createkvsstream, Goto, InClip
  <2> QED
    BY <1>1, <2>1, <2>2
<1>5. CASE R_WaitKeyFrame
  <2>1. UNCHANGED <<clips, sdk, file_name>> /\ pc' \in {"wait", "begin"}
    BY <1>5 DEF R_WaitKeyFrame, Goto
  <2>2. UNCHANGED <<held, frame>> \/ (ReadFrame /\ Keep) \/ (ReadFrame /\ UNCHANGED held)
    BY <1>5 DEF R_WaitKeyFrame
  <2>3. CASE ReadFrame /\ UNCHANGED held
    <3>1. frame' = frame + 1 /\ UNCHANGED <<first_frame, clipmapwithtimecode, fragments, has_an_iframe, key, file_name>>
      BY <2>1, <2>3 DEF ReadFrame, held, clips, sdk
    <3>2. \A x \in clipmapwithtimecode \cup fragments : x.at \in Nat /\ x.at <= frame
      BY DEF Timecodes
    <3>3. Timecodes'
      BY <3>1, <3>2 DEF Timecodes, ReportsTruthful
    <3>4. Kept'
      BY <2>1, <3>1 DEF Kept, KeyIsNew, InClip
    <3> QED
      BY <3>3, <3>4
  <2>4. CASE UNCHANGED <<held, frame>>
    BY <1>1, <2>1, <2>4 DEF held, clips, sdk, InClip
  <2> QED
    BY <1>2, <2>1, <2>2, <2>3, <2>4 DEF InClip
<1>6. CASE R_RecordEnds \/ R_Disabled \/ R_Search \/ cvr_close
  <2>1. Same
    BY <1>6 DEF R_RecordEnds, R_Disabled, R_Search, cvr_close, svars, clips, sdk, held, rvars
  <2>2. /\ pc' \notin {"drain", "finish"}
        /\ pc' \in InClip => pc \in InClip
    BY <1>6 DEF R_RecordEnds, R_Disabled, R_Search, cvr_close, Reading, Goto, InClip
  <2> QED
    BY <1>1, <2>1, <2>2
<1>7. CASE E_StreamError \/ E_Config \/ E_Audio \/ self_term \/ UNCHANGED vars
  <2>1. Same /\ pc' = pc
    BY <1>7 DEF E_StreamError, E_Config, E_Audio, self_term, streamErrorReportHandler, svars, clips, sdk, held, rvars, vars
  <2> QED
    BY <1>1, <2>1
<1>8. CASE R_StartClip \/ C_StartClip
  <2>1. pc \notin InClip /\ pc' \in {"close", "rec"} /\ file_name' = key /\ UNCHANGED <<key, frame>>
    BY <1>8 DEF R_StartClip, C_StartClip, Starting, Checked, Goto, InClip
  <2>2. CASE has_an_iframe
    <3>1. /\ pushFrames(IFrame(key), key, FALSE) /\ has_an_iframe' = (pushframestatus' = 1)
          /\ pc' = IF pushframestatus' = 1 THEN "close" ELSE "rec"
      BY <1>8, <2>2 DEF R_StartClip, C_StartClip, Goto
    <3>2. Timecodes' /\ (has_an_iframe' => (first_frame' => KeyIsNew'))
      BY <2>1, <2>2, <3>1, KeyPush DEF Kept
    <3> QED
      BY <3>1, <3>2 DEF Kept, KeyIsNew, InClip
  <2>3. CASE ~has_an_iframe
    <3>1. UNCHANGED <<svars, has_an_iframe>> /\ pc' = "rec"
      BY <1>8, <2>3 DEF R_StartClip, C_StartClip, Goto
    <3>2. file_name' = file_name
      BY <2>1, <2>3 DEF Timecodes
    <3> QED
      BY <1>1, <2>1, <2>3, <3>1, <3>2 DEF svars, clips, sdk, InClip
  <2> QED
    BY <2>2, <2>3
<1>9. CASE Loops
  <2>0. InLoop
    BY <1>9, LoopsIn
  <2>1. CASE Rests
    <3>1. Same
      BY <2>0, <2>1 DEF InLoop, Rests, clips, sdk
    <3>2. /\ pc' \in Behind => pc \in Behind \/ ~has_an_iframe
          /\ pc' \in InClip => pc \in InClip
      BY <2>0 DEF InLoop, Kept, InClip, Behind
    <3> QED
      BY <1>1, <3>1, <3>2 DEF Behind
  <2>2. CASE Keeps
    BY <1>2, <2>0, <2>2 DEF InLoop, Keeps, InClip, Behind
  <2>3. CASE Pushes
    <3>1. PICK f : /\ ReadFrame /\ f.at = frame' /\ (f.key => pc \in InClip)
                   /\ pushFrames(f, file_name, FALSE) /\ UNCHANGED <<has_an_iframe, key>>
      BY <2>3 DEF Pushes
    <3>2. pc \in InClip => ~has_an_iframe
      BY DEF Kept
    <3> QED
      BY <1>3, <2>0, <3>1, <3>2 DEF InLoop, Behind
  <2> QED
    BY <2>0, <2>1, <2>2, <2>3 DEF InLoop
<1>10. CASE R_Finish \/ C_Finish
  <2>1. pc' = "top" /\ pc \in Behind /\ UNCHANGED <<has_an_iframe, key, file_name, frame>>
    BY <1>10 DEF R_Finish, C_Finish, Goto, held, Behind
  <2>2. UNCHANGED svars \/ pushFrames(PFrame(frame), file_name, TRUE)
    BY <1>10 DEF R_Finish, C_Finish
  <2>3. CASE UNCHANGED svars
    BY <1>1, <2>1, <2>3 DEF svars, clips, sdk, InClip
  <2>4. CASE pushFrames(PFrame(frame), file_name, TRUE)
    <3>1. Timecodes' /\ (first_frame' => KeyIsNew')
      BY <2>1, <2>4, EndPush DEF Kept, Behind
    <3> QED
      BY <2>1, <3>1 DEF Kept, InClip
  <2> QED
    BY <2>2, <2>3, <2>4
<1> HIDE DEF Same, ReportInv
<1> QED
  BY <1>4, <1>5, <1>6, <1>7, <1>8, <1>9, <1>10, AckStep DEF Next, Daemon, Loops, ReportInv

\* A report of the upload of a clip is about the clip whose I frame opened the fragment, whichever
\* core, timecodes and number of clips remembered (FragmentAckReceivedHandler).
THEOREM ReportsAreTruthful == Spec => []ReportsTruthful
<1>1. Init => ReportInv
  BY DEF Init, StreamInit, ReportInv, Timecodes, Kept, KeyIsNew, ReportsTruthful
<1>2. ReportInv /\ [Next]_vars => ReportInv'
  BY ReportStep
<1>3. ReportInv => ReportsTruthful
  BY DEF ReportInv, Timecodes
<1> QED
  BY <1>1, <1>2, <1>3, PTL DEF Spec

-----------------------------------------------------------------------------
(* Every clip has its own fragments. *)

\* The first frame of the clip was its I frame.
ClipOpen == ~first_frame /\ opener = file_name

\* As long as nothing failed: the next clip starts with a first frame, and there is an I frame
\* kept to be it; in the loops the clip is open, unless SIGTERM has come before there was a frame.
Separate ==
  /\ ~mixed /\ ~local_stream_err
  /\ pc \in InClip \cup Behind => ClipOpen \/ (term_flag /\ pc \in {"rec", "search"} \cup Behind)
  /\ pc \in {"init", "stream", "clear_top", "head", "open", "wait", "begin", "error", "start"} => first_frame
  /\ pc = "top" => first_frame \/ term_flag
  /\ pc \in {"begin", "error", "start"} \cup Behind => has_an_iframe \/ term_flag
  /\ pc \in {"top", "clear_top", "head"} /\ init_flag => has_an_iframe \/ term_flag
  /\ pc \in {"init", "stream", "open"} => ~init_flag

SeparateInv == trouble \/ Separate

\* The I frame opens the fragment of its clip.
LEMMA KeyOpens ==
  ASSUME first_frame, pushFrames(IFrame(key), key, FALSE), ~trouble', file_name' = key, ~mixed
  PROVE  ClipOpen' /\ ~mixed' /\ pushframestatus' # 1
<1>1. /\ pushframestatus' # 1
      /\ \E put \in BOOLEAN : /\ OpenClip(IFrame(key).at, key, FALSE) /\ put_frame(IFrame(key), key, put)
                              /\ ~trouble' => ~trouble /\ put
  BY FramePushed
<1>2. PICK put \in BOOLEAN : OpenClip(IFrame(key).at, key, FALSE) /\ put_frame(IFrame(key), key, put) /\ put
  BY <1>1
<1>3. IFrame(key).key
  BY DEF IFrame
<1>4. opener' = key /\ mixed' = mixed
  BY <1>2, <1>3 DEF put_frame
<1>5. first_frame' = FALSE
  BY <1>2 DEF OpenClip
<1> QED
  BY <1>1, <1>4, <1>5 DEF ClipOpen

\* A later frame of the clip goes into a fragment of it.
LEMMA FrameStays ==
  ASSUME ClipOpen, NEW f, pushFrames(f, file_name, FALSE), ~trouble', UNCHANGED file_name, ~mixed
  PROVE  ClipOpen' /\ ~mixed'
<1>1. PICK put \in BOOLEAN : OpenClip(f.at, file_name, FALSE) /\ put_frame(f, file_name, put)
  BY FramePushed
<1>2. opener' = opener /\ ~mixed'
  BY <1>1 DEF put_frame, ClipOpen
<1>3. ~first_frame'
  BY <1>1 DEF OpenClip, ClipOpen
<1> QED
  BY <1>2, <1>3 DEF ClipOpen

\* Only a failed read sets local_stream_err in a loop.
LEMMA LoopErrors ==
  ASSUME Loops, ~local_stream_err, ~trouble'
  PROVE  ~local_stream_err'
<1>1. CASE R_Record \/ R_Seek
  BY <1>1 DEF R_Record, R_Seek, ReadError
<1>2. CASE C_Record \/ C_Sound
  BY <1>2 DEF C_Record, C_Sound, ReadError
<1>3. CASE C_Seek \/ C_DrainSound
  BY <1>3 DEF C_Seek, C_DrainSound, ReadError
<1>4. CASE C_MemoryBack
  BY <1>4 DEF C_MemoryBack, rvars, session
<1> QED
  BY <1>1, <1>2, <1>3, <1>4 DEF Loops

LEMMA LoopSeparate ==
  ASSUME Separate, Loops, ~trouble'
  PROVE  Separate'
<1>1. InLoop
  BY LoopsIn
<1>2. UNCHANGED <<file_name, term_flag>> /\ pc' \in InClip \cup Behind /\ pc \in InClip \cup Behind
  BY <1>1 DEF InLoop, Behind
<1>3. Ready => ClipOpen
  BY <1>2 DEF Separate, Ready, InClip, Behind
<1>4. ~mixed' /\ (ClipOpen' \/ (term_flag' /\ pc' \in Behind))
  <2>1. CASE Rests
    BY <1>2, <1>3, <2>1 DEF Rests, Separate, ClipOpen, clips, sdk
  <2>2. CASE Keeps
    BY <1>2, <2>2 DEF Keeps, Separate, ClipOpen, clips, sdk
  <2>3. CASE Pushes
    BY <1>2, <1>3, <2>3, FrameStays DEF Pushes, Separate
  <2> QED
    BY <1>1, <2>1, <2>2, <2>3 DEF InLoop
<1>5. pc' \in Behind => has_an_iframe' \/ term_flag'
  <2>1. CASE pc \in InClip
    <3>1. pc \notin Behind /\ pc # "drain"
      BY <2>1 DEF InClip, Behind
    <3>2. SUFFICES ASSUME pc' \in Behind PROVE has_an_iframe' \/ term_flag'
      OBVIOUS
    <3>3. pc' \notin InClip
      BY <3>2 DEF InClip, Behind
    <3>4. EndsFor
      BY <1>1, <3>1, <3>3 DEF InLoop
    <3> QED
      BY <1>2, <3>4 DEF EndsFor
  <2>2. CASE pc \in Behind
    <3>1. has_an_iframe \/ term_flag
      BY <2>2 DEF Separate
    <3>2. UNCHANGED has_an_iframe \/ has_an_iframe' = TRUE
      BY <1>1 DEF InLoop, Rests, Keeps, Pushes, Keep
    <3> QED
      BY <1>2, <3>1, <3>2
  <2> QED
    BY <1>2, <2>1, <2>2
<1>6. ~local_stream_err'
  BY LoopErrors DEF Separate
<1> QED
  BY <1>2, <1>4, <1>5, <1>6 DEF Separate, InClip, Behind

\* What a step that puts no frame leaves alone.
Calm == UNCHANGED <<first_frame, opener, mixed, file_name>>

\* At the head of the main loop.
LEMMA HeadSeparate ==
  ASSUME Separate, R_KvsInit \/ R_Reload \/ R_ClearReload \/ R_Top \/ R_Head \/ R_Begin
  PROVE  Separate'
<1>1. Calm /\ UNCHANGED <<has_an_iframe, term_flag>>
  BY DEF R_KvsInit, R_Reload, R_ClearReload, R_Top, R_Head, R_Begin, Calm, svars, clips, sdk, rvars, held, signals
<1>2. CASE R_Head
  <2>1. ~local_stream_err' /\ (init_flag' => init_flag)
    BY <1>2, Zenon DEF R_Head, Separate
  <2>2. /\ pc = "head" \/ (pc = "top" /\ ~term_flag)
        /\ pc' \in {"top", "begin", "open"}
        /\ pc' = "begin" => init_flag'
        /\ pc' = "open" => ~init_flag'
    BY <1>2 DEF R_Head, Goto
  <2>3. first_frame
    BY <2>2 DEF Separate
  <2>4. init_flag => has_an_iframe \/ term_flag
    BY <2>2 DEF Separate
  <2> QED
    BY <1>1, <2>1, <2>2, <2>3, <2>4 DEF Separate, Calm, InClip, Behind
<1>3. CASE R_KvsInit \/ R_Reload \/ R_ClearReload \/ R_Top
  <2>1. UNCHANGED <<local_stream_err, init_flag>>
    BY <1>3 DEF R_KvsInit, R_Reload, R_ClearReload, R_Top, rvars, session
  <2>2. \/ pc = "init" /\ pc' \in {"init", "stream", "close", "done"}
        \/ pc = "top" /\ ~term_flag /\ pc' = "clear_top"
        \/ pc = "clear_top" /\ pc' = "head"
        \/ pc = "rec" /\ ~term_flag /\ pc' = "clear_rec"
        \/ pc = "clear_rec" /\ pc' = "read"
        \/ pc = "top" /\ pc' = "close"
    BY <1>3 DEF R_KvsInit, R_Reload, R_ClearReload, R_Top, Goto
  <2> QED
    BY <1>1, <2>1, <2>2 DEF Separate, Calm, ClipOpen, InClip, Behind
<1>4. CASE R_Begin
  BY <1>4 DEF R_Begin, Separate
<1> QED
  BY <1>2, <1>3, <1>4

\* The session, and the first I frame.
LEMMA OpenSeparate ==
  ASSUME Separate, R_StreamInit \/ C_StreamInit \/ R_WaitKeyFrame, ~trouble'
  PROVE  Separate'
<1>1. Calm /\ UNCHANGED term_flag
  BY DEF R_StreamInit, C_StreamInit, R_WaitKeyFrame, Calm, svars, clips, sdk, signals
<1>2. CASE R_StreamInit \/ C_StreamInit
  <2>1. UNCHANGED local_stream_err /\ pc = "open"
    BY <1>2 DEF R_StreamInit, C_StreamInit
  <2>2. (pc' = "top" /\ UNCHANGED init_flag) \/ pc' = "wait"
    BY <1>2 DEF R_StreamInit, C_StreamInit, Goto
  <2>3. ~init_flag /\ first_frame /\ ~mixed /\ ~local_stream_err
    BY <2>1 DEF Separate
  <2>4. pc' \in {"top", "wait"} /\ (pc' = "top" => ~init_flag')
    BY <2>2, <2>3
  <2> QED
    BY <1>1, <2>1, <2>3, <2>4 DEF Separate, Calm, InClip, Behind
<1>3. CASE R_WaitKeyFrame
  <2>1. pc = "wait" /\ pc' \in {"wait", "begin"} /\ UNCHANGED local_stream_err
    BY <1>3 DEF R_WaitKeyFrame, Goto
  <2>2. pc' = "begin" => has_an_iframe' \/ term_flag'
    BY <1>1, <1>3, <2>1 DEF R_WaitKeyFrame, Keep, Goto
  <2> QED
    BY <1>1, <2>1, <2>2 DEF Separate, Calm, InClip, Behind
<1> QED
  BY <1>2, <1>3

\* Another stream.
LEMMA CreateSeparate ==
  ASSUME Separate, R_Init \/ R_AudioChanged \/ R_StreamError
  PROVE  Separate'
<1>1. Calm /\ UNCHANGED <<has_an_iframe, term_flag, init_flag, local_stream_err>>
  BY DEF R_Init, R_AudioChanged, R_StreamError, createkvsstream, clips, sdk, signals, held, session, Calm
<1>2. \/ pc = "stream" /\ pc' \in {"top", "close"}
      \/ pc \in {"begin", "error"} /\ pc' \in {"error", "start", "close"}
  BY DEF R_Init, R_AudioChanged, R_StreamError, Checked, createkvsstream, Goto
<1> QED
  BY <1>1, <1>2 DEF Separate, Calm, InClip, Behind

\* The clip starts.
LEMMA StartSeparate ==
  ASSUME Separate, R_StartClip \/ C_StartClip, ~trouble'
  PROVE  Separate'
<1>1. /\ pc \in {"begin", "error", "start"} /\ file_name' = key
      /\ UNCHANGED <<term_flag, local_stream_err>>
  BY DEF R_StartClip, C_StartClip, Starting, Checked, signals, session
<1>2. first_frame /\ (has_an_iframe \/ term_flag) /\ ~mixed /\ ~local_stream_err
  BY <1>1 DEF Separate
<1>3. CASE has_an_iframe
  <2>1. pushFrames(IFrame(key), key, FALSE) /\ (pushframestatus' # 1 => pc' = "rec")
    BY <1>3 DEF R_StartClip, C_StartClip, Goto
  <2>2. ClipOpen' /\ ~mixed' /\ pushframestatus' # 1
    BY <1>1, <1>2, <2>1, KeyOpens
  <2> QED
    BY <1>1, <1>2, <2>1, <2>2 DEF Separate, InClip, Behind
<1>4. CASE ~has_an_iframe
  <2>1. UNCHANGED mixed /\ pc' = "rec"
    BY <1>4 DEF R_StartClip, C_StartClip, Goto, svars, sdk
  <2> QED
    BY <1>1, <1>2, <1>4, <2>1 DEF Separate, InClip, Behind
<1> QED
  BY <1>3, <1>4

\* The end of the clip.
LEMMA EndSeparate ==
  ASSUME Separate, R_RecordEnds \/ R_Disabled \/ R_Search \/ R_Finish \/ C_Finish, ~trouble'
  PROVE  Separate'
<1>1. UNCHANGED <<local_stream_err, has_an_iframe, init_flag, file_name>> /\ (term_flag => term_flag')
  <2>1. CASE R_RecordEnds \/ R_Disabled
    BY <2>1 DEF R_RecordEnds, R_Disabled, session, held
  <2>2. CASE R_Search
    <3>1. UNCHANGED <<local_stream_err, has_an_iframe, init_flag, file_name, term_flag>>
      BY <2>2 DEF R_Search, session, rvars, held, signals
    <3> QED
      BY <3>1
  <2>3. CASE R_Finish \/ C_Finish
    <3>1. UNCHANGED <<local_stream_err, has_an_iframe, init_flag, file_name, term_flag>>
      BY <2>3 DEF R_Finish, C_Finish, session, held, signals
    <3> QED
      BY <3>1
  <2> QED
    BY <2>1, <2>2, <2>3
<1>2. CASE R_RecordEnds \/ R_Disabled \/ R_Search
  <2>1. Calm
    BY <1>2 DEF R_RecordEnds, R_Disabled, R_Search, Calm, svars, clips, sdk, rvars
  <2>2. \/ pc \in {"rec", "read"} /\ pc' = "search"
        \/ pc' = "close"
    BY <1>2 DEF R_RecordEnds, R_Disabled, R_Search, Reading, Goto
  <2> QED
    BY <1>1, <2>1, <2>2 DEF Separate, Calm, ClipOpen, InClip, Behind
<1>3. CASE R_Finish \/ C_Finish
  <2>1. pc \in Behind /\ pc' = "top" /\ UNCHANGED term_flag
    BY <1>3 DEF R_Finish, C_Finish, Behind, Goto, signals
  <2>2. (term_flag /\ UNCHANGED svars) \/ pushFrames(PFrame(frame), file_name, TRUE)
    BY <1>3 DEF R_Finish, C_Finish, Separate
  <2>3. UNCHANGED mixed /\ (first_frame' \/ term_flag')
    <3>1. CASE term_flag /\ UNCHANGED svars
      BY <2>1, <3>1 DEF svars, sdk
    <3>2. CASE pushFrames(PFrame(frame), file_name, TRUE)
      <4>1. PICK at : OpenClip(at, file_name, TRUE) /\ UNCHANGED sdk
        BY <3>2, EndPushed
      <4>2. ~first_frame \/ term_flag
        BY <2>1 DEF Separate, ClipOpen
      <4> QED
        BY <2>1, <4>1, <4>2 DEF OpenClip, sdk
    <3> QED
      BY <2>2, <3>1, <3>2
  <2>4. has_an_iframe \/ term_flag
    BY <2>1 DEF Separate
  <2> QED
    BY <1>1, <2>1, <2>3, <2>4 DEF Separate, InClip, Behind
<1> QED
  BY <1>2, <1>3

LEMMA SeparateStep ==
  ASSUME SeparateInv, [Next]_vars
  PROVE  SeparateInv'
<1> SUFFICES ASSUME ~trouble' PROVE Separate'
  BY DEF SeparateInv
<1>0. ASSUME ~trouble PROVE Separate
  BY <1>0 DEF SeparateInv
<1>1. CASE R_KvsInit \/ R_Reload \/ R_ClearReload \/ R_Top \/ R_Head \/ R_Begin
  <2>1. ~trouble
    BY <1>1 DEF R_KvsInit, R_Reload, R_ClearReload, R_Top, R_Head, R_Begin, svars
  <2> QED
    BY <1>0, <1>1, <2>1, HeadSeparate
<1>2. CASE R_StreamInit \/ C_StreamInit \/ R_WaitKeyFrame
  <2>1. ~trouble
    BY <1>2 DEF R_StreamInit, C_StreamInit, R_WaitKeyFrame, svars
  <2> QED
    BY <1>0, <1>2, <2>1, OpenSeparate
<1>3. CASE R_Init \/ R_AudioChanged \/ R_StreamError
  <2>1. ~trouble
    BY <1>3 DEF R_Init, R_AudioChanged, R_StreamError, createkvsstream
  <2> QED
    BY <1>0, <1>3, <2>1, CreateSeparate
<1>4. CASE R_StartClip \/ C_StartClip
  <2>1. UNCHANGED trouble \/ pushFrames(IFrame(key), key, FALSE)
    BY <1>4 DEF R_StartClip, C_StartClip, svars
  <2>2. ~trouble
    BY <2>1, FramePushed
  <2> QED
    BY <1>0, <1>4, <2>2, StartSeparate
<1>5. CASE Loops
  <2>1. InLoop
    BY <1>5, LoopsIn
  <2>2. ~trouble
    BY <2>1, FramePushed DEF InLoop, Rests, Keeps, Pushes
  <2> QED
    BY <1>0, <1>5, <2>2, LoopSeparate
<1>6. CASE R_RecordEnds \/ R_Disabled \/ R_Search \/ R_Finish \/ C_Finish
  <2>1. UNCHANGED trouble \/ pushFrames(PFrame(frame), file_name, TRUE)
    BY <1>6 DEF R_RecordEnds, R_Disabled, R_Search, R_Finish, C_Finish, svars
  <2>2. ~trouble
    BY <2>1, EndPushed
  <2> QED
    BY <1>0, <1>6, <2>2, EndSeparate
<1>7. CASE cvr_close
  <2>1. UNCHANGED <<mixed, local_stream_err, trouble>> /\ pc' = "done"
    BY <1>7 DEF cvr_close, svars, sdk, Goto
  <2> QED
    BY <1>0, <2>1 DEF Separate, InClip, Behind
<1>8. CASE E_StreamError \/ E_Config \/ E_Audio \/ self_term \/ UNCHANGED vars \/ FragmentAckReceivedHandler
  <2>1. /\ UNCHANGED <<pc, first_frame, opener, mixed, trouble, file_name, local_stream_err, init_flag, has_an_iframe>>
        /\ term_flag => term_flag'
    BY <1>8 DEF E_StreamError, E_Config, E_Audio, self_term, streamErrorReportHandler, vars,
                FragmentAckReceivedHandler, FragmentPersisted, FragmentError,
                svars, clips, sdk, rvars, session, held, signals
  <2> QED
    BY <1>0, <2>1 DEF Separate, ClipOpen
<1> QED
  BY <1>1, <1>2, <1>3, <1>4, <1>5, <1>6, <1>7, <1>8 DEF Next, Daemon, Loops

\* As long as nothing failed, no frame goes into the fragment of another clip, whichever loop of
\* do_cvr hands over and whatever SIGTERM cuts short.
THEOREM FragmentsAreSeparate == Spec => []FragmentsSeparate
<1>1. Init => SeparateInv
  BY DEF Init, StreamInit, SeparateInv, Separate, InClip, Behind
<1>2. SeparateInv /\ [Next]_vars => SeparateInv'
  BY SeparateStep
<1>3. SeparateInv => FragmentsSeparate
  BY DEF SeparateInv, Separate, FragmentsSeparate
<1> QED
  BY <1>1, <1>2, <1>3, PTL DEF Spec

-----------------------------------------------------------------------------
(* Types. *)

\* The maps stay within their limit because they are finite; frames are refused up to the limit
\* without the flag.
Streams ==
  /\ StreamTypeOK
  /\ IsFiniteSet(clipmapwithtimecode) /\ IsFiniteSet(clipmapwithrealtime)
  /\ frame_dropped_flag \/ frame_dropped_count <= CVR_THRESHHOLD_FRAMEDROP

LEMMA StreamsStay == ASSUME Streams, UNCHANGED svars PROVE Streams'
BY DEF Streams, StreamTypeOK, svars, handle, drops, clips, times, sdk

\* A map emptied when it is full has room for one more.
LEMMA Room ==
  ASSUME NEW S, IsFiniteSet(S), Cardinality(S) <= CVR_THRESHHOLD_COUNT, NEW e,
         NEW old, old = IF Cardinality(S) = CVR_THRESHHOLD_COUNT THEN {} ELSE S
  PROVE  /\ IsFiniteSet(old \cup {e}) /\ Cardinality(old \cup {e}) <= CVR_THRESHHOLD_COUNT
         /\ IsFiniteSet(old) /\ Cardinality(old) <= CVR_THRESHHOLD_COUNT
<1> USE StreamAssumption
<1>1. IsFiniteSet(old) /\ Cardinality(old) \in Nat /\ Cardinality(old) < CVR_THRESHHOLD_COUNT
  <2>1. CASE Cardinality(S) = CVR_THRESHHOLD_COUNT
    BY <2>1, FS_EmptySet
  <2>2. CASE Cardinality(S) # CVR_THRESHHOLD_COUNT
    BY <2>2, FS_CardinalityType
  <2> QED
    BY <2>1, <2>2
<1>2. IsFiniteSet(old \cup {e}) /\ Cardinality(old \cup {e}) <= Cardinality(old) + 1
  BY <1>1, FS_AddElement
<1>3. Cardinality(old \cup {e}) \in Nat
  BY <1>2, FS_CardinalityType
<1> QED
  BY <1>1, <1>2, <1>3

\* A part of a map is within the limit, too.
LEMMA Part ==
  ASSUME NEW S, IsFiniteSet(S), Cardinality(S) <= CVR_THRESHHOLD_COUNT, NEW T, T \subseteq S
  PROVE  IsFiniteSet(T) /\ Cardinality(T) <= CVR_THRESHHOLD_COUNT
<1>1. IsFiniteSet(T) /\ Cardinality(T) <= Cardinality(S)
  BY FS_Subset
<1>2. Cardinality(T) \in Nat /\ Cardinality(S) \in Nat
  BY <1>1, FS_CardinalityType
<1> QED
  BY <1>1, <1>2, StreamAssumption

\* What clips hold once a frame was there.
ClipTypes ==
  /\ first_frame \in BOOLEAN
  /\ clipmapwithtimecode \subseteq [at : Nat, clip : Nat]
  /\ IsFiniteSet(clipmapwithtimecode) /\ Cardinality(clipmapwithtimecode) <= CVR_THRESHHOLD_COUNT
  /\ IsFiniteSet(clipmapwithrealtime) /\ Cardinality(clipmapwithrealtime) <= CVR_THRESHHOLD_COUNT

LEMMA OpenTypes ==
  ASSUME ClipTypes, NEW at \in Nat, NEW clip \in Nat, NEW isEOF \in BOOLEAN, OpenClip(at, clip, isEOF)
  PROVE  ClipTypes'
<1>1. CASE ~first_frame
  BY <1>1 DEF OpenClip, ClipTypes
<1>2. CASE first_frame
  <2> DEFINE e     == [at |-> at, clip |-> clip]
             old   == IF Cardinality(clipmapwithtimecode) = CVR_THRESHHOLD_COUNT THEN {} ELSE clipmapwithtimecode
             names == IF Cardinality(clipmapwithrealtime) = CVR_THRESHHOLD_COUNT THEN {} ELSE clipmapwithrealtime
  <2>1. /\ clipmapwithtimecode' = old \/ clipmapwithtimecode' = old \cup {e}
        /\ clipmapwithrealtime' = names \cup {clip} /\ first_frame' = FALSE
    BY <1>2 DEF OpenClip, Remember
  <2>2. /\ IsFiniteSet(old \cup {e}) /\ Cardinality(old \cup {e}) <= CVR_THRESHHOLD_COUNT
        /\ IsFiniteSet(old) /\ Cardinality(old) <= CVR_THRESHHOLD_COUNT
    BY Room DEF ClipTypes
  <2>3. IsFiniteSet(names \cup {clip}) /\ Cardinality(names \cup {clip}) <= CVR_THRESHHOLD_COUNT
    BY Room DEF ClipTypes
  <2>4. e \in [at : Nat, clip : Nat] /\ old \subseteq [at : Nat, clip : Nat]
    BY DEF ClipTypes
  <2> HIDE DEF e, old, names
  <2> QED
    BY <2>1, <2>2, <2>3, <2>4 DEF ClipTypes
<1> QED
  BY <1>1, <1>2 DEF ClipTypes

\* Times that stay, or are those of an acknowledgement.
LEMMA TimesTypes ==
  /\ PersistedNow => unacked' \in 0..LongAgo + 1 /\ persisted' \in BOOLEAN
  /\ (UNCHANGED times /\ unacked \in 0..LongAgo + 1 /\ persisted \in BOOLEAN)
       => unacked' \in 0..LongAgo + 1 /\ persisted' \in BOOLEAN
<1>1. LongAgo + 1 \in Nat
  BY StreamAssumption DEF LongAgo
<1>2. PersistedNow => unacked' = 0 /\ persisted' = TRUE
  BY DEF PersistedNow
<1>3. UNCHANGED times => UNCHANGED <<unacked, persisted>>
  BY DEF times
<1>4. 0 \in 0..LongAgo + 1
  BY <1>1
<1> QED
  BY <1>2, <1>3, <1>4, Zenon

\* The parts the types of the stream's state are put together from.
LEMMA StreamParts ==
  ASSUME ClipTypes', fragments' \subseteq [at : Nat, clip : Nat], mixed' \in BOOLEAN,
         unacked' \in 0..LongAgo + 1, persisted' \in BOOLEAN,
         frame_dropped_count' \in 0..CVR_THRESHHOLD_FRAMEDROP + 1, frame_dropped_flag' \in BOOLEAN,
         frame_dropped_flag' \/ frame_dropped_count' <= CVR_THRESHHOLD_FRAMEDROP,
         kinesis_video_stream' \in BOOLEAN, stream_started' \in BOOLEAN,
         isstreamerror_reported' \in BOOLEAN, trouble' \in BOOLEAN
  PROVE  Streams'
BY DEF Streams, StreamTypeOK, ClipTypes

LEMMA PushTypes ==
  ASSUME Streams, Bounded, iskvsStreamInitDone \in BOOLEAN, NEW f, f.at \in Nat, NEW clip \in Nat,
         NEW isEOF \in BOOLEAN, pushFrames(f, clip, isEOF)
  PROVE  Streams' /\ pushframestatus' \in {-1, 0, 1} /\ iskvsStreamInitDone' \in BOOLEAN
<1> USE StreamAssumption
<1>1. PICK ret \in {-1, 0, 1} : /\ kvsUploadFrames(f, clip, isEOF, ret) /\ pushframestatus' = ret
                                /\ iskvsStreamInitDone' = (iskvsStreamInitDone /\ ret # 1)
  BY DEF pushFrames
<1>2. ClipTypes
  BY DEF Streams, StreamTypeOK, ClipTypes
<1>3. \/ Upload_Fail(FALSE)
      \/ \E put \in BOOLEAN : Upload_Frame(f, clip, put)
      \/ \E reset \in BOOLEAN : Upload_End(f, clip, reset)
  BY <1>1 DEF kvsUploadFrames
<1>4. ASSUME Upload_Fail(FALSE) PROVE Streams'
  <2>1. UNCHANGED <<handle, clips, times, sdk>> /\ trouble' = TRUE
    BY <1>4 DEF Upload_Fail
  <2>2. isstreamerror_reported' \in {FALSE, isstreamerror_reported}
    BY <1>4 DEF Upload_Fail
  <2>3. UNCHANGED drops \/ (frame_dropped_flag' = FALSE /\ frame_dropped_count' = 0)
    BY <1>4 DEF Upload_Fail
  <2>4. /\ frame_dropped_count' \in 0..CVR_THRESHHOLD_FRAMEDROP + 1 /\ frame_dropped_flag' \in BOOLEAN
        /\ frame_dropped_flag' \/ frame_dropped_count' <= CVR_THRESHHOLD_FRAMEDROP
    <3>1. CASE UNCHANGED drops
      BY <3>1, Zenon DEF drops, Streams, StreamTypeOK
    <3>2. CASE frame_dropped_flag' = FALSE /\ frame_dropped_count' = 0
      <4>1. 0 \in 0..CVR_THRESHHOLD_FRAMEDROP + 1 /\ 0 <= CVR_THRESHHOLD_FRAMEDROP
        OBVIOUS
      <4> QED
        BY <3>2, <4>1, Zenon
    <3> QED
      BY <2>3, <3>1, <3>2
  <2>5. /\ UNCHANGED <<kinesis_video_stream, stream_started, first_frame, clipmapwithtimecode, clipmapwithrealtime>>
        /\ UNCHANGED <<unacked, persisted, fragments, opener, mixed>>
    BY <2>1 DEF handle, clips, times, sdk
  <2>6. ClipTypes'
    BY <2>5, Zenon DEF Streams, StreamTypeOK, ClipTypes
  <2>7. fragments' \subseteq [at : Nat, clip : Nat] /\ mixed' \in BOOLEAN
    BY <2>5, Zenon DEF Streams, StreamTypeOK
  <2>8. unacked' \in 0..LongAgo + 1 /\ persisted' \in BOOLEAN
    BY <2>5, Zenon DEF Streams, StreamTypeOK
  <2>9. /\ kinesis_video_stream' \in BOOLEAN /\ stream_started' \in BOOLEAN
        /\ isstreamerror_reported' \in BOOLEAN /\ trouble' \in BOOLEAN
    <3>1. isstreamerror_reported' \in BOOLEAN /\ trouble' \in BOOLEAN
      BY <2>1, <2>2, Zenon DEF Streams, StreamTypeOK
    <3> QED
      BY <3>1, <2>5, Zenon DEF Streams, StreamTypeOK
  <2> QED
    BY <2>4, <2>6, <2>7, <2>8, <2>9, StreamParts
<1>5. ASSUME NEW put \in BOOLEAN, Upload_Frame(f, clip, put) PROVE Streams'
  <2>1. ClipTypes'
    BY <1>2, <1>5, OpenTypes DEF Upload_Frame
  <2>2. fragments' \subseteq [at : Nat, clip : Nat] /\ mixed' \in BOOLEAN
    <3>1. put_frame(f, clip, put)
      BY <1>5 DEF Upload_Frame
    <3>2. [at |-> f.at, clip |-> clip] \in [at : Nat, clip : Nat]
      OBVIOUS
    <3> QED
      BY <3>1, <3>2 DEF put_frame, Streams, StreamTypeOK
  <2>3. unacked' \in 0..LongAgo + 1 /\ persisted' \in BOOLEAN
    <3>1. UNCHANGED times \/ PersistedNow
      BY <1>5 DEF Upload_Frame, reset_stream
    <3> QED
      BY <3>1, TimesTypes DEF Streams, StreamTypeOK
  <2>4. /\ frame_dropped_count' \in 0..CVR_THRESHHOLD_FRAMEDROP + 1 /\ frame_dropped_flag' \in BOOLEAN
        /\ frame_dropped_flag' \/ frame_dropped_count' <= CVR_THRESHHOLD_FRAMEDROP
    <3>1. PICK count \in 0..CVR_THRESHHOLD_FRAMEDROP + 1 :
               frame_dropped_count' = count /\ frame_dropped_flag' = (count > CVR_THRESHHOLD_FRAMEDROP)
      <4> DEFINE count == IF put THEN 0 ELSE (IF frame_dropped_flag THEN 0 ELSE frame_dropped_count) + 1
      <4>1. count \in 0..CVR_THRESHHOLD_FRAMEDROP + 1
        BY DEF Streams, StreamTypeOK
      <4>2. frame_dropped_count' = count /\ frame_dropped_flag' = (count > CVR_THRESHHOLD_FRAMEDROP)
        BY <1>5 DEF Upload_Frame
      <4> QED
        BY <4>1, <4>2
    <3>2. frame_dropped_flag' \in BOOLEAN
      <4>1. (count > CVR_THRESHHOLD_FRAMEDROP) \in BOOLEAN
        OBVIOUS
      <4> QED
        BY <3>1, <4>1, Zenon
    <3>3. frame_dropped_flag' \/ frame_dropped_count' <= CVR_THRESHHOLD_FRAMEDROP
      <4>1. CASE count > CVR_THRESHHOLD_FRAMEDROP
        BY <3>1, <4>1, Zenon
      <4>2. CASE ~(count > CVR_THRESHHOLD_FRAMEDROP)
        <5>1. count <= CVR_THRESHHOLD_FRAMEDROP
          BY <4>2
        <5> QED
          BY <3>1, <5>1, Zenon
      <4> QED
        BY <4>1, <4>2
    <3>4. frame_dropped_count' \in 0..CVR_THRESHHOLD_FRAMEDROP + 1
      BY <3>1
    <3> QED
      BY <3>2, <3>3, <3>4, Zenon
  <2>5. /\ kinesis_video_stream' \in BOOLEAN /\ stream_started' \in BOOLEAN
        /\ isstreamerror_reported' \in BOOLEAN /\ trouble' \in BOOLEAN
    BY <1>5 DEF Upload_Frame, Streams, StreamTypeOK
  <2> QED
    BY <2>1, <2>2, <2>3, <2>4, <2>5 DEF Streams, StreamTypeOK, ClipTypes
<1>6. ASSUME NEW reset \in BOOLEAN, Upload_End(f, clip, reset) PROVE Streams'
  <2>1. ClipTypes'
    <3>1. (IF USE_EPOCH THEN 0 ELSE f.at) \in Nat
      OBVIOUS
    <3> QED
      BY <1>2, <1>6, <3>1, OpenTypes DEF Upload_End
  <2>2. unacked' \in 0..LongAgo + 1 /\ persisted' \in BOOLEAN
    <3>1. \/ PersistedNow
          \/ unacked' = (IF ~persisted /\ unacked = 0 THEN LongAgo ELSE unacked + 1) /\ UNCHANGED persisted
      BY <1>6 DEF Upload_End
    <3>2. unacked \in Nat /\ persisted \in BOOLEAN
      BY DEF Streams, StreamTypeOK
    <3> QED
      BY <3>1, <3>2, TimesTypes DEF Bounded, LongAgo
  <2>3. /\ frame_dropped_flag' \in BOOLEAN /\ UNCHANGED frame_dropped_count
        /\ frame_dropped_flag' \/ frame_dropped_count' <= CVR_THRESHHOLD_FRAMEDROP
    BY <1>6 DEF Upload_End, Streams, StreamTypeOK
  <2>4. UNCHANGED <<handle, isstreamerror_reported, sdk>> /\ trouble' \in BOOLEAN
    BY <1>6 DEF Upload_End, Streams, StreamTypeOK
  <2> QED
    BY <2>1, <2>2, <2>3, <2>4 DEF Streams, StreamTypeOK, ClipTypes, handle, sdk
<1> QED
  BY <1>1, <1>3, <1>4, <1>5, <1>6

LEMMA CreateTypes ==
  ASSUME Streams, NEW flag \in {0, 1}, NEW next, createkvsstream(flag, next)
  PROVE  Streams' /\ iskvsStreamInitDone' \in BOOLEAN /\ pc' \in {next, "close"}
<1>1. PICK ok \in BOOLEAN : /\ kvsStreamInit(flag, ok) /\ iskvsStreamInitDone' = ok
                            /\ Goto(IF ok THEN next ELSE "close")
                            /\ UNCHANGED <<isstreamerror_reported, drops, clips, sdk, trouble>>
  BY DEF createkvsstream
<1>2. /\ kinesis_video_stream' \in BOOLEAN /\ stream_started' \in BOOLEAN
      /\ UNCHANGED times \/ PersistedNow
  BY <1>1 DEF kvsStreamInit, recreate_stream, kinesisVideoStreamInit, kinesisVideoStreamUninit, Streams, StreamTypeOK, times
<1>3. unacked' \in 0..LongAgo + 1 /\ persisted' \in BOOLEAN
  BY <1>2, TimesTypes DEF Streams, StreamTypeOK
<1>4. Streams'
  BY <1>1, <1>2, <1>3 DEF Streams, StreamTypeOK, drops, clips, sdk
<1> QED
  BY <1>1, <1>4 DEF Goto

\* The types of the rest, without the status of the push.
Modes ==
  /\ core \in {"osi", "older"} /\ retry \in 0..KVSINITMAXRETRY + 1
  /\ pc \in {"init", "stream", "top", "clear_top", "head", "open", "wait", "begin", "error", "start",
             "rec", "clear_rec", "read", "sound", "lowmem", "search", "seek", "seek_sound", "drain", "finish",
             "close", "done"}
  /\ pc = "init" => retry <= KVSINITMAXRETRY

Flags ==
  /\ term_flag \in BOOLEAN /\ reload_cvr_flag \in BOOLEAN /\ enabled \in BOOLEAN
  /\ iscvrenabled \in BOOLEAN /\ rfc \in BOOLEAN /\ kvsclip_audio \in BOOLEAN
  /\ lenableaudio \in BOOLEAN /\ audio \in BOOLEAN /\ init_flag \in BOOLEAN
  /\ local_stream_err \in BOOLEAN /\ has_an_iframe \in BOOLEAN /\ over \in BOOLEAN

Frames == frame \in 0..MaxFrames /\ key \in 0..MaxFrames /\ file_name \in 0..MaxFrames

Controls == Modes /\ Flags /\ Frames

Statuses == pushframestatus \in {-1, 0, 1} /\ iskvsStreamInitDone \in BOOLEAN

TypeInv == Streams /\ Controls /\ Statuses

LEMMA ModesStep ==
  ASSUME Modes, [Next]_vars
  PROVE  Modes'
<1> USE UploadAssumption DEF Modes
<1>1. CASE R_KvsInit
  BY <1>1 DEF R_KvsInit, Goto
<1>2. CASE R_Init \/ R_AudioChanged \/ R_StreamError
  BY <1>2 DEF R_Init, R_AudioChanged, R_StreamError, createkvsstream, Goto
<1>3. CASE R_Reload \/ R_ClearReload \/ R_Top \/ R_Head
  BY <1>3 DEF R_Reload, R_ClearReload, R_Top, R_Head, Goto, rvars
<1>4. CASE R_StreamInit \/ C_StreamInit \/ R_WaitKeyFrame
  BY <1>4 DEF R_StreamInit, C_StreamInit, R_WaitKeyFrame, Goto
<1>5. CASE R_Begin \/ R_Search \/ R_RecordEnds \/ R_Disabled
  BY <1>5 DEF R_Begin, R_Search, R_RecordEnds, R_Disabled, Goto, rvars
<1>6. CASE R_StartClip \/ C_StartClip \/ R_Finish \/ C_Finish \/ cvr_close
  BY <1>6 DEF R_StartClip, C_StartClip, R_Finish, C_Finish, cvr_close, Goto
<1>7. CASE R_Record \/ R_Seek \/ C_Record
  BY <1>7 DEF R_Record, R_Seek, C_Record, NextRound, Goto
<1>8. CASE C_Sound \/ C_MemoryBack \/ C_Seek \/ C_DrainSound
  BY <1>8 DEF C_Sound, NextRound, C_MemoryBack, rvars, C_Seek, C_DrainSound, Goto
<1>9. CASE E_StreamError \/ FragmentAckReceivedHandler \/ E_Config \/ E_Audio \/ self_term \/ UNCHANGED vars
  BY <1>9 DEF E_StreamError, FragmentAckReceivedHandler, E_Config, E_Audio, self_term, vars, rvars
<1> QED
  BY <1>1, <1>2, <1>3, <1>4, <1>5, <1>6, <1>7, <1>8, <1>9 DEF Next, Daemon

LEMMA FlagsStep ==
  ASSUME Flags, [Next]_vars
  PROVE  Flags'
<1> USE DEF Flags
<1>1. CASE R_KvsInit \/ R_Init \/ R_AudioChanged \/ R_StreamError
  BY <1>1 DEF R_KvsInit, R_Init, R_AudioChanged, R_StreamError, signals, file, config, session, held
<1>2. CASE R_Reload \/ R_ClearReload
  <2>1. CASE R_Reload
    BY <2>1 DEF R_Reload, signals, file, session, held
  <2>2. CASE R_ClearReload
    BY <2>2 DEF R_ClearReload, file, config, session, held
  <2> QED
    BY <1>2, <2>1, <2>2
<1>3. CASE R_Head
  <2>1. audio' \in BOOLEAN /\ kvsclip_audio' \in BOOLEAN
    BY <1>3 DEF R_Head, cvr_check_audio, cvr_check_rfcparams, cvr_init_audio_stream
  <2>2. init_flag' \in BOOLEAN /\ local_stream_err' \in BOOLEAN
    BY <1>3 DEF R_Head
  <2> QED
    BY <1>3, <2>1, <2>2 DEF R_Head, signals, file, held
<1>4. CASE R_StreamInit \/ C_StreamInit
  <2>1. CASE R_StreamInit
    BY <2>1 DEF R_StreamInit, signals, file, config, held
  <2>2. CASE C_StreamInit
    BY <2>2 DEF C_StreamInit, cvr_init_audio_stream, signals, file, held
  <2> QED
    BY <1>4, <2>1, <2>2
<1>5. CASE R_WaitKeyFrame
  <2>1. UNCHANGED <<signals, file, config, init_flag>>
    BY <1>5 DEF R_WaitKeyFrame
  <2>2. local_stream_err' \in BOOLEAN
    BY <1>5 DEF R_WaitKeyFrame
  <2>3. has_an_iframe' \in BOOLEAN /\ over' \in BOOLEAN
    BY <1>5 DEF R_WaitKeyFrame, Keep, held
  <2> QED
    BY <2>1, <2>2, <2>3 DEF signals, file, config
<1>6. CASE R_Top \/ R_Begin \/ R_Search \/ C_MemoryBack
  <2>1. UNCHANGED rvars
    BY <1>6 DEF R_Top, R_Begin, R_Search, C_MemoryBack
  <2> QED
    BY <2>1 DEF rvars, signals, file, config, session, held
<1>7. CASE R_RecordEnds
  BY <1>7 DEF R_RecordEnds, file, config, session
<1>8. CASE R_Disabled
  BY <1>8 DEF R_Disabled, file, config, session, held
<1>9. CASE R_StartClip \/ C_StartClip
  <2>1. UNCHANGED <<signals, file, config, session, over>>
    BY <1>9 DEF R_StartClip, C_StartClip
  <2>2. has_an_iframe' \in BOOLEAN
    BY <1>9 DEF R_StartClip, C_StartClip
  <2> QED
    BY <2>1, <2>2 DEF signals, file, config, session
<1>10. CASE R_Record \/ R_Seek
  <2>1. CASE R_Record
    BY <2>1 DEF R_Record, ReadError, Keep, signals, file, config, held
  <2>2. CASE R_Seek
    BY <2>2 DEF R_Seek, ReadError, Keep, signals, file, config, held
  <2> QED
    BY <1>10, <2>1, <2>2
<1>11. CASE C_Record \/ C_Seek
  <2>1. CASE C_Record
    BY <2>1 DEF C_Record, ReadError, Keep, signals, file, config, held
  <2>2. CASE C_Seek
    BY <2>2 DEF C_Seek, ReadError, Keep, signals, file, config, held
  <2> QED
    BY <1>11, <2>1, <2>2
<1>12. CASE C_Sound \/ C_DrainSound
  <2>1. CASE C_Sound
    BY <2>1 DEF C_Sound, ReadError, signals, file, config, held
  <2>2. CASE C_DrainSound
    BY <2>2 DEF C_DrainSound, ReadError, signals, file, config, held
  <2> QED
    BY <1>12, <2>1, <2>2
<1>13. CASE R_Finish \/ C_Finish \/ cvr_close
  <2>1. CASE R_Finish
    BY <2>1 DEF R_Finish, signals, file, config, session, held
  <2>2. CASE C_Finish
    BY <2>2 DEF C_Finish, signals, file, config, session, held
  <2>3. CASE cvr_close
    BY <2>3 DEF cvr_close, signals, file, held
  <2> QED
    BY <1>13, <2>1, <2>2, <2>3
<1>14. CASE E_StreamError \/ FragmentAckReceivedHandler \/ UNCHANGED vars
  <2>1. UNCHANGED rvars
    BY <1>14 DEF E_StreamError, FragmentAckReceivedHandler, vars
  <2> QED
    BY <2>1 DEF rvars, signals, file, config, session, held
<1>15. CASE E_Config \/ E_Audio
  <2>1. CASE E_Config
    BY <2>1 DEF E_Config, config, session, held
  <2>2. CASE E_Audio
    BY <2>2 DEF E_Audio, signals, config, session, held
  <2> QED
    BY <1>15, <2>1, <2>2
<1>16. CASE self_term
  BY <1>16 DEF self_term, file, config, session, held
<1> QED
  BY <1>1, <1>2, <1>3, <1>4, <1>5, <1>6, <1>7, <1>8, <1>9, <1>10, <1>11, <1>12, <1>13, <1>14, <1>15, <1>16
     DEF Next, Daemon

LEMMA FramesStep ==
  ASSUME Frames, [Next]_vars
  PROVE  Frames'
<1> USE UploadAssumption
<1>1. SUFFICES (UNCHANGED frame \/ ReadFrame) /\ key' \in {key, frame'} /\ file_name' \in {file_name, key}
  BY DEF Frames, ReadFrame
<1>2. CASE R_KvsInit \/ R_Init \/ R_AudioChanged \/ R_StreamError \/ R_Reload \/ R_ClearReload
  BY <1>2 DEF R_KvsInit, R_Init, R_AudioChanged, R_StreamError, R_Reload, R_ClearReload, held
<1>3. CASE \/ R_Top \/ R_Begin \/ R_Search \/ C_MemoryBack
           \/ E_StreamError \/ FragmentAckReceivedHandler \/ UNCHANGED vars
  BY <1>3 DEF R_Top, R_Begin, R_Search, C_MemoryBack, E_StreamError, FragmentAckReceivedHandler, vars, rvars, held
<1>4. CASE R_Head \/ R_StreamInit \/ C_StreamInit \/ R_RecordEnds \/ R_Disabled \/ R_Finish \/ C_Finish \/ cvr_close
  BY <1>4 DEF R_Head, R_StreamInit, C_StreamInit, R_RecordEnds, R_Disabled, R_Finish, C_Finish, cvr_close, held
<1>5. CASE R_StartClip \/ C_StartClip \/ E_Config \/ E_Audio \/ self_term
  BY <1>5 DEF R_StartClip, C_StartClip, E_Config, E_Audio, self_term, held
<1>6. CASE R_WaitKeyFrame \/ R_Record \/ R_Seek
  BY <1>6 DEF R_WaitKeyFrame, R_Record, R_Seek, Keep, held
<1>7. CASE C_Record \/ C_Sound \/ C_Seek \/ C_DrainSound
  BY <1>7 DEF C_Record, C_Sound, C_Seek, C_DrainSound, Keep, held
<1> QED
  BY <1>2, <1>3, <1>4, <1>5, <1>6, <1>7 DEF Next, Daemon

LEMMA StreamsStep ==
  ASSUME TypeInv, SilenceInv, [Next]_vars
  PROVE  Streams' /\ Statuses'
<1> USE UploadAssumption DEF TypeInv
<1>0. Bounded \/ pc \in Between \cup {"close", "done"}
  BY DEF SilenceInv
<1>1. ASSUME UNCHANGED <<svars, status>> PROVE Streams' /\ Statuses'
  BY <1>1, StreamsStay DEF Statuses, status
<1>2. ASSUME NEW f, f.at \in Nat, NEW isEOF \in BOOLEAN, NEW clip \in Nat, pushFrames(f, clip, isEOF), Bounded
      PROVE  Streams' /\ Statuses'
  BY <1>2, PushTypes DEF Statuses
<1>3. CASE R_KvsInit \/ R_Reload \/ R_ClearReload \/ R_Top \/ R_Head \/ R_StreamInit \/ C_StreamInit \/ R_Begin
  BY <1>1, <1>3 DEF R_KvsInit, R_Reload, R_ClearReload, R_Top, R_Head, R_StreamInit, C_StreamInit, R_Begin, rvars
<1>4. CASE R_RecordEnds \/ R_Disabled \/ R_Search \/ cvr_close \/ E_Config \/ E_Audio \/ self_term \/ UNCHANGED vars
  BY <1>1, <1>4 DEF R_RecordEnds, R_Disabled, R_Search, cvr_close, E_Config, E_Audio, self_term, vars, rvars
<1>5. ASSUME UNCHANGED <<handle, isstreamerror_reported, drops, clips, times, sdk, status>>, trouble' \in {trouble, TRUE}
      PROVE  Streams' /\ Statuses'
  BY <1>5 DEF Streams, StreamTypeOK, Statuses, status, handle, drops, clips, times, sdk
<1>6. CASE R_WaitKeyFrame
  BY <1>5, <1>6 DEF R_WaitKeyFrame
<1>7. CASE R_Init \/ R_AudioChanged \/ R_StreamError
  <2>1. \E flag \in {0, 1} : \E next : createkvsstream(flag, next)
    BY <1>7 DEF R_Init, R_AudioChanged, R_StreamError
  <2>2. pushframestatus' \in {-1, 0, 1}
    BY <1>7 DEF R_Init, R_AudioChanged, R_StreamError, Statuses
  <2> QED
    BY <2>1, <2>2, CreateTypes DEF Statuses
<1>8. CASE R_StartClip \/ C_StartClip
  <2>1. Bounded
    <3>1. pc \notin Between \cup {"close", "done"} \/ (pc = "begin" /\ pushframestatus # 1)
      BY <1>8 DEF R_StartClip, C_StartClip, Starting, Checked, Between
    <3> QED
      BY <3>1 DEF SilenceInv
  <2>2. UNCHANGED <<svars, status>> \/ pushFrames(IFrame(key), key, FALSE)
    BY <1>8 DEF R_StartClip, C_StartClip
  <2>3. IFrame(key).at \in Nat /\ key \in Nat
    BY DEF IFrame, Controls, Frames
  <2> QED
    BY <1>1, <1>2, <2>1, <2>2, <2>3
<1>9. CASE Loops
  <2>1. Bounded
    <3>1. pc \in InClip \cup Behind
      BY <1>9, LoopsIn DEF InLoop, Behind
    <3> QED
      BY <1>0, <3>1 DEF Between, InClip, Behind
  <2>2. \/ UNCHANGED <<handle, isstreamerror_reported, drops, clips, times, sdk, status>> /\ trouble' \in {trouble, TRUE}
        \/ \E f : ReadFrame /\ f.at = frame' /\ pushFrames(f, file_name, FALSE)
    <3>1. CASE R_Record \/ R_Seek
      BY <3>1 DEF R_Record, R_Seek, svars, ReadError, IFrame, PFrame
    <3>2. CASE C_Record \/ C_Sound
      BY <3>2 DEF C_Record, C_Sound, svars, ReadError, IFrame, PFrame
    <3>3. CASE C_Seek \/ C_DrainSound
      BY <3>3 DEF C_Seek, C_DrainSound, svars, ReadError, IFrame, PFrame
    <3>4. CASE C_MemoryBack
      BY <3>4 DEF C_MemoryBack, svars, rvars
    <3> QED
      BY <1>9, <3>1, <3>2, <3>3, <3>4 DEF Loops
  <2>3. file_name \in Nat /\ frame \in Nat
    BY DEF Controls, Frames
  <2>4. ReadFrame => frame' \in Nat
    BY <2>3 DEF ReadFrame
  <2> QED
    BY <1>2, <1>5, <2>1, <2>2, <2>3, <2>4
<1>10. CASE R_Finish \/ C_Finish
  <2>1. Bounded
    BY <1>0, <1>10 DEF R_Finish, C_Finish, Between
  <2>2. UNCHANGED <<svars, status>> \/ pushFrames(PFrame(frame), file_name, TRUE)
    BY <1>10 DEF R_Finish, C_Finish
  <2>3. PFrame(frame).at \in Nat /\ file_name \in Nat
    BY DEF PFrame, Controls, Frames
  <2> QED
    BY <1>1, <1>2, <2>1, <2>2, <2>3
<1>11. CASE E_StreamError
  BY <1>11 DEF E_StreamError, streamErrorReportHandler, rvars, status, handle, drops, clips, times, sdk, Streams, StreamTypeOK, Statuses
<1>12. CASE FragmentAckReceivedHandler
  <2>1. UNCHANGED <<handle, isstreamerror_reported, drops, first_frame, opener, mixed, trouble, status>>
    BY <1>12 DEF FragmentAckReceivedHandler, FragmentPersisted, FragmentError, rvars
  <2>2. UNCHANGED times \/ PersistedNow
    BY <1>12 DEF FragmentAckReceivedHandler, FragmentPersisted, FragmentError
  <2>3. /\ fragments' \subseteq fragments /\ clipmapwithtimecode' \subseteq clipmapwithtimecode
        /\ clipmapwithrealtime' \subseteq clipmapwithrealtime
    BY <1>12 DEF FragmentAckReceivedHandler, FragmentPersisted, FragmentError
  <2>4. /\ IsFiniteSet(clipmapwithtimecode') /\ Cardinality(clipmapwithtimecode') <= CVR_THRESHHOLD_COUNT
        /\ IsFiniteSet(clipmapwithrealtime') /\ Cardinality(clipmapwithrealtime') <= CVR_THRESHHOLD_COUNT
    BY <2>3, Part DEF Streams, StreamTypeOK
  <2>5. unacked' \in 0..LongAgo + 1 /\ persisted' \in BOOLEAN
    BY <2>2, TimesTypes DEF Streams, StreamTypeOK
  <2> QED
    BY <2>1, <2>3, <2>4, <2>5 DEF Streams, StreamTypeOK, Statuses, status, handle, drops
<1> QED
  BY <1>3, <1>4, <1>6, <1>7, <1>8, <1>9, <1>10, <1>11, <1>12 DEF Next, Daemon, Loops

\* The types, for any number of frames, changes, retries and clips remembered: the maps stay within
\* their limit, and so do the frames refused in a row and the silence counted.
THEOREM TypeCorrect == Spec => []TypeOK
<1>1. Init => TypeInv
  <2> SUFFICES ASSUME Init PROVE TypeInv
    OBVIOUS
  <2>1. Modes /\ Frames
    BY UploadAssumption DEF Init, Modes, Frames
  <2>2. Flags /\ Statuses
    BY DEF Init, Flags, Statuses
  <2>3. /\ unacked \in 0..LongAgo + 1 /\ frame_dropped_count \in 0..CVR_THRESHHOLD_FRAMEDROP + 1
        /\ frame_dropped_count <= CVR_THRESHHOLD_FRAMEDROP
    BY StreamAssumption DEF Init, StreamInit, LongAgo
  <2>4. ClipTypes
    <3>1. IsFiniteSet({}) /\ Cardinality({}) <= CVR_THRESHHOLD_COUNT
      BY FS_EmptySet, StreamAssumption
    <3> QED
      BY <3>1 DEF Init, StreamInit, ClipTypes
  <2>5. Streams
    BY <2>3, <2>4 DEF Init, StreamInit, Streams, StreamTypeOK, ClipTypes
  <2> QED
    BY <2>1, <2>2, <2>5 DEF TypeInv, Controls
<1>2. TypeInv /\ SilenceInv /\ [Next]_vars => TypeInv'
  BY StreamsStep, ModesStep, FlagsStep, FramesStep DEF TypeInv, Controls
<1>3. Init => SilenceInv
  BY StreamAssumption DEF Init, StreamInit, SilenceInv, Bounded
<1>4. SilenceInv /\ [Next]_vars => SilenceInv'
  BY SilenceStep
<1>5. TypeInv => TypeOK
  BY DEF TypeInv, Streams, Controls, Modes, Flags, Frames, Statuses, TypeOK
<1> QED
  BY <1>1, <1>2, <1>3, <1>4, <1>5, PTL DEF Spec
=============================================================================
