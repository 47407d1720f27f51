----------------------------- MODULE LegacyDaemon -----------------------------
(***************************************************************************)
(* legacy/core/cvr_daemon.cpp: CVR::do_cvr writes what the camera delivers *)
(* into a file per clip and hands the finished clip to the upload thread   *)
(* (LegacyUpload).  Video and sound are two sessions.                      *)
(*                                                                         *)
(* Clips follow the clock: two clips that start within a second have the   *)
(* same name.  The clock goes round a few names.                           *)
(***************************************************************************)
EXTENDS LegacyUpload

CONSTANT
  MaxQueue     \* bound: clips queued when a new one starts

Seconds == 0..Cardinality(Clips) - 1

VARIABLES
  pc,                          \* where cvr_init or do_cvr is
  term_flag,
  init_flag, local_stream_err,
  has_an_iframe,
  second,                      \* start_t.tv_sec
  file_name                    \* the clip that is recorded

session == <<init_flag, local_stream_err>>
rvars   == <<pc, term_flag, session, has_an_iframe, second, file_name>>
vars    == <<uvars, rvars>>

\* The name of a clip: the wall clock.
Name == CHOOSE f \in [Seconds -> Clips] : \A s, t \in Seconds : f[s] = f[t] => s = t

TypeOK ==
  /\ UploadTypeOK
  /\ pc \in {"init", "top", "open", "wait", "clip", "rec", "seek", "finish", "close", "done"}
  /\ \A b \in {term_flag, init_flag, local_stream_err, has_an_iframe} : b \in BOOLEAN
  /\ second \in Seconds /\ file_name \in Clips \cup {NoClip}

DaemonInit == UploadInit /\ second = 0 /\ file_name = NoClip

Init ==
  /\ DaemonInit
  /\ pc = "init" /\ term_flag = FALSE /\ init_flag = FALSE /\ local_stream_err = FALSE
  /\ has_an_iframe = FALSE

-----------------------------------------------------------------------------
Goto(next) == pc' = next

\* The clock when a frame becomes the first one of a clip: it may have moved on since the clip before.
Keep == has_an_iframe' = TRUE /\ second' \in {second, (second + 1) % Cardinality(Clips)}

\* cvr_init: another daemon, no timer or no RFC ends it; else the upload thread is started.
R_Init ==
  /\ pc = "init"
  /\ \/ Goto("close") /\ UNCHANGED uvars
     \/ Goto("top") /\ cvr_upload_init
  /\ UNCHANGED <<term_flag, session, has_an_iframe, second, file_name>>

\* The head of the main loop: a failed session is closed, one of CVR that is disabled, too.  The
\* configuration may be another one whenever the loop looks.
R_Top ==
  /\ pc = "top"
  /\ IF term_flag
     THEN Goto("close") /\ UNCHANGED session
     ELSE /\ local_stream_err' = (local_stream_err /\ ~init_flag)
          /\ \/ init_flag' = FALSE /\ Goto("top")
             \/ init_flag' = (init_flag /\ ~local_stream_err) /\ Goto(IF init_flag' THEN "clip" ELSE "open")
  /\ UNCHANGED <<uvars, term_flag, has_an_iframe, second, file_name>>

\* The session of the video is opened, and that of the sound if it can be.
R_StreamInit ==
  /\ pc = "open"
  /\ \/ Goto("top") /\ UNCHANGED init_flag
     \/ Goto("wait") /\ init_flag' = TRUE
  /\ UNCHANGED <<uvars, term_flag, local_stream_err, has_an_iframe, second, file_name>>

\* The first frame, of any type, is kept; three seconds without one are an error.
R_WaitKeyFrame ==
  /\ pc = "wait"
  /\ \/ term_flag /\ Goto("clip") /\ UNCHANGED <<local_stream_err, has_an_iframe, second>>
     \/ ~term_flag /\ Keep /\ Goto("clip") /\ UNCHANGED local_stream_err
     \/ ~term_flag /\ local_stream_err' = TRUE /\ Goto("top") /\ UNCHANGED <<has_an_iframe, second>>
  /\ UNCHANGED <<uvars, term_flag, init_flag, file_name>>

\* The clip gets its name and its file; the kept frame is written first.  Without a file the
\* loop starts again.
R_StartClip ==
  /\ pc = "clip" /\ Len(msgQ) < MaxQueue
  /\ \/ /\ disk' = disk \cup {[clip |-> Name[second], kind |-> "ts"]}
        /\ file_name' = Name[second] /\ has_an_iframe' = FALSE /\ Goto("rec")
     \/ /\ disk' = disk \ {[clip |-> Name[second], kind |-> "ts"]}
        /\ UNCHANGED <<file_name, has_an_iframe>> /\ Goto("top")
  /\ UNCHANGED <<msgQ, cpc, purge, clip, elapsed, waitingInterval, uploadfailcount, exits, term_flag,
                 session, second>>

\* The loop over the duration writes what it reads.  It ends when the time is over, with SIGTERM
\* or when CVR is disabled; with a failed read; or with an I frame close to the end, which is kept.
R_Record ==
  /\ pc = "rec"
  /\ \/ Goto("seek") /\ UNCHANGED <<local_stream_err, has_an_iframe, second>>
     \/ ~term_flag /\ local_stream_err' = TRUE /\ Goto("seek") /\ UNCHANGED <<has_an_iframe, second>>
     \/ ~term_flag /\ Keep /\ Goto("finish") /\ UNCHANGED local_stream_err
  /\ UNCHANGED <<uvars, term_flag, init_flag, file_name>>

\* The search for the I frame of the next clip writes the frames before it.
R_Seek ==
  /\ pc = "seek" /\ Goto("finish")
  /\ \/ term_flag /\ UNCHANGED <<local_stream_err, has_an_iframe, second>>
     \/ ~term_flag /\ local_stream_err' = TRUE /\ UNCHANGED <<has_an_iframe, second>>
     \/ ~term_flag /\ Keep /\ UNCHANGED local_stream_err
  /\ UNCHANGED <<uvars, term_flag, init_flag, file_name>>

\* The sound up to the next clip is read, which may fail.  The motion levels are written, if they
\* can be, and the clip is handed over, also when the camera has failed; at the end of the daemon
\* both files go.
R_Finish ==
  /\ pc = "finish" /\ Goto("top")
  /\ local_stream_err' \in {local_stream_err, ~term_flag \/ local_stream_err}
  /\ IF term_flag
     THEN /\ disk' = disk \ Files(file_name)
          /\ UNCHANGED <<msgQ, cpc, purge, clip, elapsed, waitingInterval, uploadfailcount, exits>>
     ELSE /\ disk' \in {disk, disk \cup {[clip |-> file_name, kind |-> "m_level"]}}
          /\ cvr_upload(file_name)
  /\ file_name' = NoClip
  /\ UNCHANGED <<term_flag, init_flag, has_an_iframe, second>>

\* The upload thread is told, and the process ends with main.
cvr_close ==
  /\ pc = "close" /\ Goto("done")
  /\ init_flag' = FALSE
  /\ cvr_upload_close
  /\ UNCHANGED <<term_flag, local_stream_err, has_an_iframe, second, file_name>>

-----------------------------------------------------------------------------
Alive == pc # "done"

\* The steps of the upload thread that concern it alone.
UploadThread ==
  /\ Alive /\ UNCHANGED rvars
  /\ T_Size \/ T_Purge \/ T_Pop \/ U_Refuse \/ U_Begin \/ U_Interrupted \/ U_Timeout \/ U_Stored
     \/ U_Forbidden \/ U_Retry

\* The network was lost too often: the daemon kills itself.
U_Lost ==
  /\ Alive
  /\ \E ret \in {"curl", "fail"} :
       U_GiveUp(ret) /\ term_flag' = (term_flag \/ Kills(ret))
  /\ UNCHANGED <<pc, session, has_an_iframe, second, file_name>>

self_term ==
  /\ Alive /\ ~term_flag /\ term_flag' = TRUE
  /\ UNCHANGED <<uvars, pc, session, has_an_iframe, second, file_name>>

interrupt == Alive /\ cvrUploadSignalHandler /\ UNCHANGED rvars

Recorder == \/ R_Init \/ R_Top \/ R_StreamInit \/ R_WaitKeyFrame \/ R_StartClip \/ R_Record \/ R_Seek
            \/ R_Finish \/ cvr_close

Uploader == UploadThread \/ U_Lost

Next == Recorder \/ Uploader \/ self_term \/ interrupt

\* The upload thread is scheduled, and a post returns in its time.
Spec == Init /\ [][Next]_vars /\ WF_vars(Uploader)

-----------------------------------------------------------------------------
(* What the two promise each other. *)

\* Every file of a clip has someone who will remove it: the recorder, the queue or the upload
\* thread.  Two clips of one second share their files, and the first that ends removes them.
FilesOwned ==
  Alive => \A f \in disk : \/ f.clip \in {file_name, clip}
                           \/ \E i \in 1..Len(msgQ) : msgQ[i] = f.clip

\* A clip handed over does not stay: it is stored, given up or dropped, as long as there is an
\* upload thread and the daemon runs.  All names take part alike.
Queued(c) == \E i \in 1..Len(msgQ) : msgQ[i] = c
ClipsLeave == Queued(Name[0]) /\ cpc # "none" ~> ([clip |-> Name[0], kind |-> "ts"] \notin disk \/ ~Alive)
=============================================================================
