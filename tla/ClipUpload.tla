----------------------------- MODULE ClipUpload -----------------------------
(***************************************************************************)
(* The clip hand-over of the KVS clip recorder (kvs/clipupload).  The      *)
(* recorder thread (CVR::do_cvr) writes clips to /tmp/cvr and pushes them  *)
(* with PushMsg_kvs; the kvsUpload thread pops, plays and deletes them and *)
(* now and then hands statistics to the cvrStatisticsUpload thread.  The   *)
(* push doubles as the watchdog of the upload thread.                      *)
(*                                                                         *)
(* The threads meet in msgQ_kvs and in statisticsMutex.  PopMsg_kvs and    *)
(* the tail of PushMsg_kvs hold msgQueueMutex_kvs and are one step each;   *)
(* the size that decides about flushing is read before, without the mutex, *)
(* and is a step of its own.                                               *)
(***************************************************************************)
EXTENDS Integers, Sequences, FiniteSets

CONSTANTS Clips,                 \* clip names; a name is free while no file has it
          NoClip,                \* "no clip in hand"
          CVR_THRESHHOLD_COUNT,  \* 4 in the code
          MAXRETRY,              \* 5 in the code
          STAT_UPLOAD_INTERVAL,  \* 30 in the code
          Stamps,                \* readings of the millisecond clock
          Never                  \* the initial 0 of every stamp

ASSUME NamesAssumption     == NoClip \notin Clips
ASSUME ThresholdAssumption == CVR_THRESHHOLD_COUNT \in Nat
ASSUME RetryAssumption     == MAXRETRY \in Nat /\ STAT_UPLOAD_INTERVAL \in Nat
\* A new reading of the clock differs from the three remembered ones and from Never.
ASSUME StampsAssumption    == /\ Never \notin Stamps
                              /\ \A a, b, c \in Stamps \cup {Never} : Stamps \ {a, b, c} # {}

VARIABLES
  rpc,                  \* recorder thread: where it is in do_cvr / PushMsg_kvs
  rclip,                \* the clip it is recording or pushing
  queue_size,           \* its unlocked reading of msgQ_kvs.size()
  flushed,              \* the old clip it popped and has not unlinked yet
  clipcounter,          \* next watchdog slot to write, minus one
  hangdetecttimes,      \* the statics hangdetecttime1, 2 and 3
  upc,                  \* kvsUpload thread: where it is
  uclip,                \* the clip it popped
  retry,                \* failures of kvs_init so far (a static)
  iskvsinitdone, iskvsstreaminitdone,
  verdict,              \* what RDKC.CVR.UPLOAD.STATUS said of the clip in uclip
  spc,                  \* cvrStatisticsUpload thread; "post" holds statisticsMutex
  uploadData,           \* statistics are ready, under statisticsMutex
  waitingInterval,      \* next pause of retryAtExpRate, in seconds
  msgQ_kvs,             \* the queue, under msgQueueMutex_kvs
  hangdetecttime,       \* last sign of life of the upload thread
  quiet,                \* ghost: pushes since that sign of life
  files, m_files,       \* names that have a .ts, a .m_level in /tmp/cvr
  term_flag,
  threadExit,           \* kvsUploadThreadExit and cvrStatisticsUploadThreadExit
  alive                 \* the process runs

rpush == <<queue_size, flushed, clipcounter, hangdetecttimes>>
rvars == <<rpc, rclip, rpush>>
kvs   == <<retry, iskvsinitdone, iskvsstreaminitdone>>
uvars == <<upc, uclip, kvs, verdict>>
svars == <<spc, uploadData, waitingInterval>>
life  == <<hangdetecttime, quiet>>
disk  == <<files, m_files>>
proc  == <<term_flag, threadExit, alive>>
vars  == <<rvars, uvars, svars, msgQ_kvs, life, disk, proc>>

Waiting == {msgQ_kvs[i] : i \in DOMAIN msgQ_kvs}

Init ==
  /\ rpc = "loop" /\ rclip = NoClip /\ queue_size = 0 /\ flushed = NoClip
  /\ clipcounter = 0 /\ hangdetecttimes = [i \in 1..3 |-> Never]
  /\ upc = "loop" /\ uclip = NoClip /\ retry = 0
  /\ iskvsinitdone = FALSE /\ iskvsstreaminitdone = FALSE
  /\ verdict = "none"
  /\ spc = "wait" /\ uploadData = FALSE /\ waitingInterval = 1
  /\ msgQ_kvs = <<>> /\ hangdetecttime = Never /\ quiet = 0
  /\ files = {} /\ m_files = {}
  /\ term_flag = FALSE /\ threadExit = FALSE /\ alive = TRUE

-----------------------------------------------------------------------------
(* Helpers of both threads. *)

\* Faulty variants of some definitions stand before them, named <definition>_<fault>.

\* ... forgets to pop.
PopMsg_kvs_Keeps(c) == /\ msgQ_kvs # <<>>
                       /\ c = Head(msgQ_kvs)
                       /\ UNCHANGED msgQ_kvs

\* ... takes the newest.
PopMsg_kvs_Newest(c) == /\ msgQ_kvs # <<>>
                        /\ c = msgQ_kvs[Len(msgQ_kvs)]
                        /\ msgQ_kvs' = SubSeq(msgQ_kvs, 1, Len(msgQ_kvs) - 1)

\* PopMsg_kvs: waits until the queue has a message and takes the oldest.
PopMsg_kvs(c) == /\ msgQ_kvs # <<>>
                 /\ c = Head(msgQ_kvs)
                 /\ msgQ_kvs' = Tail(msgQ_kvs)

\* hangdetecttime = now: a reading no push has remembered yet.  (Readings that
\* no push ever saw need not differ from one another.)
Stamp == /\ hangdetecttime' \in Stamps \ {hangdetecttimes[i] : i \in 1..3}
         /\ quiet' = 0

\* exit(1), SIGKILL or the return of main: the process and its queue are gone,
\* the files stay.
Exit == alive' = FALSE /\ UNCHANGED <<term_flag, threadExit>>

-----------------------------------------------------------------------------
(* The recorder thread. *)

\* do_cvr opens the .ts of a new clip, whose name is made from the clock: no
\* other file has it.
R_NewClip ==
  /\ alive /\ rpc = "loop" /\ ~term_flag
  /\ \E c \in Clips \ files : rclip' = c /\ files' = files \cup {c}
  /\ rpc' = "recording"
  /\ UNCHANGED <<rpush, uvars, svars, msgQ_kvs, life, m_files, proc>>

\* The clip is complete: its motion levels are written.
R_WriteLevels ==
  /\ alive /\ rpc = "recording"
  /\ m_files' = m_files \cup {rclip}
  /\ rpc' = "decide"
  /\ UNCHANGED <<rclip, rpush, uvars, svars, msgQ_kvs, life, files, proc>>

\* A local stream error, or term_flag: both files are deleted.
R_Discard ==
  /\ alive /\ rpc = "decide"
  /\ files' = files \ {rclip} /\ m_files' = m_files \ {rclip}
  /\ rclip' = NoClip /\ rpc' = "loop"
  /\ UNCHANGED <<rpush, uvars, svars, msgQ_kvs, life, proc>>

\* cvr_upload -> PushMsg_kvs, which first reads the size without the mutex.
R_Submit ==
  /\ alive /\ rpc = "decide" /\ ~term_flag
  /\ queue_size' = Len(msgQ_kvs)
  /\ rpc' = "hangcheck"
  /\ UNCHANGED <<rclip, flushed, clipcounter, hangdetecttimes, uvars, svars, msgQ_kvs, life,
                 disk, proc>>

\* ... does not wait for the third slot.
Hung_TwoSlots(times) == times[1] = times[2]

Hung(times) == times[1] = times[2] /\ times[2] = times[3]

\* ... never starts over with slot 1.
R_HangCheck_NoWrap ==
  /\ alive /\ rpc = "hangcheck"
  /\ IF hangdetecttime = Never \/ clipcounter = 3
       THEN /\ rpc' = "test"
            /\ UNCHANGED <<clipcounter, hangdetecttimes, quiet>>
       ELSE /\ hangdetecttimes' = [hangdetecttimes EXCEPT ![clipcounter + 1] = hangdetecttime]
            /\ clipcounter' = clipcounter + 1
            /\ quiet' = quiet + 1
            /\ rpc' = IF Hung(hangdetecttimes') THEN "kill" ELSE "test"
  /\ UNCHANGED <<rclip, queue_size, flushed, uvars, svars, msgQ_kvs, hangdetecttime, disk, proc>>

\* The watchdog: each push remembers the sign of life it saw, in turn.
R_HangCheck ==
  /\ alive /\ rpc = "hangcheck"
  /\ IF hangdetecttime = Never
       THEN /\ rpc' = "test"
            /\ UNCHANGED <<clipcounter, hangdetecttimes, quiet>>
       ELSE /\ hangdetecttimes' = [hangdetecttimes EXCEPT ![clipcounter + 1] = hangdetecttime]
            /\ clipcounter' = (clipcounter + 1) % 3
            /\ quiet' = quiet + 1
            /\ rpc' = IF Hung(hangdetecttimes') THEN "kill" ELSE "test"
  /\ UNCHANGED <<rclip, queue_size, flushed, uvars, svars, msgQ_kvs, hangdetecttime, disk, proc>>

\* kill(SIGTERM) runs self_term; a second later SIGKILL ends the process.
R_HangTerm ==
  /\ alive /\ rpc = "kill" /\ ~term_flag
  /\ term_flag' = TRUE
  /\ UNCHANGED <<rvars, uvars, svars, msgQ_kvs, life, disk, threadExit, alive>>

R_HangKill ==
  /\ alive /\ rpc = "kill" /\ term_flag
  /\ Exit
  /\ UNCHANGED <<rvars, uvars, svars, msgQ_kvs, life, disk>>

\* ... drops the clip it was given: the oldest waits as long as the one before it is played again.
R_Flush_DropsOwn ==
  /\ alive /\ rpc = "test" /\ queue_size > CVR_THRESHHOLD_COUNT
  /\ files' = files \ {rclip} /\ m_files' = m_files \ {rclip}
  /\ rclip' = NoClip /\ queue_size' = 0 /\ rpc' = "loop"
  /\ UNCHANGED <<flushed, clipcounter, hangdetecttimes, uvars, svars, msgQ_kvs, life, proc>>

\* Above the threshold the oldest clip is popped (this waits on an empty queue)...
R_Flush ==
  /\ alive /\ rpc = "test" /\ queue_size > CVR_THRESHHOLD_COUNT
  /\ \E c \in Clips : PopMsg_kvs(c) /\ flushed' = c
  /\ rpc' = "unlink"
  /\ UNCHANGED <<rclip, queue_size, clipcounter, hangdetecttimes, uvars, svars, life, disk, proc>>

\* ... >= for >.
R_NoFlush_OneMore ==
  /\ alive /\ rpc = "test" /\ queue_size <= CVR_THRESHHOLD_COUNT + 1
  /\ rpc' = "push"
  /\ UNCHANGED <<rclip, rpush, uvars, svars, msgQ_kvs, life, disk, proc>>

R_NoFlush ==
  /\ alive /\ rpc = "test" /\ queue_size <= CVR_THRESHHOLD_COUNT
  /\ rpc' = "push"
  /\ UNCHANGED <<rclip, rpush, uvars, svars, msgQ_kvs, life, disk, proc>>

\* ... forgets the clip itself.
R_UnlinkFlushed_LevelsOnly ==
  /\ alive /\ rpc = "unlink"
  /\ m_files' = m_files \ {flushed}
  /\ flushed' = NoClip /\ rpc' = "push"
  /\ UNCHANGED <<rclip, queue_size, clipcounter, hangdetecttimes, uvars, svars, msgQ_kvs, life,
                 files, proc>>

\* ... and its files are deleted.
R_UnlinkFlushed ==
  /\ alive /\ rpc = "unlink"
  /\ files' = files \ {flushed} /\ m_files' = m_files \ {flushed}
  /\ flushed' = NoClip /\ rpc' = "push"
  /\ UNCHANGED <<rclip, queue_size, clipcounter, hangdetecttimes, uvars, svars, msgQ_kvs, life, proc>>

\* The push itself, under the mutex.
R_Push ==
  /\ alive /\ rpc = "push"
  /\ msgQ_kvs' = Append(msgQ_kvs, rclip)
  /\ rclip' = NoClip /\ queue_size' = 0 /\ rpc' = "loop"
  /\ UNCHANGED <<flushed, clipcounter, hangdetecttimes, uvars, svars, life, disk, proc>>

\* do_cvr returns on term_flag; cvr_close tells the threads to stop and main
\* returns without waiting for them.
R_Close ==
  /\ alive /\ rpc = "loop" /\ term_flag
  /\ threadExit' = TRUE /\ rpc' = "return"
  /\ UNCHANGED <<rclip, rpush, uvars, svars, msgQ_kvs, life, disk, term_flag, alive>>

R_Return ==
  /\ alive /\ rpc = "return"
  /\ Exit
  /\ UNCHANGED <<rvars, uvars, svars, msgQ_kvs, life, disk>>

-----------------------------------------------------------------------------
(* The kvsUpload thread. *)

U_Loop ==
  /\ alive /\ upc = "loop"
  /\ upc' = IF threadExit THEN "ended" ELSE "pop"
  /\ UNCHANGED <<rvars, uclip, kvs, verdict, svars, msgQ_kvs, life, disk, proc>>

U_Pop ==
  /\ alive /\ upc = "pop"
  /\ \E c \in Clips : PopMsg_kvs(c) /\ uclip' = c
  /\ upc' = "init"
  /\ UNCHANGED <<rvars, kvs, verdict, svars, life, disk, proc>>

\* ... retries for ever.
U_KvsInit_NoLimit ==
  /\ alive /\ upc = "init" /\ ~iskvsinitdone
  /\ \/ iskvsinitdone' = TRUE /\ UNCHANGED retry
     \/ retry' = retry + 1 /\ UNCHANGED iskvsinitdone
  /\ UNCHANGED <<rvars, upc, uclip, iskvsstreaminitdone, verdict, svars, msgQ_kvs, life, disk, proc>>

\* kvs_init, until it succeeds; too many failures in the life of the process end it.
U_KvsInit ==
  /\ alive /\ upc = "init" /\ ~iskvsinitdone
  /\ \/ iskvsinitdone' = TRUE /\ UNCHANGED <<retry, proc>>
     \/ /\ retry' = retry + 1
        /\ IF retry + 1 > MAXRETRY THEN Exit ELSE UNCHANGED proc
        /\ UNCHANGED iskvsinitdone
  /\ UNCHANGED <<rvars, upc, uclip, iskvsstreaminitdone, verdict, svars, msgQ_kvs, life, disk>>

U_FirstStamp ==
  /\ alive /\ upc = "init" /\ iskvsinitdone
  /\ Stamp
  /\ upc' = IF iskvsstreaminitdone THEN "unlink_m" ELSE "streaminit"
  /\ UNCHANGED <<rvars, uclip, kvs, verdict, svars, msgQ_kvs, disk, proc>>

\* kvs_stream_init: a failed first attempt is followed by recreate_stream, which
\* stamps, retries and ends the process when its retries are used up.
U_StreamInit ==
  /\ alive /\ upc = "streaminit"
  /\ \/ /\ iskvsstreaminitdone' = TRUE /\ upc' = "unlink_m"
        /\ (Stamp \/ UNCHANGED life) /\ UNCHANGED proc
     \/ Exit /\ UNCHANGED <<upc, iskvsstreaminitdone, life>>
  /\ UNCHANGED <<rvars, uclip, retry, iskvsinitdone, verdict, svars, msgQ_kvs, disk>>

U_UnlinkLevels ==
  /\ alive /\ upc = "unlink_m"
  /\ m_files' = m_files \ {uclip} /\ upc' = "play"
  /\ UNCHANGED <<rvars, uclip, kvs, verdict, svars, msgQ_kvs, life, files, proc>>

\* Stamp, then kvs_stream_play feeds the file to the GStreamer main loop.
U_Play ==
  /\ alive /\ upc = "play"
  /\ Stamp /\ upc' = "playing"
  /\ UNCHANGED <<rvars, uclip, kvs, verdict, svars, msgQ_kvs, disk, proc>>

\* The main loop has ended: stamp, then wait for the acknowledgement.
U_MainLoopDone ==
  /\ alive /\ upc = "playing"
  /\ Stamp /\ upc' = "acking"
  /\ UNCHANGED <<rvars, uclip, kvs, verdict, svars, msgQ_kvs, disk, proc>>

\* kvs_stream_play returns 0: the thumbnailer is told.
U_PlaySuccess ==
  /\ alive /\ upc = "acking"
  /\ verdict' = "ok" /\ upc' = "delete"
  /\ UNCHANGED <<rvars, uclip, kvs, svars, msgQ_kvs, life, disk, proc>>

\* ... tells nobody.
U_PlayFailure_Silent ==
  /\ alive
  /\ \/ upc = "playing" /\ UNCHANGED life
     \/ upc = "acking" /\ Stamp
  /\ upc' = "delete"
  /\ UNCHANGED <<rvars, uclip, kvs, verdict, svars, msgQ_kvs, disk, proc>>

\* It returns -1: the pipeline would not start, or (after stamps) the stream
\* was reset for an error or a missing acknowledgement.  The clip is not retried.
U_PlayFailure ==
  /\ alive
  /\ \/ upc = "playing" /\ UNCHANGED life
     \/ upc = "acking" /\ Stamp
  /\ verdict' = "fail" /\ upc' = "delete"
  /\ UNCHANGED <<rvars, uclip, kvs, svars, msgQ_kvs, disk, proc>>

\* It returns 3 (pipeline error) or 1 (content change, whose kvs_stream_init
\* recreates the stream and stamps): the same clip is played again.
U_PlayAgain ==
  /\ alive /\ upc = "playing"
  /\ Stamp \/ UNCHANGED life
  /\ upc' = "play"
  /\ UNCHANGED <<rvars, uclip, kvs, verdict, svars, msgQ_kvs, disk, proc>>

\* recreate_stream ran out of retries.
U_PlayExit ==
  /\ alive /\ upc \in {"playing", "acking"}
  /\ Exit
  /\ UNCHANGED <<rvars, uvars, svars, msgQ_kvs, life, disk>>

\* The clip is deleted; if statistics are enabled, their window is over and
\* enough uploads failed, they are reported before the next clip.
U_Delete ==
  /\ alive /\ upc = "delete"
  /\ files' = files \ {uclip}
  /\ uclip' = NoClip /\ verdict' = "none" /\ upc' \in {"loop", "report"}
  /\ UNCHANGED <<rvars, kvs, svars, msgQ_kvs, life, m_files, proc>>

\* lock_guard(statisticsMutex): waits while the statistics thread posts.
U_Report ==
  /\ alive /\ upc = "report" /\ spc # "post"
  /\ uploadData' = TRUE /\ upc' = "loop"
  /\ UNCHANGED <<rvars, uclip, kvs, verdict, spc, waitingInterval, msgQ_kvs, life, disk, proc>>

-----------------------------------------------------------------------------
(* The cvrStatisticsUpload thread holds statisticsMutex except in statCv.wait. *)

S_Wake ==
  /\ alive /\ spc = "wait" /\ uploadData
  /\ uploadData' = FALSE /\ spc' = "post"
  /\ UNCHANGED <<rvars, uvars, waitingInterval, msgQ_kvs, life, disk, proc>>

\* retryAtExpRate: sleeps, mutex held, and doubles an interval nobody resets.
S_Retry ==
  /\ alive /\ spc = "post" /\ waitingInterval <= STAT_UPLOAD_INTERVAL
  /\ waitingInterval' = 2 * waitingInterval
  /\ UNCHANGED <<rvars, uvars, spc, uploadData, msgQ_kvs, life, disk, proc>>

\* The post succeeded, or its retries are used up.
S_Done ==
  /\ alive /\ spc = "post"
  /\ spc' = IF threadExit THEN "ended" ELSE "wait"
  /\ UNCHANGED <<rvars, uvars, uploadData, waitingInterval, msgQ_kvs, life, disk, proc>>

-----------------------------------------------------------------------------
\* SIGTERM from outside.
self_term ==
  /\ alive /\ ~term_flag
  /\ term_flag' = TRUE
  /\ UNCHANGED <<rvars, uvars, svars, msgQ_kvs, life, disk, threadExit, alive>>

Recorder ==
  \/ R_NewClip \/ R_WriteLevels \/ R_Discard \/ R_Submit \/ R_HangCheck \/ R_HangTerm
  \/ R_HangKill \/ R_Flush \/ R_NoFlush \/ R_UnlinkFlushed \/ R_Push \/ R_Close \/ R_Return

\* What the upload thread does by itself ...
UploadCode == \/ U_Loop \/ U_Pop \/ U_FirstStamp \/ U_UnlinkLevels \/ U_Play \/ U_Delete
              \/ U_Report

\* ... and the returns of the calls that may block as long as the network pleases.
UploadCalls == \/ U_KvsInit \/ U_StreamInit \/ U_MainLoopDone \/ U_PlaySuccess
               \/ U_PlayFailure \/ U_PlayAgain \/ U_PlayExit

Statistics == S_Wake \/ S_Retry \/ S_Done

Next == Recorder \/ UploadCode \/ UploadCalls \/ Statistics \/ self_term

Spec == Init /\ [][Next]_vars

\* The scheduler runs both threads, and the camera does not fail every clip.
\* Nothing is assumed of the network: a call of the upload thread may never return.
Fairness == WF_vars(Recorder) /\ SF_vars(R_Submit) /\ WF_vars(UploadCode)

FairSpec == Spec /\ Fairness

-----------------------------------------------------------------------------
(* Type invariant. *)

FlagsOK ==
  /\ iskvsinitdone \in BOOLEAN /\ iskvsstreaminitdone \in BOOLEAN
  /\ uploadData \in BOOLEAN
  /\ term_flag \in BOOLEAN /\ threadExit \in BOOLEAN /\ alive \in BOOLEAN

DataOK ==
  /\ rpc \in {"loop", "recording", "decide", "hangcheck", "test", "unlink", "push", "kill",
              "return"}
  /\ rclip \in Clips \cup {NoClip} /\ queue_size \in Nat /\ flushed \in Clips \cup {NoClip}
  /\ clipcounter \in 0..2 /\ hangdetecttimes \in [1..3 -> Stamps \cup {Never}]
  /\ upc \in {"loop", "pop", "init", "streaminit", "unlink_m", "play", "playing", "acking",
              "delete", "report", "ended"}
  /\ uclip \in Clips \cup {NoClip} /\ retry \in 0..(MAXRETRY + 1)
  /\ verdict \in {"none", "ok", "fail"}
  /\ spc \in {"wait", "post", "ended"} /\ waitingInterval \in Nat
  /\ msgQ_kvs \in Seq(Clips) /\ hangdetecttime \in Stamps \cup {Never} /\ quiet \in Nat
  /\ files \subseteq Clips /\ m_files \subseteq Clips

TypeOK == FlagsOK /\ DataOK

-----------------------------------------------------------------------------
(* Safety. *)

\* The clips somebody still has to deal with.
Owned == Waiting \cup ({rclip, flushed, uclip} \ {NoClip})

\* No clip leaks and none is deleted under its user: a file is on disk exactly
\* as long as one of the queue, the recorder and the upload thread has its name
\* (cvrUploadAPI.cpp deletes popped clips, do_cvr the discarded ones).  Motion
\* level files may be missing but never outlive their clip.
FilesOwned == files = Owned /\ m_files \subseteq files

\* A clip is queued at most once, and is nowhere else then: what PopMsg_kvs
\* gave to one thread the other one never sees.
SingleOwner ==
  /\ \A i, j \in DOMAIN msgQ_kvs : msgQ_kvs[i] = msgQ_kvs[j] => i = j
  /\ {rclip, flushed, uclip} \cap Waiting = {}
  /\ rclip # NoClip => rclip \notin {flushed, uclip}
  /\ flushed # NoClip => flushed # uclip

\* The flush keeps /tmp/cvr (a RAM disk) bounded although it trusts a stale
\* size: one clip being recorded, one being uploaded, the queue at its limit.
DiskBound == Cardinality(files) <= CVR_THRESHHOLD_COUNT + 3

\* The upload thread lets no clip go without a report to the thumbnailer, and
\* what it reported of a clip stands.
OneVerdict ==
  [][/\ uclip # NoClip /\ uclip' = NoClip => verdict # "none"
     /\ verdict # "none" /\ verdict' # verdict => uclip' = NoClip]_vars

\* The watchdog of PushMsg_kvs kills the process at exactly the third push in a
\* row that saw no new sign of life, wherever its three slots stand.
WatchdogExact ==
  [][rpc = "hangcheck" /\ rpc' # "hangcheck" => (rpc' = "kill" <=> quiet' >= 3)]_vars

\* The queue and the upload thread are a lossy FIFO of the threshold plus one.
Buffer == INSTANCE ClipBuffer WITH buffer <- msgQ_kvs, inUse <- uclip,
                                   Capacity <- CVR_THRESHHOLD_COUNT + 1
LossyFifo == Buffer!Spec

-----------------------------------------------------------------------------
(* Liveness. *)

\* The recorder waits in PopMsg_kvs for a clip only itself could push.
Stalled == rpc = "test" /\ queue_size > CVR_THRESHHOLD_COUNT /\ msgQ_kvs = <<>>

\* "Flush out older clips in case of threshold" (cvrUploadAPI.cpp:278) pops a
\* clip because there are too many, so the wait in PopMsg_kvs finds one.
FlushFindsClips == ~Stalled

\* A call that never returns, or a statistics mutex that is never released, does
\* not leave the upload thread blocked for good: the watchdog ends the process.
HangDetected ==
  []<>(~alive \/ Stalled \/ upc \notin {"streaminit", "playing", "acking", "report"})

\* Every queued clip leaves the queue, whatever the network does: it is taken,
\* flushed, or goes down with the process.
NoClipStuck == \A c \in Clips : c \in Waiting ~> (c \notin Waiting \/ ~alive)

=============================================================================
