----------------------------- MODULE LegacyUpload -----------------------------
(***************************************************************************)
(* legacy/upload: the queue of finished clips, the thread that uploads     *)
(* them, and CVRUpload::doCVRUpload, which posts a clip to the server,     *)
(* again and again until its time is over.                                 *)
(*                                                                         *)
(* A clip is its name, the second it started in.  It has two files: the    *)
(* transport stream and the motion levels.  Time is counted while a clip   *)
(* is uploaded, in seconds of the code's intervals.                        *)
(***************************************************************************)
EXTENDS Integers, Sequences, FiniteSets

CONSTANTS
  CVR_THRESHHOLD_COUNT,          \* clips that may wait; clips lost to the network until the daemon ends
  CVR_UPLOAD_TIMEOUT_INTERVAL,
  timeout,                       \* of the server's configuration, or the one above
  minInterval, maxInterval,      \* of waitingInterval, which doubles at each retry
  Clips                          \* names of clips

NoClip == "none"

ASSUME LegacyAssumption ==
  /\ CVR_THRESHHOLD_COUNT \in Nat \ {0} /\ CVR_UPLOAD_TIMEOUT_INTERVAL \in Nat /\ timeout \in Nat
  /\ minInterval \in Nat \ {0} /\ maxInterval \in Nat /\ minInterval <= maxInterval
  /\ IsFiniteSet(Clips) /\ Clips # {} /\ NoClip \notin Clips

VARIABLES
  disk,              \* the files of clips in /tmp/cvr
  msgQ,              \* clips that wait
  cpc,               \* where CvrUploadThread is
  purge,             \* clips it still has to drop
  clip,              \* upload_params: the clip it uploads
  elapsed,           \* current_time - start_upload_time
  waitingInterval,
  uploadfailcount,
  cvrUploadThreadExit,
  interrupted        \* CVRUpload::term_flag, which SIGINT sets: the recorder's is another one

exits == <<cvrUploadThreadExit, interrupted>>
uvars == <<disk, msgQ, cpc, purge, clip, elapsed, waitingInterval, uploadfailcount, exits>>

Files(c) == {[clip |-> c, kind |-> k] : k \in {"ts", "m_level"}}

\* The intervals are kept by the retries: no clip is worked on past its time.
UploadTypeOK ==
  /\ disk \subseteq UNION {Files(c) : c \in Clips}
  /\ msgQ \in Seq(Clips)
  /\ cpc \in {"none", "size", "purge", "pop", "begin", "post"}
  /\ purge \in Nat /\ clip \in Clips \cup {NoClip}
  /\ elapsed \in 0..CVR_UPLOAD_TIMEOUT_INTERVAL
  /\ waitingInterval \in minInterval..2 * maxInterval
  /\ uploadfailcount \in 0..CVR_THRESHHOLD_COUNT - 1
  /\ cvrUploadThreadExit \in BOOLEAN /\ interrupted \in BOOLEAN

UploadInit ==
  /\ disk = {} /\ msgQ = <<>> /\ cpc = "none" /\ purge = 0 /\ clip = NoClip
  /\ elapsed = 0 /\ waitingInterval = minInterval /\ uploadfailcount = 0
  /\ cvrUploadThreadExit = TRUE /\ interrupted = FALSE

-----------------------------------------------------------------------------
(* The interface the recorder calls. *)

\* cvr_upload_init: the caller does not see that there is no thread.
cvr_upload_init ==
  /\ cvrUploadThreadExit' = FALSE /\ cpc' \in {"size", "none"}
  /\ UNCHANGED <<disk, msgQ, purge, clip, elapsed, waitingInterval, uploadfailcount, interrupted>>

\* cvr_upload: the clip is queued.  The queue has no limit of its own.
cvr_upload(c) ==
  /\ msgQ' = Append(msgQ, c)
  /\ UNCHANGED <<cpc, purge, clip, elapsed, waitingInterval, uploadfailcount, exits>>

cvr_upload_close ==
  /\ cvrUploadThreadExit' = TRUE
  /\ UNCHANGED <<disk, msgQ, cpc, purge, clip, elapsed, waitingInterval, uploadfailcount, interrupted>>

-----------------------------------------------------------------------------
(* CvrUploadThread *)

\* The size, read without the mutex, says how many clips are dropped: all but one.
T_Size ==
  /\ cpc = "size" /\ ~cvrUploadThreadExit
  /\ purge' = IF Len(msgQ) > CVR_THRESHHOLD_COUNT THEN Len(msgQ) - 1 ELSE 0
  /\ cpc' = IF purge' > 0 THEN "purge" ELSE "pop"
  /\ UNCHANGED <<disk, msgQ, clip, elapsed, waitingInterval, uploadfailcount, exits>>

\* PopMsg waits for a clip.
PopMsg == msgQ # <<>> /\ msgQ' = Tail(msgQ)

\* ... leaves the motion levels of the clip behind.
T_Purge_OneFile ==
  /\ cpc = "purge" /\ PopMsg
  /\ disk' = disk \ {[clip |-> Head(msgQ), kind |-> "ts"]}
  /\ purge' = purge - 1 /\ cpc' = IF purge' > 0 THEN "purge" ELSE "pop"
  /\ UNCHANGED <<clip, elapsed, waitingInterval, uploadfailcount, exits>>

\* A clip is dropped with its files; nobody is told.
T_Purge ==
  /\ cpc = "purge" /\ PopMsg
  /\ disk' = disk \ Files(Head(msgQ))
  /\ purge' = purge - 1 /\ cpc' = IF purge' > 0 THEN "purge" ELSE "pop"
  /\ UNCHANGED <<clip, elapsed, waitingInterval, uploadfailcount, exits>>

T_Pop ==
  /\ cpc = "pop" /\ PopMsg
  /\ clip' = Head(msgQ) /\ cpc' = "begin"
  /\ UNCHANGED <<disk, purge, elapsed, waitingInterval, uploadfailcount, exits>>

-----------------------------------------------------------------------------
(* doCVRUpload *)

\* freeResources: the files of the clip go, whatever became of it.
freeResources == disk' = disk \ Files(clip)

\* Back in the thread: clips lost to the network without a success between them end the daemon.
Return(ret) ==
  /\ cpc' = "size" /\ clip' = NoClip /\ elapsed' = 0
  /\ freeResources
  /\ uploadfailcount' = CASE ret = "ok" -> 0
                          [] ret = "curl" -> (uploadfailcount + 1) % CVR_THRESHHOLD_COUNT
                          [] OTHER -> uploadfailcount
  /\ UNCHANGED <<msgQ, purge, exits>>

\* The daemon sends SIGTERM to itself.
Kills(ret) == ret = "curl" /\ uploadfailcount + 1 = CVR_THRESHHOLD_COUNT

\* ... returns without freeResources.
U_Refuse_KeepsFiles ==
  /\ cpc = "begin" /\ cpc' = "size" /\ clip' = NoClip
  /\ UNCHANGED <<disk, msgQ, purge, elapsed, waitingInterval, uploadfailcount, exits>>

\* Up to the loop: a configuration that cannot be read, is disabled or has an http:// address,
\* or a clip without a file, is a failure.
U_Refuse ==
  /\ cpc = "begin"
  /\ Return("fail") /\ UNCHANGED waitingInterval

U_Begin ==
  /\ cpc = "begin" /\ [clip |-> clip, kind |-> "ts"] \in disk
  /\ cpc' = "post"
  /\ UNCHANGED <<disk, msgQ, purge, clip, elapsed, waitingInterval, uploadfailcount, exits>>

\* waitingInterval = minInterval, after the loop.
Break(ret) == Return(ret) /\ waitingInterval' = minInterval

\* After a SIGINT the loop is left before a post: the clip counts as uploaded, or as the post before
\* it ended.
U_Interrupted == cpc = "post" /\ interrupted /\ \E ret \in {"ok", "fail"} : Break(ret)

Posting == cpc = "post" /\ ~interrupted

Over == timeout <= elapsed \/ CVR_UPLOAD_TIMEOUT_INTERVAL <= elapsed

\* The time is over before a post.
U_Timeout == Posting /\ Over /\ Break("timeout")

\* The time a post takes; the client is told the time that remains.
PostTime == 0..CVR_UPLOAD_TIMEOUT_INTERVAL - elapsed

\* The server has the clip.
U_Stored == Posting /\ ~Over /\ Break("ok")

\* 403: the clip is given up.
U_Forbidden == Posting /\ ~Over /\ Break("forbidden")

\* The post has failed so late that the next wait would pass the end, or after the longest wait:
\* an error of the network is one only in the first case.
GivesUp(late, ret) == IF late THEN ret \in {"curl", "fail"}
                              ELSE waitingInterval > maxInterval /\ ret = "fail"

U_GiveUp(ret) ==
  /\ Posting /\ ~Over
  /\ \E t \in PostTime : GivesUp(waitingInterval > CVR_UPLOAD_TIMEOUT_INTERVAL - (elapsed + t), ret)
  /\ Break(ret)

\* ... waits without a look at the time that remains.
U_Retry_Patient ==
  /\ Posting /\ ~Over /\ waitingInterval <= maxInterval
  /\ \E t \in PostTime : elapsed' = elapsed + t + waitingInterval
  /\ waitingInterval' = 2 * waitingInterval
  /\ UNCHANGED <<disk, msgQ, cpc, purge, clip, uploadfailcount, exits>>

\* retryAtExpRate: one more try, after waitingInterval.
U_Retry ==
  /\ Posting /\ ~Over /\ waitingInterval <= maxInterval
  /\ \E t \in PostTime : /\ elapsed' = elapsed + t + waitingInterval
                         /\ elapsed' <= CVR_UPLOAD_TIMEOUT_INTERVAL
  /\ waitingInterval' = 2 * waitingInterval
  /\ UNCHANGED <<disk, msgQ, cpc, purge, clip, uploadfailcount, exits>>

\* cvrUploadSignalHandler
cvrUploadSignalHandler ==
  /\ ~interrupted /\ interrupted' = TRUE
  /\ UNCHANGED <<disk, msgQ, cpc, purge, clip, elapsed, waitingInterval, uploadfailcount, cvrUploadThreadExit>>
=============================================================================
