----------------------------- MODULE FrameThread -----------------------------
(***************************************************************************)
(* The daemon of kvs/framethreadupload: CVR::do_cvr reads the camera and   *)
(* queues the frames, and the thread CVR::pushFramesToKVS puts them into   *)
(* the stream.  The recorder watches the thread: when the timestamp of the *)
(* last frame uploaded does not move, the daemon kills itself.             *)
(*                                                                         *)
(* A frame is the end of a clip, the I frame it was cut at, or another.    *)
(* The watch compares timestamps as the camera gave them: of the frame     *)
(* uploaded last the model knows whether its timestamp is past the one the *)
(* watch noted at its last sample.  It need not be: sound has timestamps   *)
(* of its own, and they start again with the camera.  What the stream does *)
(* with a frame is its status: FrameStream has the rest.                   *)
(***************************************************************************)
EXTENDS Integers, Sequences

CONSTANTS
  KVSUPLOAD_Q_SIZE_LIMIT,
  noOfSamples,       \* samples without progress that make a hang
  KVSINITMAXRETRY

sampleSet == KVSUPLOAD_Q_SIZE_LIMIT \div noOfSamples   \* frames between two samples

\* What is assumed of them.
ThreadConstants == /\ noOfSamples \in Nat \ {0} /\ KVSUPLOAD_Q_SIZE_LIMIT \in Nat
                   /\ sampleSet > 0 /\ KVSINITMAXRETRY \in Nat

VARIABLES
  pc,                      \* where cvr_init or do_cvr is
  retry,                   \* failures of kvsInit
  term_flag, init_flag, local_stream_err,
  kept,                    \* the I frame kept for the next clip: "none" when has_an_iframe is 0
  pushing,                 \* the frame in push_KvsFrameInfo, past the check for a hang
  kvsDataQ,
  upc, topKvsUploadData,   \* the upload thread and its frame
  m_kvsUploadThreadExit,
  lastUploadedFrame_ts,    \* it is not 0
  newer,                   \* it is past prevUploadedFrame_ts
  lastEnd,                 \* it is the timestamp of an end
  behind,                  \* ghost: it was not past prevUploadedFrame_ts when it was uploaded
  counterForSample,        \* modulo sampleSet
  counterHang,
  idle                     \* ghost: frames pushed since the last upload of another timestamp, up to
                           \* HangIdle; not counted when that upload was behind

queue  == <<kvsDataQ, pushing>>
watch  == <<counterForSample, counterHang>>
upload == <<lastUploadedFrame_ts, newer, lastEnd, behind>>
thread == <<upc, topKvsUploadData, m_kvsUploadThreadExit>>
flags  == <<term_flag, init_flag, local_stream_err>>
vars   == <<pc, retry, flags, kept, queue, thread, upload, watch, idle>>

Frames   == {"frame", "next", "end"}
HangIdle == (noOfSamples - 1) * sampleSet + 1   \* pushes it takes to see a hang

TypeOK ==
  /\ pc \in {"init", "stream", "top", "open", "wait", "begin", "start", "rec", "seek", "finish", "close", "done"}
  /\ retry \in 0..KVSINITMAXRETRY + 1
  /\ \A b \in {term_flag, init_flag, local_stream_err,
               m_kvsUploadThreadExit, lastUploadedFrame_ts, newer, lastEnd, behind} : b \in BOOLEAN
  /\ kept \in {"none", "frame", "next"} /\ pushing \in Frames \cup {"none"}
  /\ kvsDataQ \in Seq(Frames) /\ Len(kvsDataQ) <= KVSUPLOAD_Q_SIZE_LIMIT
  /\ upc \in {"none", "top", "pop", "put", "hung", "exited"} /\ topKvsUploadData \in Frames \cup {"none"}
  /\ counterForSample \in 0..sampleSet - 1 /\ counterHang \in 0..noOfSamples
  /\ idle \in 0..HangIdle

ThreadInit ==
  /\ kept = "none" /\ pushing = "none" /\ kvsDataQ = <<>>
  /\ upc = "none" /\ topKvsUploadData = "none" /\ m_kvsUploadThreadExit = FALSE
  /\ lastUploadedFrame_ts = FALSE /\ newer = FALSE /\ lastEnd = FALSE /\ behind = FALSE
  /\ counterForSample = 0 /\ counterHang = 0 /\ idle = 0

Init ==
  /\ pc = "init" /\ retry = 0
  /\ term_flag = FALSE /\ init_flag = FALSE /\ local_stream_err = FALSE
  /\ ThreadInit

-----------------------------------------------------------------------------
(* The queue and the watch. *)

\* kvsDataQ.front().isEndofSegment, read without the mutex and of an empty queue, too.
FrontIsEnd == IF kvsDataQ = <<>> THEN BOOLEAN ELSE {Head(kvsDataQ) = "end"}

Tick == counterForSample' = (counterForSample + 1) % sampleSet

\* ... without the reset: samples that had progress between them add up.
Sample_Adds ==
  \/ /\ newer /\ newer' = FALSE
     /\ counterForSample' = 0 /\ UNCHANGED <<counterHang, term_flag>>
  \/ /\ ~newer /\ Tick
     /\ counterHang' = IF counterHang < noOfSamples THEN counterHang + 1 ELSE counterHang
     /\ term_flag' = (term_flag \/ counterHang' = noOfSamples)
     /\ UNCHANGED newer

\* ... takes a timestamp that stands still for progress.
Sample_Equal ==
  /\ newer' = FALSE /\ counterHang' = 0 /\ counterForSample' = 0 /\ UNCHANGED term_flag

\* A sample: the timestamp has moved, or it has not and the daemon may have to go.
Sample ==
  \/ /\ newer /\ newer' = FALSE
     /\ counterHang' = 0 /\ counterForSample' = 0 /\ UNCHANGED term_flag
  \/ /\ ~newer /\ Tick
     /\ counterHang' = IF counterHang < noOfSamples THEN counterHang + 1 ELSE counterHang
     /\ term_flag' = (term_flag \/ counterHang' = noOfSamples)
     /\ UNCHANGED newer

\* push_KvsFrameInfo up to its mutex.  There is no sample before the first upload, nor while the
\* end of a clip is in front: then the next frame is sampled.
CheckHang(frame) ==
  /\ pushing = "none" /\ pushing' = frame
  /\ idle' = IF idle < HangIdle /\ ~behind THEN idle + 1 ELSE idle
  /\ IF counterForSample # 0 \/ ~lastUploadedFrame_ts
     THEN Tick /\ UNCHANGED <<counterHang, newer, term_flag>>
     ELSE \E isEnd \in FrontIsEnd :
            IF isEnd THEN UNCHANGED <<watch, newer, term_flag>> ELSE Sample
  /\ UNCHANGED <<lastUploadedFrame_ts, lastEnd, behind, kvsDataQ>>

\* The rest of push_KvsFrameInfo: a full queue loses its oldest frame.
R_Push ==
  /\ pushing # "none" /\ pc # "done"
  /\ kvsDataQ' = Append(IF Len(kvsDataQ) >= KVSUPLOAD_Q_SIZE_LIMIT THEN Tail(kvsDataQ) ELSE kvsDataQ, pushing)
  /\ pushing' = "none"
  /\ UNCHANGED <<pc, retry, flags, kept, thread, upload, watch, idle>>

-----------------------------------------------------------------------------
(* The recorder. *)

\* The recorder is not in push_KvsFrameInfo.
At(places) == pushing = "none" /\ pc \in places

Goto(next) == pc' = next

Quiet == UNCHANGED <<queue, thread, upload, watch, idle>>

\* kvsInit makes the client or throws; where the environment has no credentials the name of the
\* stream is copied from a pointer nobody set.
kvsInit == {"ready", "thrown", "crashed"}

\* The loop of createkvsstream around it.
R_KvsInit ==
  /\ At({"init"})
  /\ \E outcome \in kvsInit :
       \/ outcome = "ready" /\ Goto("stream") /\ retry' = 0
       \/ /\ outcome = "thrown"
          /\ retry' = retry + 1 /\ Goto(IF retry' > KVSINITMAXRETRY THEN "close" ELSE "init")
       \/ outcome = "crashed" /\ Goto("done") /\ UNCHANGED retry
  /\ UNCHANGED <<flags, kept>> /\ Quiet

\* createkvsstream: a stream that cannot be created ends the process.
createkvsstream(next) == Goto(next) \/ Goto("close")

\* The end of cvr_init: configuration, stream, upload thread.
R_Init ==
  /\ At({"stream"})
  /\ createkvsstream("top")
  /\ upc' = IF pc' = "top" THEN "top" ELSE upc
  /\ UNCHANGED <<retry, term_flag, init_flag, local_stream_err, kept, queue, topKvsUploadData,
                 m_kvsUploadThreadExit, upload, watch, idle>>

\* The head of the main loop: a failed session is closed, and CVR that is disabled closes
\* its session and takes the timestamp from the watch.  The configuration may be another one
\* whenever the loop looks.
R_Top ==
  /\ At({"top"})
  /\ IF term_flag
     THEN Goto("close") /\ UNCHANGED <<init_flag, local_stream_err, lastUploadedFrame_ts>>
     ELSE /\ local_stream_err' = (local_stream_err /\ ~init_flag)
          /\ \/ Goto("top") /\ init_flag' = FALSE /\ lastUploadedFrame_ts' = FALSE
             \/ /\ init_flag' = (init_flag /\ ~local_stream_err) /\ UNCHANGED lastUploadedFrame_ts
                /\ Goto(IF init_flag' THEN "begin" ELSE "open")
  /\ UNCHANGED <<retry, term_flag, kept, queue, thread, newer, lastEnd, behind, watch, idle>>

R_StreamInit ==
  /\ At({"open"})
  /\ \/ Goto("top") /\ UNCHANGED init_flag
     \/ Goto("wait") /\ init_flag' = TRUE
  /\ UNCHANGED <<retry, term_flag, local_stream_err, kept>> /\ Quiet

\* The wait for the first I frame; three seconds without data are an error.
R_WaitKeyFrame ==
  /\ At({"wait"}) /\ Goto("begin")
  /\ \/ term_flag /\ UNCHANGED <<local_stream_err, kept>>
     \/ ~term_flag /\ kept' = "frame" /\ UNCHANGED local_stream_err
     \/ ~term_flag /\ local_stream_err' = TRUE /\ UNCHANGED kept
  /\ UNCHANGED <<retry, term_flag, init_flag>> /\ Quiet

\* A failed read goes back to the top; another audio setting wants another stream, whatever
\* the upload thread does with the old one: a frame it is putting may find none and crash.
R_Begin ==
  /\ At({"begin"})
  /\ \/ local_stream_err /\ Goto("top")
     \/ ~local_stream_err /\ Goto("start")
     \/ ~local_stream_err /\ createkvsstream("start")
     \/ ~local_stream_err /\ upc = "put" /\ Goto("done")
  /\ UNCHANGED <<retry, term_flag, init_flag, local_stream_err, kept>> /\ Quiet

R_StartClip ==
  /\ At({"start"}) /\ Goto("rec")
  /\ IF kept # "none" THEN CheckHang(kept) /\ kept' = "none"
                      ELSE UNCHANGED <<kept, term_flag, queue, upload, watch, idle>>
  /\ UNCHANGED <<retry, init_flag, local_stream_err, thread>>

\* The duration of the clip is over without an I frame: the search for one.
R_RecordEnds ==
  /\ At({"rec"}) /\ Goto(IF term_flag THEN "close" ELSE "seek")
  /\ UNCHANGED <<retry, flags, kept>> /\ Quiet

\* The configuration disables CVR: the daemon terminates itself.
R_Disabled ==
  /\ At({"rec"}) /\ ~term_flag
  /\ term_flag' = TRUE /\ Goto("close")
  /\ UNCHANGED <<retry, init_flag, local_stream_err, kept>> /\ Quiet

\* One read in the record loop: nothing there, a failure that ends the main loop, the I frame
\* of the next clip, or a frame to push.
R_Record ==
  /\ At({"rec"}) /\ ~term_flag
  /\ \/ /\ local_stream_err' = TRUE /\ Goto("close")
        /\ UNCHANGED <<kept, term_flag, queue, upload, watch, idle>>
     \/ /\ kept' = "next" /\ Goto("finish")
        /\ UNCHANGED <<local_stream_err, term_flag, queue, upload, watch, idle>>
     \/ CheckHang("frame") /\ UNCHANGED <<kept, local_stream_err, pc>>
  /\ UNCHANGED <<retry, init_flag, thread>>

\* One read in the search for the I frame of the next clip.
R_Seek ==
  /\ At({"seek"})
  /\ \/ /\ term_flag /\ Goto("finish")
        /\ UNCHANGED <<kept, local_stream_err, term_flag, queue, upload, watch, idle>>
     \/ /\ ~term_flag /\ local_stream_err' = TRUE /\ Goto("finish")
        /\ UNCHANGED <<kept, term_flag, queue, upload, watch, idle>>
     \/ /\ ~term_flag /\ kept' = "next" /\ Goto("finish")
        /\ UNCHANGED <<local_stream_err, term_flag, queue, upload, watch, idle>>
     \/ ~term_flag /\ CheckHang("frame") /\ UNCHANGED <<kept, local_stream_err, pc>>
  /\ UNCHANGED <<retry, init_flag, thread>>

\* The end of the clip, with the timestamp of the I frame kept, unless the camera failed.
R_Finish ==
  /\ At({"finish"}) /\ Goto("top")
  /\ IF term_flag \/ local_stream_err THEN UNCHANGED <<term_flag, queue, upload, watch, idle>>
                                      ELSE CheckHang("end")
  /\ UNCHANGED <<retry, init_flag, local_stream_err, kept, thread>>

\* After the loop the upload thread is told, and the process ends with main.
cvr_close ==
  /\ At({"close"})
  /\ IF m_kvsUploadThreadExit
     THEN Goto("done") /\ UNCHANGED <<init_flag, m_kvsUploadThreadExit>>
     ELSE init_flag' = FALSE /\ m_kvsUploadThreadExit' = TRUE /\ UNCHANGED pc
  /\ UNCHANGED <<retry, term_flag, local_stream_err, kept, queue,
                 upc, topKvsUploadData, upload, watch, idle>>

-----------------------------------------------------------------------------
(* The upload thread. *)

Alive == pc # "done"

Resting == UNCHANGED <<retry, term_flag, init_flag, local_stream_err, kept, pushing,
                       m_kvsUploadThreadExit, watch>>

\* while (!term_flag && !m_kvsUploadThreadExit)
U_Top ==
  /\ Alive /\ upc = "top"
  /\ upc' = IF term_flag \/ m_kvsUploadThreadExit THEN "exited" ELSE "pop"
  /\ UNCHANGED <<pc, kvsDataQ, topKvsUploadData, upload, idle>> /\ Resting

\* pop_KvsFrameInfo: it waits for a frame.  At the end there is an empty one, uploaded all the same.
pop_KvsFrameInfo ==
  /\ Alive /\ upc = "pop" /\ upc' = "put"
  /\ \/ m_kvsUploadThreadExit /\ topKvsUploadData' = "none" /\ UNCHANGED kvsDataQ
     \/ /\ ~m_kvsUploadThreadExit /\ kvsDataQ # <<>>
        /\ topKvsUploadData' = Head(kvsDataQ) /\ kvsDataQ' = Tail(kvsDataQ)
  /\ UNCHANGED <<pc, upload, idle>> /\ Resting

\* The end of a clip is not put: 1 when the stream was silent and could not be reset.
EndStatus == {0, 1}

\* A frame is put, -1 when it was refused; or the stream has failed before, 1.
kvsUploadFrames == IF topKvsUploadData = "end" THEN EndStatus ELSE {-1, 0, 1}

\* Status 0: the timestamp is that of the frame, and the watch compares it with the one it noted.
\* The end of a clip has the timestamp of the I frame it was cut at, which comes next unless the
\* queue has lost it; the empty frame has none.
Uploaded ==
  /\ lastUploadedFrame_ts' = (topKvsUploadData # "none")
  /\ lastEnd' = (topKvsUploadData = "end")
  /\ \/ topKvsUploadData = "next" /\ lastEnd /\ UNCHANGED <<newer, behind, idle>>
     \/ /\ newer' \in IF topKvsUploadData = "none" THEN {FALSE} ELSE BOOLEAN
        /\ behind' = ~newer' /\ idle' = 0
  /\ UNCHANGED pc

\* Status 1: only at the end of a clip there is a new stream, or the end of the process.
StreamFailed ==
  /\ UNCHANGED pc \/ (topKvsUploadData = "end" /\ pc' = "done")
  /\ UNCHANGED <<upload, idle>>

U_Put ==
  /\ Alive /\ upc = "put" /\ upc' = "top" /\ topKvsUploadData' = "none"
  /\ \E ret \in kvsUploadFrames : \/ ret = 0 /\ Uploaded
                                  \/ ret = 1 /\ StreamFailed
                                  \/ ret = -1 /\ UNCHANGED <<pc, upload, idle>>
  /\ UNCHANGED kvsDataQ /\ Resting

\* The SDK does not return.
U_Hang ==
  /\ Alive /\ upc = "put" /\ upc' = "hung"
  /\ UNCHANGED <<pc, kvsDataQ, topKvsUploadData, upload, idle>> /\ Resting

\* SIGTERM from outside.
self_term ==
  /\ Alive /\ ~term_flag /\ term_flag' = TRUE
  /\ UNCHANGED <<pc, retry, init_flag, local_stream_err, kept>> /\ Quiet

-----------------------------------------------------------------------------
Recorder == \/ R_KvsInit \/ R_Init \/ R_Top \/ R_StreamInit \/ R_WaitKeyFrame \/ R_Begin \/ R_StartClip
            \/ R_RecordEnds \/ R_Disabled \/ R_Record \/ R_Seek \/ R_Finish \/ R_Push \/ cvr_close

Uploader == U_Top \/ pop_KvsFrameInfo \/ U_Put

Next == Recorder \/ Uploader \/ U_Hang \/ self_term

\* Both threads are scheduled.  The camera need not deliver, nor the SDK return.
Spec == Init /\ [][Next]_vars /\ WF_vars(Recorder) /\ WF_vars(Uploader)

-----------------------------------------------------------------------------
(* What the watch promises. *)

\* The daemon is not killed for a hang while frames go out: all through the samples it took, there
\* was no upload but of the timestamp uploaded before (push_KvsFrameInfo).  One exception: the
\* frame uploaded last was not past the timestamp the watch had noted, like sound older than the
\* frame before it, or any frame once the camera's timestamps have started again; such uploads
\* count for nothing.
HangJustified ==
  [][counterHang < noOfSamples /\ counterHang' = noOfSamples => idle' >= HangIdle \/ behind]_vars

\* An upload that never returns ends the daemon, when frames go on coming, once something had been
\* uploaded since CVR was enabled.
HangDetected ==
  []<><<R_Push>>_vars => (upc = "hung" /\ lastUploadedFrame_ts ~> term_flag \/ ~lastUploadedFrame_ts)
=============================================================================
