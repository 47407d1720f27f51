------------------------------ MODULE MCDaemons ------------------------------
(* An image carries one daemon.  Two of them that are small enough to be run   *)
(* at once: LegacyDaemon and FrameThread, which share the names of the         *)
(* variables of do_cvr that both have.                                         *)
EXTENDS LegacyDaemon

CONSTANTS KVSUPLOAD_Q_SIZE_LIMIT, noOfSamples, KVSINITMAXRETRY

VARIABLES image, retry, kept, pushing, kvsDataQ, upc, topKvsUploadData, m_kvsUploadThreadExit,
          lastUploadedFrame_ts, newer, lastEnd, behind, counterForSample, counterHang, idle

Threaded == INSTANCE FrameThread

ASSUME ThreadAssumption == Threaded!ThreadConstants

legacyvars == <<uvars, has_an_iframe, second, file_name>>
threadvars == <<retry, kept, pushing, kvsDataQ, upc, topKvsUploadData, m_kvsUploadThreadExit,
                lastUploadedFrame_ts, newer, lastEnd, behind, counterForSample, counterHang, idle>>
allvars == <<image, vars, threadvars>>

MCInit == Init /\ retry = 0 /\ Threaded!ThreadInit /\ image \in {"legacy", "thread"}

Legacy(A) == image = "legacy" /\ A /\ UNCHANGED <<image, threadvars>>
Thread(A) == image = "thread" /\ A /\ UNCHANGED <<image, legacyvars>>

MCNext == Legacy(Next) \/ Thread(Threaded!Next)

MCSpec == /\ MCInit /\ [][MCNext]_allvars
          /\ WF_allvars(Legacy(Uploader))
          /\ WF_allvars(Thread(Threaded!Recorder)) /\ WF_allvars(Thread(Threaded!Uploader))

\* TypeOK of the daemon the image carries.
ImageTypeOK == (image = "legacy" => TypeOK) /\ (image = "thread" => Threaded!TypeOK)

\* FrameThread!HangJustified: the watch over the upload thread ends the daemon only when a whole
\* series of samples went by without an upload of another timestamp, or the last upload was not
\* past the timestamp the watch had noted (push_KvsFrameInfo).
HangJustified == Threaded!HangJustified

\* FrameThread!HangDetected: an upload that never returns ends the daemon when frames go on coming.
HangDetected == Threaded!HangDetected
=============================================================================
