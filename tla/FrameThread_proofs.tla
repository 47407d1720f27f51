------------------------- MODULE FrameThread_proofs -------------------------
(***************************************************************************)
(* Proofs about the watch of FrameThread, for any queue limit and number   *)
(* of samples.                                                             *)
(***************************************************************************)
EXTENDS FrameThread, TLAPS

-----------------------------------------------------------------------------
(* The counters of the watch. *)

WatchType ==
  /\ counterForSample \in 0..sampleSet - 1 /\ counterHang \in 0..noOfSamples
  /\ idle \in 0..HangIdle

\* Pushes since the last sample.
Since == IF counterForSample = 0 THEN sampleSet - 1 ELSE counterForSample - 1

\* Pushes since the first of the samples without progress, and that one.
Watched == (counterHang - 1) * sampleSet + 1 + Since

\* The samples counted so far all lie after the last upload of another timestamp, unless the watch
\* took that for none; idle stops counting at HangIdle.
Watching == ~newer /\ ~behind /\ counterHang # 0 => idle >= Watched \/ idle = HangIdle

LEMMA SampleSetNat == ThreadConstants => sampleSet \in Nat \ {0} /\ HangIdle \in Nat \ {0}
<1> SUFFICES ASSUME ThreadConstants PROVE sampleSet \in Nat \ {0} /\ HangIdle \in Nat \ {0}
  OBVIOUS
<1>1. sampleSet \in Nat \ {0}
  BY DEF ThreadConstants, sampleSet
<1>2. noOfSamples - 1 \in Nat
  BY DEF ThreadConstants
<1>3. (noOfSamples - 1) * sampleSet \in Nat
  BY <1>1, <1>2
<1> QED
  BY <1>1, <1>3 DEF HangIdle

\* The counter of the samples goes round.
LEMMA RoundTrip ==
  ASSUME NEW S \in Nat \ {0}, NEW c \in 0..S - 1
  PROVE  (c + 1) % S = IF c = S - 1 THEN 0 ELSE c + 1
OBVIOUS

LEMMA TickStep ==
  ASSUME ThreadConstants, counterForSample \in 0..sampleSet - 1, Tick
  PROVE  /\ counterForSample' \in 0..sampleSet - 1
         /\ counterForSample' = IF counterForSample = sampleSet - 1 THEN 0 ELSE counterForSample + 1
BY SampleSetNat, RoundTrip DEF Tick

\* A tick is one push more since the last sample; a sample starts anew.
LEMMA SinceStep ==
  ASSUME ThreadConstants, counterForSample \in 0..sampleSet - 1, Tick
  PROVE  /\ Since \in Nat /\ Since' \in Nat
         /\ counterForSample # 0 => Since' = Since + 1
         /\ counterForSample = 0 => Since' = 0 /\ Since = sampleSet - 1
BY TickStep, SampleSetNat DEF Since

\* What push_KvsFrameInfo does to the watch, whatever frame it is given.
LEMMA CheckHangStep ==
  ASSUME ThreadConstants, WatchType, Watching, NEW f, CheckHang(f)
  PROVE  /\ WatchType' /\ Watching'
         /\ counterHang < noOfSamples /\ counterHang' = noOfSamples => idle' >= HangIdle \/ behind
<1>0. /\ sampleSet \in Nat \ {0} /\ HangIdle \in Nat \ {0} /\ noOfSamples \in Nat \ {0}
      /\ counterForSample \in 0..sampleSet - 1 /\ counterHang \in 0..noOfSamples
      /\ idle \in 0..HangIdle
  BY SampleSetNat DEF ThreadConstants, WatchType
<1>1. behind' = behind /\ idle' = (IF idle < HangIdle /\ ~behind THEN idle + 1 ELSE idle)
  BY DEF CheckHang
<1>2. idle' \in 0..HangIdle /\ (~behind => idle' = idle + 1 \/ idle' = HangIdle)
  BY <1>0, <1>1
<1>3. CASE Tick /\ UNCHANGED <<counterHang, newer>>
  <2>1. WatchType'
    BY <1>0, <1>2, <1>3, TickStep DEF WatchType
  <2>2. ASSUME ~newer', ~behind', counterHang' # 0 PROVE idle' >= Watched' \/ idle' = HangIdle
    <3> DEFINE X == (counterHang - 1) * sampleSet
    <3>1. X \in Int /\ Watched = X + 1 + Since /\ Watched' = X + 1 + Since'
      BY <1>0, <1>3 DEF Watched
    <3>2. Since \in Nat /\ Since' \in Nat /\ Since' <= Since + 1
      BY <1>0, <1>3, <2>2, SinceStep
    <3>3. idle >= X + 1 + Since \/ idle = HangIdle
      <4>1. ~newer /\ ~behind /\ counterHang # 0
        BY <1>1, <1>3, <2>2
      <4> QED
        BY <3>1, <4>1 DEF Watching
    <3> HIDE DEF X
    <3>4. PICK s \in Nat : s = Since
      BY <3>2
    <3>5. PICK t \in Nat : t = Since'
      BY <3>2
    <3>6. t <= s + 1 /\ (idle >= X + 1 + s \/ idle = HangIdle)
      BY <3>2, <3>3, <3>4, <3>5
    <3>7. idle' >= X + 1 + t \/ idle' = HangIdle
      <4>1. idle' = IF idle < HangIdle THEN idle + 1 ELSE idle
        BY <1>1, <2>2
      <4> QED
        BY <1>0, <3>1, <3>6, <4>1
    <3> QED
      BY <3>1, <3>5, <3>7
  <2> QED
    BY <1>0, <1>3, <2>1, <2>2 DEF Watching
<1>4. CASE UNCHANGED <<counterForSample, counterHang, newer>>
  <2>1. WatchType'
    BY <1>0, <1>2, <1>4 DEF WatchType
  <2>2. Watched' = Watched
    BY <1>4 DEF Watched, Since
  <2>3. Watched \in Int
    BY <1>0 DEF Watched, Since
  <2> HIDE DEF Watched
  <2>4. Watching'
    <3> SUFFICES ASSUME ~newer', ~behind', counterHang' # 0
                 PROVE  idle' >= Watched' \/ idle' = HangIdle
      BY DEF Watching
    <3>1. ~newer /\ ~behind /\ counterHang # 0
      BY <1>1, <1>4
    <3>2. idle >= Watched \/ idle = HangIdle
      BY <3>1 DEF Watching
    <3>3. idle' = IF idle < HangIdle THEN idle + 1 ELSE idle
      BY <1>1
    <3> QED
      BY <1>0, <2>2, <2>3, <3>2, <3>3
  <2> QED
    BY <1>0, <1>4, <2>1, <2>4
<1>5. CASE newer' = FALSE /\ counterHang' = 0 /\ counterForSample' = 0
  BY <1>0, <1>2, <1>5 DEF WatchType, Watching
<1>6. CASE /\ counterForSample = 0 /\ ~newer /\ Tick
           /\ counterHang' = IF counterHang < noOfSamples THEN counterHang + 1 ELSE counterHang
  <2>1. WatchType'
    BY <1>0, <1>2, <1>6, TickStep DEF WatchType
  <2>2. ASSUME ~behind PROVE idle' >= Watched' \/ idle' = HangIdle
    <3>1. Since' = 0 /\ Since = sampleSet - 1
      BY <1>0, <1>6, SinceStep
    <3>2. CASE counterHang = 0
      <4>1. Watched' = (1 - 1) * sampleSet + 1 + 0
        BY <1>0, <1>6, <3>1, <3>2 DEF Watched
      <4> QED
        BY <1>0, <1>2, <2>2, <4>1
    <3>3. CASE counterHang # 0
      <4>1. Watched = (counterHang - 1) * sampleSet + sampleSet
        BY <1>0, <3>1 DEF Watched
      <4>2. (counterHang - 1) * sampleSet + sampleSet = counterHang * sampleSet
        BY <1>0
      <4>3. counterHang' \in {counterHang, counterHang + 1}
        BY <1>6
      <4>4. Watched' \in {(counterHang - 1) * sampleSet + 1, counterHang * sampleSet + 1}
        <5>1. Watched' = (counterHang' - 1) * sampleSet + 1 + 0
          BY <3>1 DEF Watched
        <5>2. CASE counterHang' = counterHang
          BY <1>0, <5>1, <5>2
        <5>3. CASE counterHang' = counterHang + 1
          <6>1. counterHang' - 1 = counterHang
            BY <1>0, <5>3
          <6> QED
            BY <1>0, <5>1, <6>1
        <5> QED
          BY <4>3, <5>2, <5>3
      <4>5. (counterHang - 1) * sampleSet \in Int /\ counterHang * sampleSet \in Int
        BY <1>0
      <4>6. idle >= counterHang * sampleSet \/ idle = HangIdle
        BY <1>6, <2>2, <3>3, <4>1, <4>2 DEF Watching
      <4>7. idle' = IF idle < HangIdle THEN idle + 1 ELSE idle
        BY <1>1, <2>2
      <4>8. idle' = HangIdle \/ (idle' = idle + 1 /\ idle >= counterHang * sampleSet)
        BY <1>0, <4>6, <4>7
      <4>9. (counterHang - 1) * sampleSet <= counterHang * sampleSet
        BY <1>0, <4>2, <4>5
      <4> HIDE DEF Watched
      <4>10. PICK lower \in Int, upper \in Int :
               lower = (counterHang - 1) * sampleSet /\ upper = counterHang * sampleSet
        BY <4>5
      <4> QED
        BY <1>0, <4>4, <4>8, <4>9, <4>10
    <3> QED
      BY <3>2, <3>3
  <2>3. counterHang < noOfSamples /\ counterHang' = noOfSamples => idle' >= HangIdle \/ behind
    <3> SUFFICES ASSUME counterHang' = noOfSamples, ~behind PROVE idle' >= HangIdle
      OBVIOUS
    <3>1. Since' = 0
      BY <1>0, <1>6, SinceStep
    <3>2. Watched' = (noOfSamples - 1) * sampleSet + 1 + 0
      BY <1>0, <3>1 DEF Watched
    <3>3. Watched' = HangIdle
      BY <1>0, <3>2 DEF HangIdle
    <3> QED
      BY <1>0, <2>2, <3>3
  <2>4. Watching'
    BY <1>1, <2>2 DEF Watching
  <2> QED
    BY <2>1, <2>3, <2>4
<1>7. \/ Tick /\ UNCHANGED <<counterHang, newer>>
      \/ UNCHANGED <<counterForSample, counterHang, newer>>
      \/ newer' = FALSE /\ counterHang' = 0 /\ counterForSample' = 0
      \/ /\ counterForSample = 0 /\ ~newer /\ Tick
         /\ counterHang' = IF counterHang < noOfSamples THEN counterHang + 1 ELSE counterHang
  <2>1. CASE counterForSample # 0 \/ ~lastUploadedFrame_ts
    BY <2>1 DEF CheckHang
  <2>2. CASE counterForSample = 0 /\ lastUploadedFrame_ts
    <3>1. Sample \/ UNCHANGED <<watch, newer>>
      BY <2>2 DEF CheckHang
    <3> QED
      BY <2>2, <3>1 DEF Sample, watch
  <2> QED
    BY <2>1, <2>2
<1> QED
  BY <1>0, <1>3, <1>4, <1>5, <1>6, <1>7

-----------------------------------------------------------------------------
(* The theorem. *)

\* Actions that leave the watch alone.
LEMMA WatchKept ==
  ASSUME WatchType, Watching, UNCHANGED <<counterForSample, counterHang, idle>>,
         ~newer' /\ ~behind' => ~newer /\ ~behind
  PROVE  WatchType' /\ Watching'
BY DEF WatchType, Watching, Watched, Since, HangIdle, sampleSet

\* An upload of another timestamp starts the count of pushes anew, and the next sample sees it,
\* unless the timestamp is behind.
LEMMA UploadStep ==
  ASSUME ThreadConstants, WatchType, Watching, U_Put
  PROVE  WatchType' /\ Watching' /\ UNCHANGED counterHang
<1>1. UNCHANGED <<counterForSample, counterHang>>
  BY DEF U_Put, Resting, watch
<1>2. UNCHANGED <<idle, newer, behind>> \/ ((newer' \/ behind') /\ idle' = 0)
  BY DEF U_Put, Uploaded, StreamFailed, upload
<1>3. CASE UNCHANGED <<idle, newer, behind>>
  BY <1>1, <1>3, WatchKept
<1>4. CASE (newer' \/ behind') /\ idle' = 0
  BY <1>1, <1>4, SampleSetNat DEF WatchType, Watching, HangIdle, sampleSet
<1> QED
  BY <1>1, <1>2, <1>3, <1>4

\* What a step does to the watch.
LEMMA WatchStep ==
  ASSUME ThreadConstants, WatchType, Watching, [Next]_vars
  PROVE  /\ WatchType' /\ Watching'
         /\ counterHang < noOfSamples /\ counterHang' = noOfSamples => idle' >= HangIdle \/ behind
<1> DEFINE Same == UNCHANGED <<counterForSample, counterHang, newer, behind, idle>>
<1> DEFINE Goal == /\ WatchType' /\ Watching'
                   /\ counterHang < noOfSamples /\ counterHang' = noOfSamples => idle' >= HangIdle \/ behind
<1>0. counterHang \in 0..noOfSamples /\ noOfSamples \in Nat
  BY DEF WatchType, ThreadConstants
<1>1. ASSUME Same PROVE Goal
  BY <1>0, <1>1, WatchKept
<1>2. ASSUME NEW f, CheckHang(f) PROVE Goal
  BY <1>2, CheckHangStep
<1>3. CASE R_KvsInit \/ R_StreamInit \/ R_WaitKeyFrame \/ R_Begin \/ R_RecordEnds \/ R_Disabled \/ self_term
  <2>1. Same
    BY <1>3 DEF R_KvsInit, R_StreamInit, R_WaitKeyFrame, R_Begin, R_RecordEnds, R_Disabled, self_term,
                Quiet, upload, watch
  <2> QED
    BY <2>1, <1>1
<1>4. CASE R_Init \/ R_Top \/ R_Push \/ cvr_close
  <2>1. Same
    BY <1>4 DEF R_Init, R_Top, R_Push, cvr_close, upload, watch
  <2> QED
    BY <2>1, <1>1
<1>5. CASE U_Top \/ pop_KvsFrameInfo \/ U_Hang
  <2>1. Same
    BY <1>5 DEF U_Top, pop_KvsFrameInfo, U_Hang, Resting, upload, watch
  <2> QED
    BY <2>1, <1>1
<1>6. CASE UNCHANGED vars
  <2>1. Same
    BY <1>6 DEF vars, upload, watch
  <2> QED
    BY <2>1, <1>1
<1>7. CASE U_Put
  BY <1>0, <1>7, UploadStep
<1>8. CASE R_StartClip
  <2>1. Same \/ CheckHang(kept)
    BY <1>8 DEF R_StartClip, upload, watch
  <2> QED
    BY <2>1, <1>1, <1>2
<1>9. CASE R_Record
  <2>1. Same \/ CheckHang("frame")
    BY <1>9 DEF R_Record, upload, watch
  <2> QED
    BY <2>1, <1>1, <1>2
<1>10. CASE R_Seek
  <2>1. Same \/ CheckHang("frame")
    BY <1>10 DEF R_Seek, upload, watch
  <2> QED
    BY <2>1, <1>1, <1>2
<1>11. CASE R_Finish
  <2>1. Same \/ CheckHang("end")
    BY <1>11 DEF R_Finish, upload, watch
  <2> QED
    BY <2>1, <1>1, <1>2
<1> HIDE DEF Same
<1> QED
  BY <1>3, <1>4, <1>5, <1>6, <1>7, <1>8, <1>9, <1>10, <1>11 DEF Next, Recorder, Uploader

LEMMA WatchInit ==
  ASSUME ThreadConstants, Init
  PROVE  WatchType /\ Watching
BY SampleSetNat DEF ThreadConstants, Init, ThreadInit, WatchType, Watching

\* The counters of the watch stay in their ranges, and the samples that found no progress all lie
\* after the last upload of another timestamp, unless that one was behind what the watch had noted
\* (push_KvsFrameInfo).
THEOREM WatchKnowsIdle == ASSUME ThreadConstants PROVE Spec => [](WatchType /\ Watching)
<1>1. Init => WatchType /\ Watching
  BY WatchInit
<1>2. WatchType /\ Watching /\ [Next]_vars => (WatchType /\ Watching)'
  BY WatchStep
<1> QED
  BY <1>1, <1>2, PTL DEF Spec

\* The daemon is not killed for a hang while frames go out, unless the last of them was behind the
\* timestamp the watch had noted, whatever the limit of the queue and the number of samples
\* (push_KvsFrameInfo).
THEOREM HangsAreReal == ASSUME ThreadConstants PROVE Spec => HangJustified
<1> DEFINE Fair == counterHang < noOfSamples /\ counterHang' = noOfSamples => idle' >= HangIdle \/ behind
<1>1. WatchType /\ Watching /\ [Next]_vars => [Fair]_vars
  BY WatchStep
<1>2. HangJustified <=> [][Fair]_vars
  BY DEF HangJustified
<1>3. Spec => [](WatchType /\ Watching)
  BY WatchKnowsIdle
<1> HIDE DEF Fair
<1> QED
  BY <1>1, <1>2, <1>3, PTL DEF Spec

-----------------------------------------------------------------------------
(* The types. *)

\* The rest of TypeOK, by the parts that steps leave alone together.  A client that may be tried
\* again has a retry left.
PlacesType ==
  /\ pc \in {"init", "stream", "top", "open", "wait", "begin", "start", "rec", "seek", "finish", "close", "done"}
  /\ retry \in 0..KVSINITMAXRETRY + 1 /\ (pc = "init" => retry <= KVSINITMAXRETRY)
  /\ kept \in {"none", "frame", "next"}
FlagsType ==
  /\ term_flag \in BOOLEAN /\ init_flag \in BOOLEAN /\ local_stream_err \in BOOLEAN
  /\ m_kvsUploadThreadExit \in BOOLEAN
  /\ lastUploadedFrame_ts \in BOOLEAN /\ newer \in BOOLEAN /\ lastEnd \in BOOLEAN
  /\ behind \in BOOLEAN
QueueType ==
  /\ pushing \in Frames \cup {"none"}
  /\ kvsDataQ \in Seq(Frames) /\ Len(kvsDataQ) <= KVSUPLOAD_Q_SIZE_LIMIT
  /\ upc \in {"none", "top", "pop", "put", "hung", "exited"}
  /\ topKvsUploadData \in Frames \cup {"none"}

Types == PlacesType /\ FlagsType /\ QueueType

LEMMA TypesGiveTypeOK == Types /\ WatchType => TypeOK
BY DEF TypeOK, Types, PlacesType, FlagsType, QueueType, WatchType

LEMMA LimitPositive == ThreadConstants => KVSUPLOAD_Q_SIZE_LIMIT \in Nat \ {0}
BY DEF ThreadConstants, sampleSet

\* push_KvsFrameInfo up to its mutex.
LEMMA CheckHangTypes ==
  ASSUME QueueType, FlagsType, NEW f \in Frames, CheckHang(f), UNCHANGED thread
  PROVE  QueueType' /\ term_flag' \in BOOLEAN /\ newer' \in BOOLEAN
         /\ UNCHANGED <<lastUploadedFrame_ts, lastEnd, behind>>
<1>1. UNCHANGED <<kvsDataQ, upc, topKvsUploadData, lastUploadedFrame_ts, lastEnd, behind>> /\ pushing' = f
  BY DEF CheckHang, thread
<1>2. Sample \/ UNCHANGED <<newer, term_flag>>
  BY DEF CheckHang
<1>3. term_flag' \in BOOLEAN /\ newer' \in BOOLEAN
  BY <1>2 DEF Sample, FlagsType
<1> QED
  BY <1>1, <1>3 DEF QueueType

LEMMA TypeStep ==
  ASSUME ThreadConstants, Types, [Next]_vars
  PROVE  Types'
<1> USE DEF Types
<1>1. CASE R_KvsInit \/ R_StreamInit \/ R_WaitKeyFrame \/ R_Begin
  <2>1. PlacesType'
    <3>1. CASE R_KvsInit
      <4>1. KVSINITMAXRETRY \in Nat /\ retry \in 0..KVSINITMAXRETRY
        BY <3>1 DEF ThreadConstants, PlacesType, R_KvsInit, At
      <4> QED
        BY <3>1, <4>1 DEF PlacesType, R_KvsInit, Goto
    <3> QED
      BY <1>1, <3>1 DEF PlacesType, R_StreamInit, R_WaitKeyFrame, R_Begin, createkvsstream, At, Goto
  <2>2. FlagsType'
    BY <1>1 DEF FlagsType, R_KvsInit, R_StreamInit, R_WaitKeyFrame, R_Begin, Quiet, flags, thread, upload
  <2>3. QueueType'
    BY <1>1 DEF QueueType, R_KvsInit, R_StreamInit, R_WaitKeyFrame, R_Begin, Quiet, queue, thread
  <2> QED
    BY <2>1, <2>2, <2>3
<1>2. CASE R_Init \/ R_Top
  <2>1. PlacesType'
    BY <1>2 DEF ThreadConstants, PlacesType, R_Init, R_Top, createkvsstream, At, Goto
  <2>2. FlagsType'
    BY <1>2 DEF FlagsType, R_Init, R_Top, Quiet, flags, thread, upload
  <2>3. QueueType'
    BY <1>2 DEF QueueType, R_Init, R_Top, Quiet, queue, thread
  <2> QED
    BY <2>1, <2>2, <2>3
<1>3. CASE R_RecordEnds \/ R_Disabled \/ cvr_close \/ self_term
  <2>1. PlacesType'
    BY <1>3 DEF ThreadConstants, PlacesType, R_RecordEnds, R_Disabled, cvr_close, self_term, At, Goto
  <2>2. FlagsType'
    BY <1>3 DEF FlagsType, R_RecordEnds, R_Disabled, cvr_close, self_term, Quiet, flags, thread, upload
  <2>3. QueueType'
    BY <1>3 DEF QueueType, R_RecordEnds, R_Disabled, cvr_close, self_term, Quiet, queue, thread
  <2> QED
    BY <2>1, <2>2, <2>3
<1>4. CASE R_Push
  <2>1. kvsDataQ' \in Seq(Frames) /\ Len(kvsDataQ') <= KVSUPLOAD_Q_SIZE_LIMIT
    BY <1>4, LimitPositive DEF R_Push, QueueType
  <2> QED
    BY <1>4, <2>1 DEF R_Push, PlacesType, FlagsType, QueueType, flags, thread, upload
<1>5. CASE R_StartClip
  <2>1. CASE kept # "none"
    <3>1. kept \in Frames /\ CheckHang(kept) /\ UNCHANGED thread
      BY <1>5, <2>1 DEF R_StartClip, PlacesType, Frames
    <3> QED
      BY <1>5, <2>1, <3>1, CheckHangTypes DEF R_StartClip, PlacesType, FlagsType, Goto, thread
  <2>2. CASE kept = "none"
    BY <1>5, <2>2 DEF R_StartClip, PlacesType, FlagsType, QueueType, Goto, queue, upload, thread
  <2> QED
    BY <2>1, <2>2
<1>6. CASE R_Record \/ R_Seek
  <2>1. CASE CheckHang("frame")
    <3>1. "frame" \in Frames /\ UNCHANGED thread
      BY <1>6 DEF R_Record, R_Seek, Frames
    <3>2. UNCHANGED <<retry, init_flag, m_kvsUploadThreadExit>>
      BY <1>6 DEF R_Record, R_Seek, thread
    <3>3. pc' \in {pc, "close", "finish"} /\ kept' \in {kept, "next"} /\ local_stream_err' \in {local_stream_err, TRUE}
      BY <1>6 DEF R_Record, R_Seek, Goto
    <3>4. QueueType' /\ term_flag' \in BOOLEAN /\ newer' \in BOOLEAN
          /\ UNCHANGED <<lastUploadedFrame_ts, lastEnd, behind>>
      BY <2>1, <3>1, CheckHangTypes
    <3>5. PlacesType'
      BY <3>2, <3>3 DEF PlacesType
    <3>6. FlagsType'
      BY <3>2, <3>3, <3>4 DEF FlagsType
    <3> QED
      BY <3>4, <3>5, <3>6
  <2>2. CASE UNCHANGED <<term_flag, queue, upload>>
    <3>1. PlacesType'
      BY <1>6 DEF R_Record, R_Seek, PlacesType, Goto
    <3>2. FlagsType'
      BY <1>6, <2>2 DEF R_Record, R_Seek, FlagsType, upload, thread
    <3>3. QueueType'
      BY <1>6, <2>2 DEF R_Record, R_Seek, QueueType, queue, thread
    <3> QED
      BY <3>1, <3>2, <3>3
  <2> QED
    BY <1>6, <2>1, <2>2 DEF R_Record, R_Seek
<1>7. CASE R_Finish
  <2>1. CASE term_flag \/ local_stream_err
    BY <1>7, <2>1 DEF R_Finish, PlacesType, FlagsType, QueueType, Goto, queue, upload, thread
  <2>2. CASE ~(term_flag \/ local_stream_err)
    <3>1. CheckHang("end") /\ "end" \in Frames /\ UNCHANGED thread
      BY <1>7, <2>2 DEF R_Finish, Frames
    <3> QED
      BY <1>7, <3>1, CheckHangTypes DEF R_Finish, PlacesType, FlagsType, Goto, thread
  <2> QED
    BY <2>1, <2>2
<1>8. CASE U_Top \/ U_Hang
  BY <1>8 DEF PlacesType, FlagsType, QueueType, U_Top, U_Hang, Resting, upload
<1>9. CASE pop_KvsFrameInfo
  <2>1. \/ UNCHANGED kvsDataQ /\ topKvsUploadData' = "none"
        \/ kvsDataQ # <<>> /\ topKvsUploadData' = Head(kvsDataQ) /\ kvsDataQ' = Tail(kvsDataQ)
    BY <1>9 DEF pop_KvsFrameInfo
  <2>2. /\ kvsDataQ' \in Seq(Frames) /\ Len(kvsDataQ') <= KVSUPLOAD_Q_SIZE_LIMIT
        /\ topKvsUploadData' \in Frames \cup {"none"}
    BY <2>1, LimitPositive DEF QueueType
  <2>3. QueueType'
    BY <1>9, <2>2 DEF QueueType, pop_KvsFrameInfo, Resting
  <2> QED
    BY <1>9, <2>3 DEF PlacesType, FlagsType, pop_KvsFrameInfo, Resting, upload
<1>10. CASE U_Put
  <2>1. (pc' \in {pc, "done"} /\ UNCHANGED <<upload, idle>>) \/ (pc' = pc /\ Uploaded)
    BY <1>10 DEF U_Put, Uploaded, StreamFailed
  <2>2. PlacesType'
    BY <1>10, <2>1 DEF U_Put, Resting, PlacesType
  <2>3. FlagsType'
    <3>1. UNCHANGED <<term_flag, init_flag, local_stream_err, m_kvsUploadThreadExit>>
      BY <1>10 DEF U_Put, Resting
    <3>2. CASE UNCHANGED upload
      BY <3>1, <3>2 DEF FlagsType, upload
    <3>3. CASE Uploaded
      <4>1. lastUploadedFrame_ts' \in BOOLEAN /\ lastEnd' \in BOOLEAN
        BY <3>3 DEF Uploaded
      <4>2. newer' \in BOOLEAN /\ behind' \in BOOLEAN
        <5>1. \/ UNCHANGED <<newer, behind>>
              \/ newer' \in BOOLEAN /\ behind' = ~newer'
          BY <3>3 DEF Uploaded
        <5> QED
          BY <5>1 DEF FlagsType
      <4> QED
        BY <3>1, <4>1, <4>2 DEF FlagsType
    <3> QED
      BY <2>1, <3>2, <3>3
  <2>4. QueueType'
    BY <1>10 DEF U_Put, Resting, QueueType
  <2> QED
    BY <2>2, <2>3, <2>4
<1>11. CASE UNCHANGED vars
  BY <1>11 DEF PlacesType, FlagsType, QueueType, vars, flags, queue, thread, upload
<1> QED
  BY <1>1, <1>2, <1>3, <1>4, <1>5, <1>6, <1>7, <1>8, <1>9, <1>10, <1>11 DEF Next, Recorder, Uploader

LEMMA TypeInit ==
  ASSUME ThreadConstants, Init
  PROVE  Types
<1>1. PlacesType
  BY DEF ThreadConstants, Init, ThreadInit, PlacesType
<1>2. FlagsType
  BY DEF Init, ThreadInit, FlagsType
<1>3. QueueType
  BY LimitPositive DEF Init, ThreadInit, QueueType
<1> QED
  BY <1>1, <1>2, <1>3 DEF Types

\* The types, for every limit of the queue, number of samples and of retries; the queue stays
\* within its limit.
THEOREM TypeCorrect == ASSUME ThreadConstants PROVE Spec => []TypeOK
<1>1. Init => Types
  BY TypeInit
<1>2. Types /\ [Next]_vars => Types'
  BY TypeStep
<1>3. Spec => [](WatchType /\ Watching)
  BY WatchKnowsIdle
<1> QED
  BY <1>1, <1>2, <1>3, TypesGiveTypeOK, PTL DEF Spec
=============================================================================
