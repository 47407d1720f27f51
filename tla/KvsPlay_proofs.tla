--------------------------- MODULE KvsPlay_proofs ---------------------------
(***************************************************************************)
(* Proofs, for any number of clips, of the type invariant of KvsPlay and   *)
(* of SuccessesAcked.                                                      *)
(***************************************************************************)
EXTENDS KvsPlay, FiniteSetTheorems, TLAPS

-----------------------------------------------------------------------------
(* Type correctness. *)

\* Before the first clip nothing plays.
Started == clip = 0 => pc = "idle" /\ \A t \in Tracks : track[t] = "off"

TypeInv == TypeOK /\ Started

LEMMA TypeInit == Init => TypeInv
<1> SUFFICES ASSUME Init PROVE TypeInv
  OBVIOUS
<1>1. /\ mainloop_running \in BOOLEAN /\ is_running \in BOOLEAN
      /\ connection_error \in BOOLEAN /\ clip_upload_status_ \in BOOLEAN
      /\ eos_triggered \in BOOLEAN /\ put_frame_flushed \in BOOLEAN
      /\ audio \in BOOLEAN /\ bus_eos \in BOOLEAN /\ early \in BOOLEAN
  BY Zenon DEF Init
<1>2. clip \in 0..MaxClips /\ oks \subseteq Clips
  BY MaxClipsAssumption DEF MaxClipsAssumption, Init
<1>3. track \in [Tracks -> {"off", "flow", "eos", "over", "dead", "mute"}]
  BY DEF Init
<1>4. pc = "idle" /\ hpc = "idle" /\ sent = {} /\ acked = {}
  BY DEF Init
<1>5. Started
  BY DEF Init, Started
<1> QED
  BY <1>1, <1>2, <1>3, <1>4, <1>5 DEF TypeOK, TypeInv

\* Held-back frames may be flushed or not.
LEMMA FlushedType ==
  ASSUME NEW sound \in BOOLEAN, put_frame_flushed \in BOOLEAN, FlushedByUninit(sound)
  PROVE  put_frame_flushed' \in BOOLEAN
BY Zenon DEF FlushedByUninit

\* A new pipeline clears flags only.
LEMMA PipelineType ==
  ASSUME eos_triggered \in BOOLEAN, NewPipeline
  PROVE  eos_triggered' \in BOOLEAN /\ put_frame_flushed' \in BOOLEAN
BY Zenon DEF NewPipeline

\* What the thread does keeps the types.
LEMMA TypePlayer == TypeInv /\ Player => TypeOK'
<1> SUFFICES ASSUME TypeInv, Player PROVE TypeOK'
  OBVIOUS
<1> USE MaxClipsAssumption DEF MaxClipsAssumption, TypeInv, TypeOK, Clips, player, loop, eos, gst, sdk
<1>1. CASE P_ContentChange
  <2>1. audio' \in BOOLEAN /\ FlushedByUninit(audio')
    BY <1>1, Zenon DEF P_ContentChange
  <2>2. put_frame_flushed' \in BOOLEAN
    BY <2>1, FlushedType
  <2> QED
    BY <1>1, <2>1, <2>2 DEF P_ContentChange
<1>2. CASE P_Start
  <2>1. eos_triggered' \in BOOLEAN /\ put_frame_flushed' \in BOOLEAN
    BY <1>2, PipelineType DEF P_Start
  <2>2. /\ track' \in [Tracks -> {"off", "flow", "eos", "over", "dead", "mute"}]
        /\ clip' \in 0..MaxClips
    BY <1>2 DEF P_Start
  <2>3. bus_eos' \in BOOLEAN /\ early' \in BOOLEAN
    BY <1>2, Zenon DEF P_Start
  <2> QED
    BY <1>2, <2>1, <2>2, <2>3 DEF P_Start
<1>3. CASE P_StartFails
  <2>1. eos_triggered' \in BOOLEAN /\ put_frame_flushed' \in BOOLEAN
    BY <1>3, PipelineType DEF P_StartFails
  <2> QED
    BY <1>3, <2>1 DEF P_StartFails
<1>4. CASE P_Flag
  BY <1>4 DEF P_Flag
<1>5. CASE P_Run
  BY <1>5 DEF P_Run
<1>6. CASE P_LoopEnd
  BY <1>6 DEF P_LoopEnd
<1>7. CASE P_AckOk
  BY <1>7 DEF P_AckOk
<1>8. CASE P_AckTimeout
  BY <1>8 DEF P_AckTimeout
<1>9. CASE P_Success
  BY <1>9 DEF P_Success, Started
<1>10. CASE P_Reset
  <2>1. put_frame_flushed' \in BOOLEAN
    BY <1>10, FlushedType DEF P_Reset
  <2> QED
    BY <1>10, <2>1 DEF P_Reset
<1> QED
  BY <1>1, <1>2, <1>3, <1>4, <1>5, <1>6, <1>7, <1>8, <1>9, <1>10 DEF Player

\* What the main loop is told stays Boolean.
LEMMA QuitType ==
  ASSUME TypeOK, QuitMainLoop
  PROVE  mainloop_running' \in BOOLEAN /\ is_running' \in BOOLEAN /\ early' \in BOOLEAN
BY Zenon DEF TypeOK, QuitMainLoop, loop

\* What the pipeline's threads do keeps the types.
LEMMA TypeStreaming == TypeInv /\ Streaming => TypeOK'
<1> SUFFICES ASSUME TypeInv, Streaming PROVE TypeOK'
  OBVIOUS
<1> USE MaxClipsAssumption DEF MaxClipsAssumption, TypeInv, player, loop, eos, gst, sdk
<1>0. ASSUME NEW t \in Tracks,
             T_Fail(t) \/ T_Error(t) \/ T_FirstEos(t) \/ T_MarkEos(t) \/ T_SecondEos(t)
      PROVE  TypeOK'
  <2>1. CASE T_Fail(t)
    BY <2>1, QuitType DEF T_Fail, TypeOK
  <2>2. CASE T_Error(t)
    BY <2>2 DEF T_Error, TypeOK
  <2>3. CASE T_FirstEos(t)
    BY <2>3 DEF T_FirstEos, TypeOK
  <2>4. CASE T_MarkEos(t)
    BY <2>4 DEF T_MarkEos, TypeOK
  <2>5. CASE T_SecondEos(t)
    <3>1. clip \in Clips
      BY <2>5 DEF T_SecondEos, TypeOK, Started, Clips
    <3>2. QuitMainLoop /\ put_frame_flushed' = TRUE /\ sent' = sent \cup {clip}
      BY <2>5 DEF T_SecondEos
    <3> QED
      BY <2>5, <3>1, <3>2, QuitType DEF T_SecondEos, TypeOK
  <2> QED
    BY <1>0, <2>1, <2>2, <2>3, <2>4, <2>5
<1>1. CASE T_BusEos
  BY <1>1 DEF T_BusEos, TypeOK, Tracks
<1>2. CASE CbMessage
  <2>1. clip \in Clips
    BY <1>2 DEF CbMessage, TypeOK, Started, Clips
  <2> QED
    BY <1>2, <2>1, QuitType DEF CbMessage, TypeOK
<1> QED
  BY <1>0, <1>1, <1>2 DEF Streaming

\* So do the SDK's threads.
LEMMA TypeSDK == TypeInv /\ SDK => TypeOK'
<1> SUFFICES ASSUME TypeInv, SDK PROVE TypeOK'
  OBVIOUS
<1> USE DEF TypeInv, TypeOK, player, loop, eos, gst, sdk
<1>1. CASE H_Check
  BY <1>1 DEF H_Check
<1>2. CASE H_Act
  <2>1. early' \in BOOLEAN
    BY <1>2, Zenon DEF H_Act
  <2> QED
    BY <1>2, <2>1 DEF H_Act
<1>3. CASE H_Ack
  BY <1>3 DEF H_Ack
<1> QED
  BY <1>1, <1>2, <1>3 DEF SDK

\* The number of the clip only grows, and grows when it starts to play.
LEMMA StartedStep == TypeInv /\ [Next]_vars => Started'
<1> SUFFICES ASSUME TypeInv, [Next]_vars PROVE Started'
  OBVIOUS
<1> USE DEF TypeInv, TypeOK, Started, player, loop, eos, gst, sdk
<1>1. CASE Player
  <2>1. CASE P_Start \/ P_StartFails
    BY <2>1 DEF P_Start, P_StartFails
  <2>2. CASE P_LoopEnd
    BY <2>2 DEF P_LoopEnd
  <2>3. CASE P_ContentChange \/ P_Flag \/ P_Run
    BY <2>3 DEF P_ContentChange, P_Flag, P_Run
  <2>4. CASE P_AckOk \/ P_AckTimeout \/ P_Success \/ P_Reset
    BY <2>4 DEF P_AckOk, P_AckTimeout, P_Success, P_Reset
  <2> QED
    BY <1>1, <2>1, <2>2, <2>3, <2>4 DEF Player
<1>2. ASSUME NEW t \in Tracks,
             T_Fail(t) \/ T_Error(t) \/ T_FirstEos(t) \/ T_MarkEos(t) \/ T_SecondEos(t)
      PROVE  Started'
  <2>1. track[t] # "off" /\ clip' = clip
    BY <1>2 DEF T_Fail, T_Error, T_FirstEos, T_MarkEos, T_SecondEos
  <2> QED
    BY <2>1
<1>3. CASE T_BusEos \/ CbMessage
  BY <1>3 DEF T_BusEos, CbMessage, Tracks
<1>4. CASE SDK
  BY <1>4 DEF SDK, H_Check, H_Act, H_Ack
<1>5. CASE UNCHANGED vars
  BY <1>5 DEF vars
<1> QED
  BY <1>1, <1>2, <1>3, <1>4, <1>5 DEF Next, Streaming

LEMMA TypeStep == TypeInv /\ [Next]_vars => TypeInv'
<1> SUFFICES ASSUME TypeInv, [Next]_vars PROVE TypeOK'
  BY StartedStep DEF TypeInv
<1>1. CASE UNCHANGED vars
  BY <1>1 DEF TypeInv, TypeOK, vars, player, loop, eos, gst, sdk
<1> QED
  BY <1>1, TypePlayer, TypeStreaming, TypeSDK DEF Next

THEOREM TypeInvariant == Spec => []TypeInv
BY TypeInit, TypeStep, PTL DEF Spec

\* Every reachable state is well typed; in particular only clips that were sent
\* are ever acknowledged (FragmentAckReceivedHandler).
THEOREM TypeCorrect == Spec => []TypeOK
BY TypeInvariant, PTL DEF TypeInv

-----------------------------------------------------------------------------
(* Successes and acknowledgements. *)

\* What is held against an acknowledgement beside the successes: the status that
\* waits to be used, and the verdict that used it.
Status  == IF clip_upload_status_ THEN 1 ELSE 0
Verdict == IF pc = "decide" /\ ~connection_error THEN 1 ELSE 0

\* Each acknowledgement pays for one of them at most.
Paid == Cardinality(oks) + Status + Verdict <= Cardinality(acked)

LEMMA CountsFinite ==
  ASSUME TypeOK
  PROVE  /\ IsFiniteSet(oks) /\ IsFiniteSet(acked)
         /\ Cardinality(oks) \in Nat /\ Cardinality(acked) \in Nat
<1>1. IsFiniteSet(Clips)
  BY FS_Interval, MaxClipsAssumption DEF MaxClipsAssumption, Clips
<1>2. oks \subseteq Clips /\ acked \subseteq Clips
  BY DEF TypeOK
<1> QED
  BY <1>1, <1>2, FS_Subset, FS_CardinalityType

LEMMA PaidInit == Init => Paid
BY FS_EmptySet DEF Init, Paid, Status, Verdict

\* An acknowledgement used is either the status that was set or the verdict on the
\* way; no step makes two claims out of one.
LEMMA PaidStep == TypeInv /\ Paid /\ [Next]_vars => Paid'
<1> SUFFICES ASSUME TypeInv, Paid, [Next]_vars PROVE Paid'
  OBVIOUS
<1>0. /\ IsFiniteSet(oks) /\ IsFiniteSet(acked)
      /\ Cardinality(oks) \in Nat /\ Cardinality(acked) \in Nat
  BY CountsFinite DEF TypeInv
<1>1. clip_upload_status_ \in BOOLEAN /\ connection_error \in BOOLEAN
  BY DEF TypeInv, TypeOK
<1> USE <1>0, <1>1 DEF Paid, Status, Verdict, player, loop, eos, gst, sdk
<1>2. CASE Player
  <2>1. CASE P_AckOk
    BY <2>1 DEF P_AckOk
  <2>2. CASE P_AckTimeout
    BY <2>2 DEF P_AckTimeout
  <2>3. CASE P_Success
    <3>1. Cardinality(oks') <= Cardinality(oks) + 1 /\ Cardinality(oks') \in Nat
      <4>1. Cardinality(oks \cup {clip}) \in {Cardinality(oks), Cardinality(oks) + 1}
        BY FS_AddElement
      <4>2. oks' = oks \cup {clip}
        BY <2>3 DEF P_Success
      <4> QED
        BY <4>1, <4>2
    <3>2. /\ pc = "decide" /\ ~connection_error /\ pc' = "idle"
          /\ UNCHANGED <<acked, clip_upload_status_>>
      BY <2>3 DEF P_Success
    <3> QED
      BY <3>1, <3>2
  <2>4. CASE P_Reset
    BY <2>4 DEF P_Reset
  <2>5. CASE P_ContentChange \/ P_Start \/ P_StartFails
    BY <2>5 DEF P_ContentChange, P_Start, P_StartFails
  <2>6. CASE P_Flag \/ P_Run \/ P_LoopEnd
    BY <2>6 DEF P_Flag, P_Run, P_LoopEnd
  <2> QED
    BY <1>2, <2>1, <2>2, <2>3, <2>4, <2>5, <2>6 DEF Player
<1>3. CASE Streaming
  <2>1. /\ pc' = pc /\ oks' = oks /\ acked' = acked
        /\ clip_upload_status_' = clip_upload_status_
        /\ connection_error' = connection_error \/ connection_error' = TRUE
    BY <1>3 DEF Streaming, T_Fail, T_Error, T_FirstEos, T_MarkEos, T_SecondEos, T_BusEos, CbMessage
  <2> QED
    BY <2>1
<1>4. CASE H_Check \/ H_Act
  BY <1>4 DEF H_Check, H_Act
<1>5. CASE H_Ack
  <2>1. PICK c \in sent \ acked : acked' = acked \cup {c}
    BY <1>5 DEF H_Ack
  <2>2. Cardinality(acked') = Cardinality(acked) + 1
    <3>1. c \notin acked
      BY <2>1
    <3>2. Cardinality(acked \cup {c}) = Cardinality(acked) + 1
      BY <3>1, FS_AddElement
    <3> QED
      BY <2>1, <3>2
  <2>3. clip_upload_status_' = TRUE /\ UNCHANGED <<pc, oks, connection_error>>
    BY <1>5 DEF H_Ack
  <2> QED
    BY <2>2, <2>3
<1>6. CASE UNCHANGED vars
  BY <1>6 DEF vars
<1> QED
  BY <1>2, <1>3, <1>4, <1>5, <1>6 DEF Next, SDK

\* kvs_stream_play never reports more clips as uploaded than were acknowledged,
\* whenever acknowledgements come and whatever the handlers do meanwhile.
THEOREM SuccessesPaid == Spec => []SuccessesAcked
<1>1. TypeInv /\ Paid => SuccessesAcked
  <2> SUFFICES ASSUME TypeInv, Paid PROVE SuccessesAcked
    OBVIOUS
  <2>1. Cardinality(oks) \in Nat /\ Cardinality(acked) \in Nat
    BY CountsFinite DEF TypeInv
  <2> QED
    BY <2>1 DEF Paid, Status, Verdict, SuccessesAcked
<1> QED
  BY <1>1, TypeInvariant, PaidInit, PaidStep, PTL DEF Spec
=============================================================================
