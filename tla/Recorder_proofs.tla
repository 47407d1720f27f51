-------------------------- MODULE Recorder_proofs --------------------------
(***************************************************************************)
(* Proofs, for any number of frames, of the type invariant of Recorder, of *)
(* CleanClips and of ClipsJoin.                                            *)
(***************************************************************************)
EXTENDS Recorder, TLAPS

-----------------------------------------------------------------------------
(* Type correctness. *)

Flags ==
  /\ term_flag \in BOOLEAN /\ init_flag \in BOOLEAN /\ local_stream_err \in BOOLEAN
  /\ has_an_iframe \in BOOLEAN /\ kvsclip_audio \in BOOLEAN /\ audio \in BOOLEAN
  /\ fresh \in BOOLEAN /\ bad \in BOOLEAN
  /\ cvr_audio_status \in {"unknown", "enabled", "disabled"}

Frames ==
  /\ key \in 0..v /\ (has_an_iframe => key # 0)
  /\ v \in 0..MaxVideo /\ vI \subseteq 1..v /\ a \in 0..MaxAudio
  /\ first \in 0..v /\ clip \subseteq 1..v /\ aclip \subseteq 1..a

Places ==
  pc \in {"top", "init", "waitI", "name", "record", "raudio", "lowmem", "search", "saudio",
          "drain", "close", "ended"}

LEMMA TypeParts == TypeOK <=> Places /\ Flags /\ Frames
BY Zenon DEF TypeOK, Places, Flags, Frames

LEMMA TypeInit == Init => TypeOK
<1> SUFFICES ASSUME Init PROVE Places /\ Flags /\ Frames
  BY TypeParts
<1>1. Flags
  BY Zenon DEF Init, Flags
<1>2. Places /\ Frames
  BY FramesAssumption DEF FramesAssumption, Init, Places, Frames
<1> QED
  BY <1>1, <1>2

\* do_cvr's flags and places, action by action.
LEMMA FlagsStep == Flags /\ Places /\ [Next]_vars => Flags' /\ Places'
<1> SUFFICES ASSUME Flags, Places, [Next]_vars PROVE Flags' /\ Places'
  OBVIOUS
<1> USE DEF Flags, Places, flags, held, sound, camera, current
<1>1. CASE R_Top
  BY <1>1, Zenon DEF R_Top
<1>2. CASE R_Return \/ R_InitFails \/ R_Init
  BY <1>2, Zenon DEF R_Return, R_InitFails, R_Init
<1>3. CASE R_WaitTerm \/ R_OpenFails \/ R_Open
  BY <1>3, Zenon DEF R_WaitTerm, R_OpenFails, R_Open
<1>4. CASE R_TimeUp \/ R_SearchDone \/ R_DrainDone
  BY <1>4, Zenon DEF R_TimeUp, R_SearchDone, R_DrainDone
<1>5. CASE R_Discard
  BY <1>5, Zenon DEF R_Discard
<1>6. CASE R_Submit
  BY <1>6, Zenon DEF R_Submit
<1>7. CASE R_WaitFrame \/ R_RecordKey \/ R_SearchKey
  BY <1>7, Zenon DEF R_WaitFrame, R_RecordKey, R_SearchKey, KeepFrame
<1>8. CASE R_RecordVideo
  BY <1>8, Zenon DEF R_RecordVideo, WriteVideo
<1>9. CASE R_RecordNone \/ R_RecordAudio
  BY <1>9, Zenon DEF R_RecordNone, R_RecordAudio, WriteAudio
<1>10. CASE R_SearchVideo \/ R_SearchAudio
  BY <1>10, Zenon DEF R_SearchVideo, R_SearchAudio, WriteVideo, WriteAudio
<1>11. CASE R_DrainAudio
  BY <1>11, Zenon DEF R_DrainAudio, WriteAudio
<1>12. CASE R_WaitError \/ R_RecordError
  BY <1>12, Zenon DEF R_WaitError, R_RecordError, ReadError
<1>13. CASE R_SearchError \/ R_DrainError
  BY <1>13, Zenon DEF R_SearchError, R_DrainError, ReadError
<1>14. CASE R_MemoryBack \/ self_term
  <2>1. CASE R_MemoryBack
    BY <2>1, Zenon DEF R_MemoryBack
  <2>2. CASE self_term
    BY <2>2 DEF self_term
  <2> QED
    BY <1>14, <2>1, <2>2
<1>15. CASE UNCHANGED vars
  BY <1>15 DEF vars
<1> QED
  BY <1>1, <1>2, <1>3, <1>4, <1>5, <1>6, <1>7, <1>8, <1>9, <1>10, <1>11, <1>12, <1>13, <1>14,
     <1>15 DEF Next, do_cvr, Read

\* A frame that is read is the next one.
LEMMA VideoRead ==
  ASSUME Frames, NEW i \in BOOLEAN, GetVideo(i)
  PROVE  /\ v' = v + 1 /\ v' \in 0..MaxVideo /\ vI' \subseteq 1..v' /\ a' = a
         /\ key \in 0..v' /\ first \in 0..v' /\ clip \subseteq 1..v'
         /\ clip \cup {v'} \subseteq 1..v'
<1>1. v \in 0..MaxVideo /\ v < MaxVideo /\ v' = v + 1 /\ a' = a
  BY DEF Frames, GetVideo
<1>2. v' \in 0..MaxVideo /\ 0..v \subseteq 0..v' /\ 1..v \subseteq 1..v' /\ v' \in 1..v'
  BY <1>1, FramesAssumption DEF FramesAssumption
<1>3. vI' \subseteq 1..v'
  BY <1>1, <1>2 DEF Frames, GetVideo
<1> QED
  BY <1>1, <1>2, <1>3 DEF Frames

LEMMA AudioRead ==
  ASSUME Frames, GetAudio
  PROVE  /\ v' = v /\ vI' = vI /\ a' \in 0..MaxAudio /\ aclip \cup {a'} \subseteq 1..a'
<1>1. a \in 0..MaxAudio /\ a < MaxAudio /\ a' = a + 1 /\ v' = v /\ vI' = vI
  BY DEF Frames, GetAudio
<1>2. a' \in 0..MaxAudio /\ 1..a \subseteq 1..a' /\ a' \in 1..a'
  BY <1>1, FramesAssumption DEF FramesAssumption
<1> QED
  BY <1>1, <1>2 DEF Frames
\* What has been read and written, action by action.
LEMMA FramesStep == Flags /\ Frames /\ [Next]_vars => Frames'
<1> SUFFICES ASSUME Flags, Frames, [Next]_vars PROVE Frames'
  OBVIOUS
<1> USE DEF flags, held, sound, camera, current
<1>1. CASE R_WaitFrame \/ R_RecordKey \/ R_SearchKey
  <2>1. PICK i \in BOOLEAN : GetVideo(i)
    BY <1>1 DEF R_WaitFrame, R_RecordKey, R_SearchKey
  <2>2. key' = v' /\ a' = a /\ aclip' = aclip /\ first' = first /\ clip' = clip
    BY <1>1, <2>1 DEF R_WaitFrame, R_RecordKey, R_SearchKey, KeepFrame, GetVideo
  <2>3. v' \in 0..v' /\ v' # 0
    BY <2>1, VideoRead DEF Frames
  <2> QED
    BY <2>1, <2>2, <2>3, VideoRead DEF Frames
<1>2. CASE R_RecordVideo \/ R_SearchVideo
  <2>1. PICK i \in BOOLEAN : GetVideo(i)
    BY <1>2 DEF R_RecordVideo, R_SearchVideo
  <2>2. /\ key' = key /\ has_an_iframe' = has_an_iframe /\ clip' = clip \cup {v'}
        /\ aclip' = aclip /\ first' = first
    BY <1>2 DEF R_RecordVideo, R_SearchVideo, WriteVideo
  <2> QED
    BY <2>1, <2>2, VideoRead DEF Frames
<1>3. CASE R_RecordAudio \/ R_SearchAudio \/ R_DrainAudio
  <2>1. UNCHANGED <<key, has_an_iframe, first, clip, v, vI>>
    BY <1>3 DEF R_RecordAudio, R_SearchAudio, R_DrainAudio, WriteAudio, GetAudio
  <2>2. \/ GetAudio /\ aclip' = aclip \cup {a'}
        \/ UNCHANGED <<a, aclip>>
    BY <1>3 DEF R_RecordAudio, R_SearchAudio, R_DrainAudio, WriteAudio
  <2> QED
    BY <2>1, <2>2, AudioRead DEF Frames
<1>4. CASE R_Open
  <2>1. /\ first' = key /\ clip' \subseteq {key} /\ aclip' = {} /\ key' = key
        /\ has_an_iframe' = FALSE /\ v' = v /\ vI' = vI /\ a' = a
        /\ ~has_an_iframe => clip' = {}
    BY <1>4 DEF R_Open
  <2>2. has_an_iframe => key \in 1..v
    BY DEF Frames
  <2> QED
    BY <2>1, <2>2 DEF Frames, Flags
<1>5. CASE R_Discard \/ R_Submit
  <2>1. clip' = {} /\ aclip' = {} /\ UNCHANGED <<key, has_an_iframe, first, v, vI, a>>
    BY <1>5 DEF R_Discard, R_Submit
  <2> QED
    BY <2>1 DEF Frames
<1>6. CASE R_Top \/ R_Return \/ R_InitFails \/ R_Init \/ R_WaitTerm \/ R_OpenFails
  <2>1. UNCHANGED <<key, has_an_iframe, first, clip, aclip, v, vI, a>>
    BY <1>6 DEF R_Top, R_Return, R_InitFails, R_Init, R_WaitTerm, R_OpenFails
  <2> QED
    BY <2>1 DEF Frames
<1>7. CASE R_TimeUp \/ R_SearchDone \/ R_DrainDone \/ R_RecordNone \/ R_MemoryBack \/ self_term
  <2>1. UNCHANGED <<key, has_an_iframe, first, clip, aclip, v, vI, a>>
    BY <1>7 DEF R_TimeUp, R_SearchDone, R_DrainDone, R_RecordNone, R_MemoryBack, self_term
  <2> QED
    BY <2>1 DEF Frames
<1>8. CASE R_WaitError \/ R_RecordError \/ R_SearchError \/ R_DrainError
  <2>1. UNCHANGED <<key, has_an_iframe, first, clip, aclip, v, vI, a>>
    BY <1>8 DEF R_WaitError, R_RecordError, R_SearchError, R_DrainError
  <2> QED
    BY <2>1 DEF Frames
<1>9. CASE UNCHANGED vars
  BY <1>9 DEF vars, Frames
<1> QED
  BY <1>1, <1>2, <1>3, <1>4, <1>5, <1>6, <1>7, <1>8, <1>9 DEF Next, do_cvr, Read

LEMMA TypeStep == TypeOK /\ [Next]_vars => TypeOK'
<1> SUFFICES ASSUME TypeOK, [Next]_vars PROVE Places' /\ Flags' /\ Frames'
  BY TypeParts DEF TypeOK, Places, Flags, Frames
<1> QED
  BY TypeParts, FlagsStep, FramesStep

\* Every reachable state is well typed; in particular a frame held back for the
\* next clip has been read, and nothing is written that was not.
THEOREM TypeCorrect == Spec => []TypeOK
BY TypeInit, TypeStep, PTL DEF Spec

-----------------------------------------------------------------------------
(* Clips with a failed read. *)

Recording == {"record", "raudio", "lowmem", "search", "saudio", "drain", "close"}

\* The flag that makes do_cvr delete the clip stays up until it has done so.
BadFlagged == pc \in Recording /\ bad => local_stream_err

LEMMA BadInit == Init => BadFlagged
BY DEF Init, BadFlagged, Recording

LEMMA BadStep == BadFlagged /\ [Next]_vars => BadFlagged'
<1> SUFFICES ASSUME BadFlagged, [Next]_vars, pc' \in Recording, bad' PROVE local_stream_err'
  BY DEF BadFlagged
<1> USE DEF BadFlagged, Recording, flags, current
<1>1. CASE R_Top \/ R_Return \/ R_InitFails \/ R_Init \/ R_WaitTerm \/ R_OpenFails
  BY <1>1 DEF R_Top, R_Return, R_InitFails, R_Init, R_WaitTerm, R_OpenFails
<1>2. CASE R_Open
  BY <1>2 DEF R_Open
<1>3. CASE R_TimeUp \/ R_SearchDone \/ R_DrainDone \/ R_Discard \/ R_Submit
  BY <1>3 DEF R_TimeUp, R_SearchDone, R_DrainDone, R_Discard, R_Submit
<1>4. CASE R_WaitFrame \/ R_RecordKey \/ R_RecordVideo \/ R_SearchKey \/ R_SearchVideo
  BY <1>4 DEF R_WaitFrame, R_RecordKey, R_RecordVideo, R_SearchKey, R_SearchVideo, WriteVideo
<1>5. CASE R_RecordNone \/ R_RecordAudio \/ R_SearchAudio \/ R_DrainAudio
  BY <1>5 DEF R_RecordNone, R_RecordAudio, R_SearchAudio, R_DrainAudio, WriteAudio
<1>6. CASE R_WaitError \/ R_RecordError \/ R_SearchError \/ R_DrainError
  BY <1>6 DEF R_WaitError, R_RecordError, R_SearchError, R_DrainError, ReadError
<1>7. CASE R_MemoryBack \/ self_term \/ UNCHANGED vars
  BY <1>7 DEF R_MemoryBack, self_term, vars
<1> QED
  BY <1>1, <1>2, <1>3, <1>4, <1>5, <1>6, <1>7 DEF Next, do_cvr, Read

\* Only R_Submit hands a clip over.
LEMMA OnlySubmit == [Next]_vars /\ Submits => R_Submit
<1> SUFFICES ASSUME [Next]_vars, ~R_Submit PROVE submitted' = submitted
  BY DEF Submits
<1>1. CASE R_Top \/ R_Return \/ R_InitFails \/ R_Init \/ R_WaitTerm \/ R_OpenFails \/ R_Open
  BY <1>1 DEF R_Top, R_Return, R_InitFails, R_Init, R_WaitTerm, R_OpenFails, R_Open
<1>2. CASE R_TimeUp \/ R_SearchDone \/ R_DrainDone \/ R_Discard
  BY <1>2 DEF R_TimeUp, R_SearchDone, R_DrainDone, R_Discard
<1>3. CASE R_WaitFrame \/ R_RecordKey \/ R_RecordVideo \/ R_SearchKey \/ R_SearchVideo
  BY <1>3 DEF R_WaitFrame, R_RecordKey, R_RecordVideo, R_SearchKey, R_SearchVideo
<1>4. CASE R_RecordNone \/ R_RecordAudio \/ R_SearchAudio \/ R_DrainAudio
  BY <1>4 DEF R_RecordNone, R_RecordAudio, R_SearchAudio, R_DrainAudio
<1>5. CASE R_WaitError \/ R_RecordError \/ R_SearchError \/ R_DrainError
  BY <1>5 DEF R_WaitError, R_RecordError, R_SearchError, R_DrainError
<1>6. CASE R_MemoryBack \/ self_term \/ UNCHANGED vars
  BY <1>6 DEF R_MemoryBack, self_term, vars
<1> QED
  BY <1>1, <1>2, <1>3, <1>4, <1>5, <1>6 DEF Next, do_cvr, Read

\* No clip goes to cvr_upload in which a read failed, whichever loop it failed in.
THEOREM OnlyCleanClips == Spec => CleanClips
<1>1. BadFlagged /\ [Next]_vars => [Submits => ~submitted'.bad]_vars
  <2> SUFFICES ASSUME BadFlagged, [Next]_vars, Submits PROVE ~submitted'.bad
    OBVIOUS
  <2> QED
    BY OnlySubmit DEF R_Submit, BadFlagged, Recording
<1> QED
  BY <1>1, BadInit, BadStep, PTL DEF Spec, CleanClips

-----------------------------------------------------------------------------
(* How clips join. *)

\* The frame held back is the one read last; one that ends a clip is an I frame.
KeyHeld ==
  has_an_iframe =>
    /\ key = v
    /\ ~fresh \/ pc \in {"search", "drain", "close"} => key \in vI

\* Where do_cvr holds a frame back and where it does not, unless it was told to end.
Holding ==
  /\ pc = "init" => ~init_flag
  /\ pc = "waitI" => fresh
  /\ pc \in {"record", "raudio", "lowmem", "saudio"} => ~has_an_iframe
  /\ ~term_flag => /\ pc = "name" => has_an_iframe
                   /\ pc = "top" /\ init_flag /\ ~local_stream_err => has_an_iframe
                   /\ pc \in {"drain", "close"} /\ ~local_stream_err => has_an_iframe

\* The clip has every frame from its first one to the last read but the one held back.
Contents ==
  pc \in Recording /\ ~term_flag =>
    clip = first..(IF has_an_iframe THEN v - 1 ELSE v)

\* Within a session it starts with the I frame at which the clip before ended.
Links ==
  ~fresh /\ ~term_flag =>
    /\ pc \in Recording => first \in vI /\ first = submitted.last + 1
    /\ pc = "name" => key = submitted.last + 1
    /\ pc = "top" /\ init_flag /\ ~local_stream_err => key = submitted.last + 1

Joined == KeyHeld /\ Holding /\ Contents /\ Links

LEMMA JoinedInit == Init => Joined
BY DEF Init, Joined, KeyHeld, Holding, Contents, Links, Recording

LEMMA JoinedStep == TypeOK /\ Joined /\ [Next]_vars => Joined'
<1> SUFFICES ASSUME Flags, Frames, Joined, [Next]_vars PROVE Joined'
  BY TypeParts
<1>0. v \in Nat /\ first \in 0..v /\ key \in 0..v
  BY FramesAssumption DEF FramesAssumption, Frames
<1> USE <1>0 DEF Joined, KeyHeld, Holding, Contents, Links, Recording, flags, held, sound, camera,
                 current
<1>1. CASE R_Top
  BY <1>1 DEF R_Top, Flags
<1>2. CASE R_Return \/ R_InitFails \/ R_Init
  <2>1. CASE R_Return
    BY <2>1 DEF R_Return
  <2>2. CASE R_InitFails
    BY <2>2 DEF R_InitFails
  <2>3. CASE R_Init
    <3>1. /\ pc' = "waitI" /\ fresh' = TRUE
          /\ UNCHANGED <<v, vI, has_an_iframe, key>>
      BY <2>3 DEF R_Init
    <3> QED
      BY <3>1
  <2> QED
    BY <1>2, <2>1, <2>2, <2>3
<1>3. CASE R_WaitTerm \/ R_OpenFails
  BY <1>3 DEF R_WaitTerm, R_OpenFails
<1>4. CASE R_Open
  <2>1. /\ pc = "name" /\ pc' = "record" /\ first' = key /\ has_an_iframe' = FALSE
        /\ has_an_iframe => clip' = {key}
        /\ UNCHANGED <<key, v, vI, term_flag, init_flag, local_stream_err, fresh, submitted>>
    BY <1>4 DEF R_Open
  <2>2. ~term_flag => key = v /\ clip' = key..v
    BY <2>1
  <2> QED
    BY <2>1, <2>2
<1>5. CASE R_TimeUp \/ R_SearchDone \/ R_DrainDone
  BY <1>5 DEF R_TimeUp, R_SearchDone, R_DrainDone
<1>6. CASE R_Discard
  BY <1>6 DEF R_Discard
<1>7. CASE R_Submit
  <2>1. /\ pc = "close" /\ pc' = "top" /\ ~term_flag /\ ~local_stream_err
        /\ submitted'.last = key - 1 /\ fresh' = FALSE
        /\ UNCHANGED <<key, has_an_iframe, v, vI, term_flag, init_flag, local_stream_err>>
    BY <1>7 DEF R_Submit
  <2> QED
    BY <2>1
<1>8. CASE R_WaitFrame \/ R_RecordKey \/ R_SearchKey
  <2>1. PICK i \in BOOLEAN : GetVideo(i) /\ (i \/ pc = "waitI")
    BY <1>8 DEF R_WaitFrame, R_RecordKey, R_SearchKey
  <2>2. v' = v + 1 /\ vI' = (IF i THEN vI \cup {v + 1} ELSE vI)
    BY <2>1 DEF GetVideo
  <2>3. /\ ~term_flag /\ has_an_iframe' = TRUE /\ key' = v'
        /\ UNCHANGED <<first, clip, term_flag, init_flag, local_stream_err, fresh, submitted>>
        /\ \/ pc = "waitI" /\ pc' = "name"
           \/ pc = "record" /\ pc' = "search"
           \/ pc = "search" /\ ~has_an_iframe /\ pc' = "drain"
    BY <1>8 DEF R_WaitFrame, R_RecordKey, R_SearchKey, KeepFrame
  <2> QED
    BY <2>1, <2>2, <2>3
<1>9. CASE R_RecordVideo \/ R_SearchVideo
  <2>1. PICK i \in BOOLEAN : GetVideo(i)
    BY <1>9 DEF R_RecordVideo, R_SearchVideo
  <2>2. v' = v + 1 /\ vI' = (IF i THEN vI \cup {v + 1} ELSE vI)
    BY <2>1 DEF GetVideo
  <2>3. /\ ~term_flag /\ ~has_an_iframe /\ clip' = clip \cup {v'}
        /\ UNCHANGED <<has_an_iframe, key, first, term_flag, init_flag, local_stream_err, fresh,
                       submitted>>
        /\ pc \in {"record", "search"}
        /\ pc' \in {"record", "raudio", "lowmem", "search", "saudio"}
    BY <1>9 DEF R_RecordVideo, R_SearchVideo, WriteVideo
  <2>4. clip' = first..v'
    BY <2>2, <2>3
  <2> QED
    BY <2>2, <2>3, <2>4
<1>10. CASE R_RecordNone \/ R_RecordAudio \/ R_SearchAudio \/ R_DrainAudio
  <2>1. /\ UNCHANGED <<v, vI, has_an_iframe, key, first, clip, term_flag, init_flag,
                       local_stream_err, fresh, submitted>>
        /\ \/ pc \in {"record", "raudio"} /\ pc' \in {"record", "raudio", "lowmem"}
           \/ pc = "saudio" /\ pc' = "search"
           \/ pc = "drain" /\ pc' \in {"drain", "close"}
    BY <1>10 DEF R_RecordNone, R_RecordAudio, R_SearchAudio, R_DrainAudio, WriteAudio, GetAudio
  <2> QED
    BY <2>1
<1>11. CASE R_WaitError \/ R_RecordError
  BY <1>11 DEF R_WaitError, R_RecordError, ReadError
<1>12. CASE R_SearchError \/ R_DrainError
  BY <1>12 DEF R_SearchError, R_DrainError, ReadError
<1>13. CASE R_MemoryBack
  BY <1>13 DEF R_MemoryBack
<1>14. CASE self_term
  BY <1>14 DEF self_term
<1>15. CASE UNCHANGED vars
  BY <1>15 DEF vars
<1> QED
  BY <1>1, <1>2, <1>3, <1>4, <1>5, <1>6, <1>7, <1>8, <1>9, <1>10, <1>11, <1>12, <1>13, <1>14,
     <1>15 DEF Next, do_cvr, Read

\* No frame is lost or written twice where clips meet, whichever of the nested loops
\* found the next key frame and whatever failed before.
THEOREM ClipsAreJoined == Spec => ClipsJoin
<1> DEFINE Joins == LET c == submitted' IN
                      /\ c.video = c.first..c.last
                      /\ ~c.fresh => c.iframe /\ c.first = submitted.last + 1
<1>1. TypeOK /\ Joined /\ [Next]_vars => [Submits => Joins]_vars
  <2> SUFFICES ASSUME TypeOK, Joined, [Next]_vars, Submits PROVE Joins
    OBVIOUS
  <2>1. /\ pc = "close" /\ ~term_flag /\ ~local_stream_err
        /\ submitted'.video = clip /\ submitted'.first = first /\ submitted'.last = key - 1
        /\ submitted'.fresh = fresh /\ submitted'.iframe = (first \in vI)
    BY OnlySubmit DEF R_Submit
  <2>2. has_an_iframe /\ key = v /\ clip = first..(key - 1)
    BY <2>1 DEF Joined, KeyHeld, Holding, Contents, Recording
  <2>3. ~fresh => first \in vI /\ first = submitted.last + 1
    BY <2>1 DEF Joined, Links, Recording
  <2> QED
    BY <2>1, <2>2, <2>3
<1> QED
  BY <1>1, TypeInit, TypeStep, JoinedInit, JoinedStep, PTL DEF Spec, ClipsJoin

-----------------------------------------------------------------------------
(* How the sound of clips joins. *)

\* Unless do_cvr gave up, the sound has been read up to the next clip's first frame.
Drained == pc = "close" /\ ~term_flag /\ ~local_stream_err /\ audio => a + 1 > key

\* Within a session all sound since the clip before was handed over is in the clip.
SoundLinks ==
  ~fresh /\ ~term_flag =>
    /\ pc \in Recording => submitted.alast \in 0..a /\ aclip = (submitted.alast + 1)..a
    /\ pc = "name" => submitted.alast = a
    /\ pc = "top" /\ init_flag /\ ~local_stream_err => submitted.alast = a

Sounding == Drained /\ SoundLinks

LEMMA SoundingInit == Init => Sounding
BY DEF Init, Sounding, Drained, SoundLinks, Recording

LEMMA SoundingStep == TypeOK /\ Holding /\ Sounding /\ [Next]_vars => Sounding'
<1> SUFFICES ASSUME Flags, Frames, Holding, Sounding, [Next]_vars PROVE Sounding'
  BY TypeParts
<1>0. a \in Nat
  BY FramesAssumption DEF FramesAssumption, Frames
<1> USE <1>0 DEF Sounding, Drained, SoundLinks, Recording, flags, held, sound, camera, current
<1>1. CASE R_Top
  BY <1>1 DEF R_Top, Flags
<1>2. CASE R_Return \/ R_WaitTerm \/ R_OpenFails
  BY <1>2 DEF R_Return, R_WaitTerm, R_OpenFails
<1>3. CASE R_InitFails
  <2>1. pc = "init" /\ pc' = "top" /\ init_flag' = init_flag
    BY <1>3 DEF R_InitFails
  <2> QED
    BY <2>1 DEF Holding
<1>4. CASE R_Init
  <2>1. pc' = "waitI"
    BY <1>4 DEF R_Init
  <2> QED
    BY <2>1
<1>5. CASE R_Open
  <2>1. /\ pc = "name" /\ pc' = "record" /\ aclip' = {}
        /\ UNCHANGED <<a, term_flag, fresh, submitted>>
    BY <1>5 DEF R_Open
  <2> QED
    BY <2>1
<1>6. CASE R_TimeUp \/ R_SearchDone \/ R_DrainDone
  BY <1>6 DEF R_TimeUp, R_SearchDone, R_DrainDone
<1>7. CASE R_Discard
  BY <1>7 DEF R_Discard
<1>8. CASE R_Submit
  <2>1. pc' = "top" /\ submitted'.alast = a /\ a' = a
    BY <1>8 DEF R_Submit
  <2> QED
    BY <2>1
<1>9. CASE R_WaitFrame
  <2>1. pc = "waitI" /\ pc' = "name" /\ fresh' = fresh
    BY <1>9 DEF R_WaitFrame
  <2> QED
    BY <2>1 DEF Holding
<1>10. CASE R_RecordKey \/ R_SearchKey \/ R_RecordVideo \/ R_SearchVideo
  <2>1. /\ UNCHANGED <<a, aclip, term_flag, fresh, submitted>>
        /\ pc \in {"record", "search"}
        /\ pc' \in {"record", "raudio", "lowmem", "search", "saudio", "drain"}
    BY <1>10 DEF R_RecordKey, R_SearchKey, R_RecordVideo, R_SearchVideo, GetVideo, WriteVideo
  <2> QED
    BY <2>1
<1>11. CASE R_RecordNone
  BY <1>11 DEF R_RecordNone
<1>12. CASE R_RecordAudio \/ R_SearchAudio \/ R_DrainAudio
  <2>1. /\ UNCHANGED <<key, audio, term_flag, local_stream_err, fresh, submitted>>
        /\ pc \in {"raudio", "saudio", "drain"}
        /\ pc' \in {"record", "lowmem", "search", "drain", "close"}
        /\ pc' = "close" => a' + 1 > key
    BY <1>12 DEF R_RecordAudio, R_SearchAudio, R_DrainAudio, WriteAudio, GetAudio
  <2>2. \/ a' = a + 1 /\ aclip' = aclip \cup {a'}
        \/ a' = a /\ aclip' = aclip
    BY <1>12 DEF R_RecordAudio, R_SearchAudio, R_DrainAudio, WriteAudio, GetAudio
  <2>3. Drained'
    BY <2>1
  <2>4. ASSUME ~fresh', ~term_flag' PROVE submitted.alast \in 0..a' /\ aclip' = (submitted.alast + 1)..a'
    <3>1. submitted.alast \in 0..a /\ aclip = (submitted.alast + 1)..a
      BY <2>1, <2>4
    <3>2. CASE a' = a /\ aclip' = aclip
      BY <3>1, <3>2
    <3>3. CASE a' = a + 1 /\ aclip' = aclip \cup {a'}
      <4>1. submitted.alast \in Nat /\ submitted.alast <= a
        BY <3>1
      <4>2. ((submitted.alast + 1)..a) \cup {a + 1} = (submitted.alast + 1)..(a + 1)
        BY <4>1
      <4> QED
        BY <3>1, <3>3, <4>1, <4>2
    <3> QED
      BY <2>2, <3>2, <3>3
  <2> QED
    BY <2>1, <2>3, <2>4
<1>13. CASE R_WaitError \/ R_RecordError
  BY <1>13 DEF R_WaitError, R_RecordError, ReadError
<1>14. CASE R_SearchError \/ R_DrainError
  BY <1>14 DEF R_SearchError, R_DrainError, ReadError
<1>15. CASE R_MemoryBack
  BY <1>15 DEF R_MemoryBack
<1>16. CASE self_term
  BY <1>16 DEF self_term
<1>17. CASE UNCHANGED vars
  BY <1>17 DEF vars
<1> QED
  BY <1>1, <1>2, <1>3, <1>4, <1>5, <1>6, <1>7, <1>8, <1>9, <1>10, <1>11, <1>12, <1>13, <1>14,
     <1>15, <1>16, <1>17 DEF Next, do_cvr, Read

\* No sound is lost or written twice between clips with sound, although three loops read
\* it and it may be switched off and on meanwhile.
THEOREM SoundIsJoined == Spec => SoundJoins
<1> DEFINE Joins == LET c == submitted' IN
                      /\ c.alast >= c.last
                      /\ (submitted.track /\ ~c.fresh) => c.sound = (submitted.alast + 1)..c.alast
<1>1. TypeOK /\ Sounding /\ [Next]_vars => [Submits /\ submitted'.track => Joins]_vars
  <2> SUFFICES ASSUME TypeOK, Sounding, [Next]_vars, Submits, submitted'.track PROVE Joins
    OBVIOUS
  <2>0. audio
    <3>1. R_Submit /\ audio \in BOOLEAN
      BY OnlySubmit DEF TypeOK
    <3>2. submitted'.track = audio
      BY <3>1 DEF R_Submit
    <3> QED
      BY <3>2
  <2>1. /\ pc = "close" /\ ~term_flag /\ ~local_stream_err
        /\ submitted'.sound = aclip /\ submitted'.alast = a /\ submitted'.last = key - 1
        /\ submitted'.fresh = fresh
    BY OnlySubmit DEF R_Submit
  <2>2. a \in Nat /\ key \in Nat
    <3>1. v \in Nat /\ a \in Nat /\ key \in 0..v
      BY FramesAssumption, TypeParts DEF FramesAssumption, Frames
    <3> QED
      BY <3>1
  <2>3. a + 1 > key
    BY <2>1, <2>0 DEF Sounding, Drained
  <2>4. ~fresh => aclip = (submitted.alast + 1)..a
    BY <2>1 DEF Sounding, SoundLinks, Recording
  <2> QED
    BY <2>1, <2>2, <2>3, <2>4
<1>2. Joined => Holding
  BY DEF Joined
<1> QED
  BY <1>1, <1>2, TypeInit, TypeStep, JoinedInit, JoinedStep, SoundingInit, SoundingStep, PTL
  DEF Spec, SoundJoins
=============================================================================
