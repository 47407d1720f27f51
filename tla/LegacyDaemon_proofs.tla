------------------------ MODULE LegacyDaemon_proofs ------------------------
(***************************************************************************)
(* Proofs about LegacyDaemon, for any set of clip names and any limits:    *)
(* the types, and that every file of a clip has an owner.  MCDaemons, at   *)
(* the end, adds what FrameThread_proofs shows of the other image.         *)
(***************************************************************************)
EXTENDS MCDaemons, FiniteSetTheorems, TLAPS

-----------------------------------------------------------------------------
(* The names. *)

LEMMA Constants ==
  /\ Cardinality(Clips) \in Nat \ {0}
  /\ ExistsBijection(1..Cardinality(Clips), Clips)
<1>1. Cardinality(Clips) \in Nat /\ ExistsBijection(1..Cardinality(Clips), Clips)
  BY LegacyAssumption, FS_CardinalityType
<1>2. Cardinality(Clips) # 0
  BY LegacyAssumption, FS_EmptySet
<1> QED
  BY <1>1, <1>2

\* The name of a clip is one of Clips: there are as many seconds as names.
LEMMA NameType == Name \in [Seconds -> Clips]
<1>1. PICK g \in Bijection(1..Cardinality(Clips), Clips) : TRUE
  BY Constants DEF ExistsBijection
<1>2. /\ g \in [1..Cardinality(Clips) -> Clips]
      /\ \A s, t \in 1..Cardinality(Clips) : g[s] = g[t] => s = t
  BY <1>1 DEF Bijection, Injection, IsInjective
<1> DEFINE f == [s \in Seconds |-> g[s + 1]]
<1>3. \A s \in Seconds : s + 1 \in 1..Cardinality(Clips)
  BY Constants DEF Seconds
<1>4. f \in [Seconds -> Clips]
  BY <1>2, <1>3
<1>5. ASSUME NEW s \in Seconds, NEW t \in Seconds, f[s] = f[t] PROVE s = t
  <2>1. g[s + 1] = g[t + 1]
    BY <1>5
  <2>2. s + 1 = t + 1
    BY <1>2, <1>3, <2>1
  <2> QED
    BY <2>2, Constants DEF Seconds
<1>6. \E h \in [Seconds -> Clips] : \A s, t \in Seconds : h[s] = h[t] => s = t
  BY <1>4, <1>5
<1> QED
  BY <1>6 DEF Name

LEMMA NameOf == ASSUME second \in Seconds PROVE Name[second] \in Clips
BY NameType

LEMMA NextSecond ==
  ASSUME second \in Seconds
  PROVE  second \in Seconds /\ (second + 1) % Cardinality(Clips) \in Seconds
BY Constants DEF Seconds

-----------------------------------------------------------------------------
(* The invariant. *)

\* The recorder has a clip exactly from its file on, the thread while it uploads one.
Recording == IF pc \in {"rec", "seek", "finish"} THEN file_name \in Clips ELSE file_name = NoClip
Uploading == IF cpc \in {"begin", "post"} THEN clip \in Clips ELSE clip = NoClip

\* The thread is in the loop that drops clips while there are clips to drop.
Purging == cpc = "purge" => purge > 0

\* There is no thread before cvr_init starts it.
Starting == pc = "init" => cpc = "none"

Waits(c) == \E i \in 1..Len(msgQ) : msgQ[i] = c

Owned == \A f \in disk : f.clip \in {file_name, clip} \/ Waits(f.clip)

FilesOfClips == disk \subseteq UNION {Files(c) : c \in Clips}

ThreadType ==
  /\ msgQ \in Seq(Clips) /\ cpc \in {"none", "size", "purge", "pop", "begin", "post"}
  /\ purge \in Nat

RetryType ==
  /\ elapsed \in 0..CVR_UPLOAD_TIMEOUT_INTERVAL
  /\ waitingInterval \in minInterval..2 * maxInterval
  /\ uploadfailcount \in 0..CVR_THRESHHOLD_COUNT - 1

RecorderType ==
  /\ pc \in {"init", "top", "open", "wait", "clip", "rec", "seek", "finish", "close", "done"}
  /\ term_flag \in BOOLEAN /\ init_flag \in BOOLEAN /\ local_stream_err \in BOOLEAN
  /\ has_an_iframe \in BOOLEAN /\ second \in Seconds
  /\ cvrUploadThreadExit \in BOOLEAN /\ interrupted \in BOOLEAN

Clean == FilesOfClips /\ Owned

IInv == ThreadType /\ RetryType /\ RecorderType /\ Recording /\ Uploading /\ Purging /\ Starting /\ Clean

LEMMA IInvGives == IInv => TypeOK /\ FilesOwned
BY DEF IInv, TypeOK, UploadTypeOK, FilesOwned, ThreadType, RetryType, RecorderType, Recording,
       Uploading, Clean, FilesOfClips, Owned, Waits

\* A file of a clip carries its name.
LEMMA FileNames ==
  ASSUME FilesOfClips, NEW f \in disk
  PROVE  f.clip \in Clips /\ f \in Files(f.clip)
BY DEF FilesOfClips, Files

\* Files that are removed leave an owner to the others.
LEMMA FilesGo ==
  ASSUME Clean, NEW c, disk' = disk \ Files(c),
         \A n \in Clips : (n \in {file_name, clip} \/ Waits(n)) /\ n # c
                           => n \in {file_name', clip'} \/ Waits(n)'
  PROVE  Clean'
BY FileNames DEF Clean, FilesOfClips, Owned

\* What leaves files, clips and queue alone keeps them owned.
LEMMA FilesStay ==
  ASSUME Clean, UNCHANGED <<disk, msgQ, file_name, clip>>
  PROVE  Clean'
BY DEF Clean, FilesOfClips, Owned, Waits

\* The clip taken from the queue is the only one that does not wait any more.
LEMMA HeadOnly ==
  ASSUME msgQ \in Seq(Clips), PopMsg
  PROVE  /\ Head(msgQ) \in Clips /\ msgQ' \in Seq(Clips)
         /\ \A n : Waits(n) /\ n # Head(msgQ) => Waits(n)'
<1>1. msgQ # <<>> /\ msgQ' = Tail(msgQ)
  BY DEF PopMsg
<1>2. Head(msgQ) \in Clips /\ msgQ' \in Seq(Clips) /\ Head(msgQ) = msgQ[1]
      /\ Len(msgQ') = Len(msgQ) - 1 /\ Len(msgQ) \in Nat
  BY <1>1
<1>3. ASSUME NEW n, NEW i \in 1..Len(msgQ), msgQ[i] = n, n # Head(msgQ) PROVE Waits(n)'
  <2>1. i # 1
    BY <1>2, <1>3
  <2>2. i - 1 \in 1..Len(msgQ') /\ msgQ'[i - 1] = msgQ[i]
    BY <1>1, <1>2, <2>1
  <2> QED
    BY <1>3, <2>2 DEF Waits
<1> QED
  BY <1>2, <1>3 DEF Waits

-----------------------------------------------------------------------------
(* The upload thread. *)

\* What a step of the thread has to preserve.
ThreadInv == ThreadType /\ RetryType /\ Uploading /\ Purging /\ Clean

\* The numbers of the retries are in their ranges at the start of a clip.
LEMMA Ranges ==
  /\ 0 \in 0..CVR_UPLOAD_TIMEOUT_INTERVAL /\ minInterval \in minInterval..2 * maxInterval
  /\ 0 \in 0..CVR_THRESHHOLD_COUNT - 1
  /\ \A n \in 0..CVR_THRESHHOLD_COUNT - 1 :
       (n + 1) % CVR_THRESHHOLD_COUNT \in 0..CVR_THRESHHOLD_COUNT - 1
BY LegacyAssumption

\* T_Size, T_Pop: a clip that does not wait any more is the one that is uploaded.
LEMMA SizeStep ==
  ASSUME ThreadInv, T_Size, UNCHANGED rvars
  PROVE  ThreadInv'
<1>1. ThreadType' /\ Purging' /\ Uploading'
  <2>1. Len(msgQ) \in Nat
    BY DEF ThreadInv, ThreadType
  <2> QED
    BY <2>1, LegacyAssumption DEF ThreadInv, ThreadType, Purging, Uploading, T_Size
<1>2. RetryType' /\ Clean'
  BY FilesStay DEF ThreadInv, RetryType, T_Size, rvars
<1> QED
  BY <1>1, <1>2 DEF ThreadInv

LEMMA PopStep ==
  ASSUME ThreadInv, T_Pop, UNCHANGED rvars
  PROVE  ThreadInv'
<1>1. Head(msgQ) \in Clips /\ msgQ' \in Seq(Clips) /\ \A n : Waits(n) /\ n # Head(msgQ) => Waits(n)'
  BY HeadOnly DEF ThreadInv, ThreadType, T_Pop
<1>2. clip = NoClip /\ clip' = Head(msgQ) /\ UNCHANGED <<disk, file_name>>
  BY DEF ThreadInv, Uploading, T_Pop, rvars
<1>3. Clean'
  <2>1. ASSUME NEW f \in disk PROVE f.clip \in {file_name', clip'} \/ Waits(f.clip)'
    <3>1. f.clip \in Clips /\ f.clip # NoClip
      BY FileNames, LegacyAssumption DEF ThreadInv, Clean
    <3>2. f.clip = file_name \/ Waits(f.clip)
      BY <1>2, <3>1 DEF ThreadInv, Clean, Owned
    <3> QED
      BY <1>1, <1>2, <3>2
  <2> QED
    BY <1>2, <2>1 DEF ThreadInv, Clean, FilesOfClips, Owned
<1> QED
  BY <1>1, <1>2, <1>3 DEF ThreadInv, ThreadType, RetryType, Uploading, Purging, T_Pop

\* T_Purge: the files go with the clip.
LEMMA PurgeStep ==
  ASSUME ThreadInv, T_Purge, UNCHANGED rvars
  PROVE  ThreadInv'
<1>1. Head(msgQ) \in Clips /\ msgQ' \in Seq(Clips) /\ \A n : Waits(n) /\ n # Head(msgQ) => Waits(n)'
  BY HeadOnly DEF ThreadInv, ThreadType, T_Purge
<1>2. UNCHANGED <<clip, file_name>> /\ disk' = disk \ Files(Head(msgQ))
  BY DEF T_Purge, rvars
<1>3. Clean'
  BY <1>1, <1>2, FilesGo DEF ThreadInv
<1> QED
  BY <1>1, <1>3 DEF ThreadInv, ThreadType, RetryType, Uploading, Purging, T_Purge

\* The end of a clip: its files go, and the thread has none.
LEMMA ReturnStep ==
  ASSUME ThreadInv, NEW ret, Return(ret), cpc \in {"begin", "post"},
         waitingInterval' \in {waitingInterval, minInterval}, UNCHANGED file_name
  PROVE  ThreadInv'
<1>1. disk' = disk \ Files(clip) /\ clip' = NoClip /\ UNCHANGED msgQ
  BY DEF Return, freeResources
<1>2. Clean'
  <2>1. \A n \in Clips : (n \in {file_name, clip} \/ Waits(n)) /\ n # clip
                          => n \in {file_name', clip'} \/ Waits(n)'
    BY <1>1 DEF Waits
  <2> QED
    BY <1>1, <2>1, FilesGo DEF ThreadInv
<1>3. RetryType'
  BY Ranges DEF ThreadInv, RetryType, Return
<1> QED
  BY <1>1, <1>2, <1>3 DEF ThreadInv, ThreadType, Uploading, Purging, Return

LEMMA BreakStep ==
  ASSUME ThreadInv, NEW ret, Break(ret), cpc = "post", UNCHANGED file_name
  PROVE  ThreadInv'
BY ReturnStep DEF Break

\* U_Retry: another try, within the time.
LEMMA RetryStep ==
  ASSUME ThreadInv, U_Retry, UNCHANGED rvars
  PROVE  ThreadInv'
<1>1. elapsed' \in 0..CVR_UPLOAD_TIMEOUT_INTERVAL
  <2>1. PICK t \in PostTime : elapsed' = elapsed + t + waitingInterval /\ elapsed' <= CVR_UPLOAD_TIMEOUT_INTERVAL
    BY DEF U_Retry
  <2>2. t \in Nat /\ elapsed \in Nat /\ waitingInterval \in Nat
    BY LegacyAssumption DEF PostTime, ThreadInv, RetryType
  <2> QED
    BY <2>1, <2>2, LegacyAssumption
<1>2. waitingInterval' \in minInterval..2 * maxInterval
  BY LegacyAssumption DEF ThreadInv, RetryType, U_Retry, Posting
<1>3. Clean'
  BY FilesStay DEF ThreadInv, U_Retry, rvars
<1> QED
  BY <1>1, <1>2, <1>3 DEF ThreadInv, ThreadType, RetryType, Uploading, Purging, U_Retry

\* All steps of the thread.
LEMMA UploadThreadStep ==
  ASSUME ThreadInv, UploadThread
  PROVE  ThreadInv'
<1>1. UNCHANGED rvars /\ UNCHANGED file_name
  BY DEF UploadThread, rvars
<1>2. CASE U_Refuse
  BY <1>1, <1>2, ReturnStep DEF U_Refuse
<1>3. CASE U_Begin
  <2>1. Clean'
    BY <1>1, <1>3, FilesStay DEF ThreadInv, U_Begin
  <2> QED
    BY <1>3, <2>1 DEF ThreadInv, ThreadType, RetryType, Uploading, Purging, U_Begin
<1>4. CASE U_Interrupted \/ U_Timeout \/ U_Stored \/ U_Forbidden
  <2>1. cpc = "post" /\ \E ret : Break(ret)
    BY <1>4 DEF U_Interrupted, U_Timeout, U_Stored, U_Forbidden, Posting
  <2> QED
    BY <1>1, <2>1, BreakStep
<1> QED
  BY <1>1, <1>2, <1>3, <1>4, SizeStep, PurgeStep, PopStep, RetryStep DEF UploadThread

LEMMA LostStep ==
  ASSUME ThreadInv, U_Lost
  PROVE  ThreadInv'
<1>1. cpc = "post" /\ UNCHANGED file_name /\ \E ret : Break(ret)
  BY DEF U_Lost, U_GiveUp, Posting
<1> QED
  BY <1>1, BreakStep

-----------------------------------------------------------------------------
(* The recorder and the theorem. *)

\* The recorder gives the thread nothing but the clip it hands over.
LEMMA ThreadKept ==
  ASSUME ThreadInv, UNCHANGED <<disk, msgQ, cpc, purge, clip, elapsed, waitingInterval, uploadfailcount, file_name>>
  PROVE  ThreadInv'
BY FilesStay DEF ThreadInv, ThreadType, RetryType, Uploading, Purging

\* A clip gets its file, or loses the one it had.
LEMMA StartClipStep ==
  ASSUME IInv, R_StartClip
  PROVE  ThreadInv' /\ Recording'
<1>1. /\ Name[second] \in Clips /\ file_name = NoClip
      /\ UNCHANGED <<msgQ, cpc, purge, clip, elapsed, waitingInterval, uploadfailcount>>
  BY NameOf DEF IInv, RecorderType, Recording, R_StartClip
<1>2. ThreadType' /\ RetryType' /\ Uploading' /\ Purging'
  BY <1>1 DEF IInv, ThreadType, RetryType, Uploading, Purging
<1>3. CASE /\ disk' = disk \cup {[clip |-> Name[second], kind |-> "ts"]}
           /\ file_name' = Name[second] /\ Goto("rec")
  <2>1. [clip |-> Name[second], kind |-> "ts"] \in Files(Name[second])
    BY DEF Files
  <2>2. FilesOfClips'
    BY <1>1, <1>3, <2>1 DEF IInv, Clean, FilesOfClips
  <2>3. ASSUME NEW f \in disk' PROVE f.clip \in {file_name', clip'} \/ Waits(f.clip)'
    <3>1. CASE f \in disk
      <4>1. f.clip \in Clips /\ f.clip # NoClip
        BY <3>1, FileNames, LegacyAssumption DEF IInv, Clean
      <4> QED
        BY <1>1, <3>1, <4>1 DEF IInv, Clean, Owned, Waits
    <3>2. CASE f = [clip |-> Name[second], kind |-> "ts"]
      BY <1>3, <3>2
    <3> QED
      BY <1>3, <2>3, <3>1, <3>2
  <2> QED
    BY <1>1, <1>2, <1>3, <2>2, <2>3 DEF ThreadInv, Clean, Owned, Recording, Goto
<1>4. CASE /\ disk' = disk \ {[clip |-> Name[second], kind |-> "ts"]}
           /\ UNCHANGED file_name /\ Goto("top")
  <2>1. Clean'
    BY <1>1, <1>4 DEF IInv, Clean, FilesOfClips, Owned, Waits
  <2> QED
    BY <1>1, <1>2, <1>4, <2>1 DEF ThreadInv, Recording, Goto
<1> QED
  BY <1>3, <1>4 DEF R_StartClip

\* The clip is queued with its files, or both go.
LEMMA FinishStep ==
  ASSUME IInv, R_Finish
  PROVE  ThreadInv' /\ Recording'
<1>1. /\ pc = "finish" /\ file_name \in Clips /\ file_name' = NoClip /\ pc' = "top"
      /\ UNCHANGED <<cpc, purge, clip, elapsed, waitingInterval, uploadfailcount>>
  BY DEF IInv, Recording, R_Finish, Goto, cvr_upload
<1>2. RetryType' /\ Uploading' /\ Purging' /\ Recording'
  BY <1>1 DEF IInv, RetryType, Uploading, Purging, Recording
<1>3. CASE term_flag
  <2>1. disk' = disk \ Files(file_name) /\ UNCHANGED msgQ
    BY <1>3 DEF R_Finish
  <2>2. \A n \in Clips : (n \in {file_name, clip} \/ Waits(n)) /\ n # file_name
                          => n \in {file_name', clip'} \/ Waits(n)'
    BY <1>1, <2>1 DEF Waits
  <2>3. Clean'
    BY <2>1, <2>2, FilesGo DEF IInv
  <2> QED
    BY <1>1, <1>2, <2>1, <2>3 DEF IInv, ThreadInv, ThreadType
<1>4. CASE ~term_flag
  <2>1. /\ disk' \in {disk, disk \cup {[clip |-> file_name, kind |-> "m_level"]}}
        /\ msgQ' = Append(msgQ, file_name)
    BY <1>4 DEF R_Finish, cvr_upload
  <2>2. msgQ' \in Seq(Clips) /\ \A n : n = file_name \/ Waits(n) => Waits(n)'
    <3>1. /\ msgQ \in Seq(Clips) /\ msgQ' \in Seq(Clips) /\ Len(msgQ) \in Nat
          /\ Len(msgQ') = Len(msgQ) + 1
          /\ msgQ'[Len(msgQ) + 1] = file_name
          /\ \A i \in 1..Len(msgQ) : msgQ'[i] = msgQ[i]
      BY <1>1, <2>1 DEF IInv, ThreadType
    <3>2. ASSUME NEW n, n = file_name PROVE Waits(n)'
      BY <1>1, <3>1, <3>2 DEF Waits
    <3> QED
      BY <3>1, <3>2 DEF Waits
  <2>3. FilesOfClips'
    BY <1>1, <2>1 DEF IInv, Clean, FilesOfClips, Files
  <2>4. ASSUME NEW f \in disk' PROVE f.clip \in {file_name', clip'} \/ Waits(f.clip)'
    <3>1. CASE f \in disk
      BY <1>1, <2>2, <3>1 DEF IInv, Clean, Owned
    <3>2. CASE f = [clip |-> file_name, kind |-> "m_level"]
      BY <2>2, <3>2
    <3> QED
      BY <2>1, <2>4, <3>1, <3>2
  <2> QED
    BY <1>1, <1>2, <2>2, <2>3, <2>4 DEF IInv, ThreadInv, ThreadType, Clean, Owned
<1> QED
  BY <1>3, <1>4

\* Steps of the recorder that the thread does not see.
LEMMA QuietStep ==
  ASSUME IInv, UNCHANGED <<disk, msgQ, cpc, purge, clip, elapsed, waitingInterval, uploadfailcount, file_name>>,
         pc' \in {"rec", "seek", "finish"} <=> pc \in {"rec", "seek", "finish"}
  PROVE  ThreadInv' /\ Recording'
BY ThreadKept DEF IInv, ThreadInv, Recording

LEMMA InvStep ==
  ASSUME IInv, [Next]_vars
  PROVE  ThreadInv' /\ Recording'
<1> DEFINE Goal == ThreadInv' /\ Recording'
<1>0. ThreadInv /\ Recording
  BY DEF IInv, ThreadInv
<1>1. CASE R_Init
  <2>1. /\ UNCHANGED <<disk, msgQ, purge, clip, elapsed, waitingInterval, uploadfailcount, file_name>>
        /\ cpc = "none" /\ cpc' \in {"size", "none"} /\ pc = "init" /\ pc' \in {"close", "top"}
    BY <1>1 DEF IInv, Starting, R_Init, cvr_upload_init, Goto, uvars
  <2>2. Clean'
    BY <1>0, <2>1, FilesStay DEF ThreadInv
  <2> QED
    BY <1>0, <2>1, <2>2 DEF ThreadInv, ThreadType, RetryType, Uploading, Purging, Recording
<1>2. CASE R_Top \/ R_StreamInit \/ R_WaitKeyFrame \/ R_Record \/ R_Seek \/ cvr_close
  BY <1>2, QuietStep DEF R_Top, R_StreamInit, R_WaitKeyFrame, R_Record, R_Seek, cvr_close, cvr_upload_close, Goto, uvars
<1>3. CASE self_term \/ interrupt \/ UNCHANGED vars
  BY <1>3, QuietStep DEF self_term, interrupt, cvrUploadSignalHandler, uvars, rvars, vars
<1>4. CASE UploadThread
  BY <1>0, <1>4, UploadThreadStep DEF UploadThread, rvars, Recording
<1>5. CASE U_Lost
  BY <1>0, <1>5, LostStep DEF U_Lost, Recording
<1> QED
  BY <1>1, <1>2, <1>3, <1>4, <1>5, StartClipStep, FinishStep DEF Next, Recorder, Uploader

LEMMA KeepType ==
  ASSUME RecorderType, Keep
  PROVE  has_an_iframe' \in BOOLEAN /\ second' \in Seconds
BY NextSecond DEF RecorderType, Keep

LEMMA RecorderTypeStep ==
  ASSUME RecorderType, Starting, [Next]_vars
  PROVE  RecorderType' /\ Starting'
<1>1. CASE R_Init \/ R_Top \/ R_StreamInit \/ cvr_close
  BY <1>1 DEF RecorderType, Starting, R_Init, R_Top, R_StreamInit, cvr_close, cvr_upload_init, cvr_upload_close,
     Goto, uvars, exits, session
<1>2. CASE R_WaitKeyFrame \/ R_Record \/ R_Seek
  <2>1. Keep \/ UNCHANGED <<has_an_iframe, second>>
    BY <1>2 DEF R_WaitKeyFrame, R_Record, R_Seek
  <2>2. has_an_iframe' \in BOOLEAN /\ second' \in Seconds
    BY <2>1, KeepType DEF RecorderType
  <2> QED
    BY <1>2, <2>2 DEF RecorderType, Starting, R_WaitKeyFrame, R_Record, R_Seek, Goto, uvars, exits
<1>3. CASE R_StartClip \/ R_Finish
  BY <1>3 DEF RecorderType, Starting, R_StartClip, R_Finish, cvr_upload, Goto, exits, session
<1>4. CASE self_term \/ interrupt \/ UNCHANGED vars
  BY <1>4 DEF RecorderType, Starting, self_term, interrupt, cvrUploadSignalHandler, uvars, rvars, vars, exits, session
<1>5. CASE UploadThread
  <2>1. UNCHANGED exits /\ cpc # "none"
    BY <1>5 DEF UploadThread, T_Size, T_Purge, T_Pop, U_Refuse, U_Begin, U_Interrupted, U_Timeout, U_Stored,
       U_Forbidden, U_Retry, Posting, Break, Return
  <2> QED
    BY <1>5, <2>1 DEF RecorderType, Starting, UploadThread, rvars, session, exits
<1>6. CASE U_Lost
  <2>1. UNCHANGED exits /\ cpc # "none"
    BY <1>6 DEF U_Lost, U_GiveUp, Posting, Break, Return
  <2> QED
    BY <1>6, <2>1 DEF RecorderType, Starting, U_Lost, session, exits
<1> QED
  BY <1>1, <1>2, <1>3, <1>4, <1>5, <1>6 DEF Next, Recorder, Uploader

LEMMA InvInit == Init => IInv
<1> SUFFICES ASSUME Init PROVE IInv
  OBVIOUS
<1>1. RetryType
  BY Ranges DEF Init, DaemonInit, UploadInit, RetryType
<1>2. 0 \in Seconds
  BY Constants DEF Seconds
<1>3. RecorderType
  BY <1>2 DEF Init, DaemonInit, UploadInit, RecorderType
<1>4. ThreadType /\ Recording /\ Uploading /\ Purging /\ Starting
  BY DEF Init, DaemonInit, UploadInit, ThreadType, Recording, Uploading, Purging, Starting
<1>5. Clean
  BY DEF Init, DaemonInit, UploadInit, Clean, FilesOfClips, Owned
<1> QED
  BY <1>1, <1>3, <1>4, <1>5 DEF IInv

LEMMA Invariant == Spec => []IInv
<1>1. IInv /\ [Next]_vars => IInv'
  BY InvStep, RecorderTypeStep DEF IInv, ThreadInv
<1> QED
  BY <1>1, InvInit, PTL DEF Spec

\* The types, for any set of clip names, limits and intervals: the retries of a clip stay within
\* its time (doCVRUpload).
THEOREM TypeCorrect == Spec => []TypeOK
BY Invariant, IInvGives, PTL

\* Every file in /tmp/cvr has an owner who will remove it: the recorder, the queue or the upload
\* thread, also when clips share a name, are dropped or given up.
THEOREM NoFileLeaks == Spec => []FilesOwned
BY Invariant, IInvGives, PTL
-----------------------------------------------------------------------------
(* The two images of MCDaemons: what holds of each daemon holds of the image  *)
(* that carries it, since the steps of one leave the state of the other alone. *)

FT == INSTANCE FrameThread_proofs

\* FrameThread as MCDaemons instantiates it is FrameThread as its proofs do.
LEMMA SameThread ==
  /\ Threaded!vars = FT!vars /\ Threaded!TypeOK = FT!TypeOK
  /\ Threaded!ThreadConstants = FT!ThreadConstants /\ Threaded!HangIdle = FT!HangIdle
BY DEF Threaded!vars, FT!vars, Threaded!queue, FT!queue, Threaded!watch, FT!watch, Threaded!upload, FT!upload,
       Threaded!thread, FT!thread, Threaded!flags, FT!flags, Threaded!TypeOK, FT!TypeOK,
       Threaded!Frames, FT!Frames, Threaded!sampleSet, FT!sampleSet, Threaded!HangIdle, FT!HangIdle,
       Threaded!ThreadConstants, FT!ThreadConstants

LEMMA SameRecorder == Threaded!Recorder <=> FT!Recorder
BY DEF Threaded!Recorder, FT!Recorder, Threaded!R_KvsInit, FT!R_KvsInit, Threaded!R_Init, FT!R_Init,
       Threaded!R_Top, FT!R_Top, Threaded!R_StreamInit, FT!R_StreamInit, Threaded!R_WaitKeyFrame,
       FT!R_WaitKeyFrame, Threaded!R_Begin, FT!R_Begin, Threaded!R_StartClip, FT!R_StartClip,
       Threaded!R_RecordEnds, FT!R_RecordEnds, Threaded!R_Disabled, FT!R_Disabled, Threaded!R_Record,
       FT!R_Record, Threaded!R_Seek, FT!R_Seek, Threaded!R_Finish, FT!R_Finish, Threaded!R_Push, FT!R_Push,
       Threaded!cvr_close, FT!cvr_close, Threaded!queue, FT!queue, Threaded!watch, FT!watch,
       Threaded!upload, FT!upload, Threaded!thread, FT!thread, Threaded!flags, FT!flags,
       Threaded!At, FT!At, Threaded!Goto, FT!Goto, Threaded!Quiet, FT!Quiet, Threaded!kvsInit, FT!kvsInit,
       Threaded!createkvsstream, FT!createkvsstream, Threaded!CheckHang, FT!CheckHang,
       Threaded!HangIdle, FT!HangIdle, Threaded!sampleSet, FT!sampleSet, Threaded!Tick, FT!Tick,
       Threaded!FrontIsEnd, FT!FrontIsEnd, Threaded!Sample, FT!Sample

LEMMA SameNext == Threaded!Next <=> FT!Next
<1>1. Threaded!Uploader <=> FT!Uploader
  BY DEF Threaded!Uploader, FT!Uploader, Threaded!U_Top, FT!U_Top, Threaded!pop_KvsFrameInfo,
         FT!pop_KvsFrameInfo, Threaded!U_Put, FT!U_Put, Threaded!Alive, FT!Alive, Threaded!Resting, FT!Resting,
         Threaded!upload, FT!upload, Threaded!watch, FT!watch, Threaded!kvsUploadFrames, FT!kvsUploadFrames,
         Threaded!EndStatus, FT!EndStatus, Threaded!Uploaded, FT!Uploaded,
         Threaded!StreamFailed, FT!StreamFailed
<1>2. (Threaded!U_Hang \/ Threaded!self_term) <=> (FT!U_Hang \/ FT!self_term)
  BY DEF Threaded!U_Hang, FT!U_Hang, Threaded!self_term, FT!self_term, Threaded!Alive, FT!Alive,
         Threaded!Resting, FT!Resting, Threaded!Quiet, FT!Quiet, Threaded!queue, FT!queue,
         Threaded!thread, FT!thread, Threaded!upload, FT!upload, Threaded!watch, FT!watch
<1> QED
  BY <1>1, <1>2, SameRecorder DEF Threaded!Next, FT!Next

\* The image carries one of the two, and the other has not begun: there are no files.
ThreadHolds == FT!Types /\ FT!WatchType /\ FT!Watching
ImageInv    == \/ image = "legacy" /\ IInv
               \/ image = "thread" /\ ThreadHolds /\ disk = {}

LEMMA ImageInit == MCInit => ImageInv
<1> SUFFICES ASSUME MCInit PROVE ImageInv
  OBVIOUS
<1>1. IInv
  BY InvInit DEF MCInit
<1>2. FT!ThreadConstants /\ FT!Init
  BY ThreadAssumption, SameThread DEF MCInit, Init, Threaded!ThreadInit, FT!ThreadInit, FT!Init
<1>3. ThreadHolds
  BY <1>2, FT!WatchInit, FT!TypeInit DEF ThreadHolds
<1>4. disk = {}
  BY DEF MCInit, Init, DaemonInit, UploadInit
<1> QED
  BY <1>1, <1>3, <1>4 DEF MCInit, ImageInv

\* A step is one of the daemon the image carries, or none.
LEMMA ImageSteps ==
  ASSUME ImageInv, [MCNext]_allvars
  PROVE  /\ image' = image
         /\ image = "legacy" => [Next]_vars /\ UNCHANGED threadvars
         /\ image = "thread" => [FT!Next]_(FT!vars) /\ UNCHANGED disk
<1>1. CASE Legacy(Next)
  BY <1>1 DEF Legacy
<1>2. CASE Thread(Threaded!Next)
  BY <1>2, SameNext DEF Thread, legacyvars, uvars
<1>3. CASE UNCHANGED allvars
  BY <1>3 DEF allvars, threadvars, vars, uvars, rvars, session, exits, FT!vars, FT!queue, FT!watch, FT!upload,
              FT!thread, FT!flags
<1> QED
  BY <1>1, <1>2, <1>3 DEF MCNext

\* A series of samples without progress took as many frames.
HangCounted ==
  counterHang < noOfSamples /\ counterHang' = noOfSamples => idle' >= Threaded!HangIdle \/ behind

LEMMA ImageStep ==
  ASSUME ImageInv, [MCNext]_allvars
  PROVE  ImageInv' /\ HangCounted
<1>1. CASE image = "legacy"
  <2>1. IInv' /\ image' = "legacy"
    BY <1>1, ImageSteps, InvStep, RecorderTypeStep DEF ImageInv, IInv, ThreadInv
  <2>2. counterHang' = counterHang
    BY <1>1, ImageSteps DEF threadvars
  <2>3. noOfSamples \in Nat
    BY ThreadAssumption DEF Threaded!ThreadConstants
  <2> QED
    BY <2>1, <2>2, <2>3 DEF ImageInv, HangCounted
<1>2. CASE image = "thread"
  <2>1. ThreadHolds /\ disk = {} /\ [FT!Next]_(FT!vars) /\ FT!ThreadConstants
    BY <1>2, ImageSteps, ThreadAssumption, SameThread DEF ImageInv
  <2>2. FT!WatchType' /\ FT!Watching' /\ HangCounted
    BY <2>1, FT!WatchStep, SameThread DEF ThreadHolds, HangCounted
  <2>3. FT!Types'
    BY <2>1, FT!TypeStep DEF ThreadHolds
  <2>4. image' = "thread" /\ disk' = {}
    BY <1>2, <2>1, ImageSteps
  <2> QED
    BY <2>2, <2>3, <2>4 DEF ImageInv, ThreadHolds
<1> QED
  BY <1>1, <1>2 DEF ImageInv

LEMMA ImageInvariant == MCSpec => []ImageInv
BY ImageInit, ImageStep, PTL DEF MCSpec

\* The types of the daemon that runs, for all limits of both.
THEOREM ImageTypes == MCSpec => []ImageTypeOK
<1>1. ImageInv => ImageTypeOK
  BY IInvGives, SameThread, FT!TypesGiveTypeOK DEF ImageInv, ImageTypeOK, ThreadHolds
<1> QED
  BY <1>1, ImageInvariant, PTL

\* Files are owned whichever of the two runs; FrameThread writes none.
THEOREM ImageFiles == MCSpec => []FilesOwned
<1>1. ImageInv => FilesOwned
  BY IInvGives DEF ImageInv, FilesOwned
<1> QED
  BY <1>1, ImageInvariant, PTL

\* The daemon that has the watch is ended for a hang only after a whole series of samples without
\* an upload of another timestamp, or when the frame uploaded last was not past the timestamp the
\* watch had noted (push_KvsFrameInfo).
THEOREM ImageHangs == MCSpec => HangJustified
<1>1. HangJustified <=> [][HangCounted]_(Threaded!vars)
  BY DEF HangJustified, Threaded!HangJustified, HangCounted
<1>2. ImageInv /\ [MCNext]_allvars => [HangCounted]_(Threaded!vars)
  BY ImageStep
<1> QED
  BY <1>1, <1>2, ImageInvariant, PTL DEF MCSpec
=============================================================================
