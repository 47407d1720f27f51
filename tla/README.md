# Verification of rdkc-cvr

TLA+ models, model-checking runs and TLAPS proofs for the continuous video
recorder of RDK cameras.  The repository holds several generations of the same
daemon, of which an image carries one, and the process that fetches the camera's
configuration.

## 1. The system

### The clip uploader, `kvs/clipupload`

One process that cuts the camera's streams into clips and uploads whole clips to
Kinesis Video Streams.

    video analytics --> rtMessage thread --> rtmessageCVRQ
                                                 |
    camera ------------> do_cvr (main thread) <--+ --> /tmp/cvr/*.ts, *.m_level
                   |  cvr_upload / PushMsg_kvs
                   v
               msgQ_kvs (mutex + condition variable)
                   |  PopMsg_kvs
                   v
               kvsUpload thread --> kvs_stream_play --> GStreamer threads --> Kinesis SDK
                   |  uploadData, statCv                 ^---- callbacks, acknowledgements
                   v
               cvrStatisticsUpload thread --> HTTP post

### The frame uploaders, `kvs/frameupload` and `kvs/framethreadupload`

`do_cvr` puts each frame into the Kinesis stream as it comes
(`pushFrames`, `kvsUploadFrames`); a clip is a fragment of the stream, and the
acknowledgement of the fragment, which arrives on a thread of the SDK, is the
news that the clip is stored.  `frameupload` can be built from either of two
cores.  In `framethreadupload` the frames go through a queue to a thread of
their own, which the recorder watches.

### The older uploader, `legacy`

`do_cvr` writes a file per clip; a thread posts the files by HTTP, again and again until
the time of a clip is over, and purges the queue when it is too long.

### Configuration, `polling`

`xfinity_polling_config` is a process of its own: it fetches an XML document,
translates it into settings, saves them and tells the daemons.  It keeps a lock
file with its pid and kills the instance before it.

| Part | State | Operations | What makes it correct |
|---|---|---|---|
| Recorder (`clipupload/core/cvr_daemon.cpp`, `do_cvr`) | session flags, the key frame held back, audio setting and flags, the open clip | read frames, cut clips at key frames, handle stream errors, switch audio, submit or delete the clip, SIGTERM | no frame lost or doubled between clips; no clip with a failed read is uploaded; SIGTERM ends it |
| Clip hand-over (`upload/cvrUploadAPI.cpp`) | `msgQ_kvs`, the watchdog's stamps and slots, clips in the threads' hands, files | push with flush and watchdog, pop, play, delete, report, exit | every file has one owner and is deleted once; bounded disk; order; one verdict per clip; a hung upload thread ends the process |
| Playing (`upload/kvsupload.cpp`) | `CustomData`: loop flags, connection error, acknowledgement status, end-of-stream flags | a pipeline per clip, wait for the acknowledgement, reset or recreate the stream; callbacks | a success was acknowledged; the main loop ends |
| Motion and events (`core/cvr_daemon.cpp`) | queue of results, levels per second, the frames with most motion, event times | push, pop, levels, events, stack of frames, quiet interval | levels are complete; events belong to the clip; the best frame is sent; only repeated events are skipped |
| Frame upload (`kvs/frameupload`) | stream state, push status, maps from fragment to clip, time of the last acknowledgement | push a frame, end a clip, reset, create again, acknowledgements and errors of the SDK | reports name the right clip; clips do not share a fragment; silence is noticed; SIGTERM ends it |
| Threaded frame upload (`kvs/framethreadupload`) | the same, the frame queue, the watch's counters | queue, pop, put, sample | the watch kills for a hang and only for one |
| Legacy (`legacy`) | queue of clips, clip in hand, retries, files | record, queue, purge, post, retry, give up | every file has someone who removes it; no clip stays |
| Polling (`polling`) | lock file, error count, pause, response buffer, settings | start, poll, retry, recover, apply, save, notify | one instance; a round applies what it received; settings settle and reach the daemons |
| `kvs/trial`, `samples`, `cvr-gst-rpi`, build files | - | - | not part of a daemon that is built |

**What is hard.**  The clip uploader trusts a queue size that it reads without the
mutex; both threads pop the same queue and unlink what they popped; a call into
the SDK may never return; callbacks on half a dozen threads share flags; an
acknowledgement races its timeout; nested read loops hold back a frame for the
next clip and leave by errors and signals.  Results of the analytics come late,
are dropped or used twice.  In the frame uploaders the status of one push
overwrites that of another, and callbacks look things up in maps the recorder
writes.  The polling process overlaps with its predecessor while the lock file
is empty, and keeps pauses, counters and a pointer from one round to the next.
`PROJECT.json` lists these hazards line by line, with the properties that would
catch each one going wrong.

## 2. The modules

| Module | Models | Proofs |
|---|---|---|
| `ClipUpload`, `ClipBuffer` | the hand-over of clips; what the queue promises | `ClipUpload_proofs` |
| `KvsPlay` | playing clips into Kinesis | `KvsPlay_proofs` |
| `Recorder` | `do_cvr` of the clip uploader | `Recorder_proofs` |
| `Motion` | motion statistics, events and object-detection frames | `Motion_proofs` |
| `FrameStream`, `FrameUpload` | the Kinesis stream of the frame uploaders; `do_cvr` of both cores of `frameupload` | `FrameUpload_proofs` |
| `FrameThread` | the two threads of `framethreadupload` | `FrameThread_proofs` |
| `LegacyUpload`, `LegacyDaemon` | the legacy upload thread; with `do_cvr` around it | `LegacyDaemon_proofs` |
| `PollingConfig`, `Polling` | what a document does to the settings; the process | `Polling_proofs` |
| `MCClipUpload`, `MCMotion`, `MCPolling`, `MCDaemons` | instances for TLC | - |

### ClipUpload - the hand-over of clips

Threads are program counters: `rpc` for the recorder in `do_cvr`/`PushMsg_kvs`,
`upc` for `kvsUpload`, `spc` for `cvrStatisticsUpload`.  A clip is a name;
`files` and `m_files` are the names that have a `.ts` and a `.m_level` file.

* `PopMsg_kvs` and the locked tail of `PushMsg_kvs` are one step each.  The unlocked
  size read (`R_Submit`), the watchdog (`R_HangCheck`), the flush's pop
  (`R_Flush`), its unlinks and the push are separate steps, so the upload thread runs
  between any two.
* The watchdog keeps the code's three slots and its counter.  `hangdetecttime` is a
  reading of the millisecond clock; a reading differs from those the slots
  remember.  This is the assumption that two signs of life seen by different pushes (one
  per clip, many seconds apart) are not in the same millisecond.
* What the network and the SDK decide is a choice: `kvs_init` fails or not,
  `kvs_stream_play` returns any of its results or never, and `exit(1)` happens when
  `recreate_stream` gives up.
* Whether a statistics report is due is a choice too: the counters are not modelled.
* `quiet` (pushes since the last sign of life) is a history variable for
  `WatchdogExact`; no guard reads it.

`ClipBuffer` is an abstract lossy FIFO: a bounded buffer that may lose its oldest
clip, one consumer with one clip at a time.  `ClipUpload!LossyFifo` says that the
hand-over implements it, with `buffer <- msgQ_kvs`, `inUse <- uclip` and capacity
`CVR_THRESHHOLD_COUNT + 1`.

### KvsPlay - playing one clip after the other

The upload thread in `kvs_stream_play`, the streaming threads of the two
tracks (`track`), the bus callback, the SDK's stale/error handlers (`hpc`, with
the test of `mainloop_running` outside the mutex as a step of its own) and the
acknowledgements.  `is_running` is GLib's own state of the loop, beside the
code's `mainloop_running`: `g_main_loop_quit` does nothing to a loop that does
not run yet.  `sent` and `acked` stand for the SDK: only a clip whose fragment was
ended is acknowledged, and a reset drops the clips not yet acknowledged.  A clip is one
fragment: the code marks only its first key frame.  Live and absolute-time modes are left
out because `do_cvr` fixes both flags to 0 (`cvr_daemon.cpp:1376`).

### Recorder - cutting the streams into clips

`do_cvr` with its three read loops and the drain of the sound.  Video and audio
frames are numbered as the camera delivers them; a number is also the timestamp,
in units of `AUDIO_DURATION`.  The duration may be over at any step, which
includes what the code's clock comparison does.  `audio` is the audio bit of
`cvr_flag`; `kvsclip_audio` is the flag the upload thread is given.  `fresh`,
`bad` and `submitted` are history variables for the properties.  `do_cvr`'s
"disabled" branches compare an array with 0 and are never taken.

`ClipUpload` and `Recorder` describe the same thread from two sides: the first
shortens the recording of a clip to one step and follows the clip's files, the
second follows its frames and ends where `cvr_upload` is called.

### Motion - statistics of a clip

The same `do_cvr` from a third side: what it does with the results of the video
analytics.  `on_message_cvr` queues a result (`push_msg`, a full queue drops its oldest);
`R_Frame` takes one per frame and `Current` decides whether it is about this
second, the last result being evaluated again while the queue is empty.
`R_NextSecond` writes the level of a second when a frame of a later one comes,
`R_Finish` the last one.  `cvr_get_event_info` reports or skips events, and
`update_od_frame_data`/`push_od_frame_data` keep the frames with the most motion.
Times are in half seconds, so that two frames fall into one second and a gap may
skip one.  The code has three times, which the model keeps apart: the PTS of a frame
(`pts`, `start`), by which `Current` compares, on both sides; the second in which the
analytics looked at it (`curr_time`), up to `Delays` later; and the time of day at which
a key frame is *read* (`start_t`), from which the clip gets its `cvr_starttime`.  A frame
may be read at any time after it was made (`Reads`), for time passes while
memory is low or `cvr_upload` is at work (`Passes`).  A result carries a score, a level and event types; the boxes
themselves are not there.  `counted`, `best`, `taken` and `skipped` are history
variables; `counted` has, by second, what the frames counted to it said, and
`LevelsComplete` compares the levels written with it.

### FrameStream and FrameUpload - frames put one by one

`FrameStream` is `kvsupload.cpp`: the state of the stream (`handle`, `drops`,
`clips`, `times`) and an operator for each thing that happens to it.
`Upload_Frame`, `Upload_End` and `Upload_Fail` are the outcomes of `kvsUploadFrames`;
`OpenClip` and `Remember` fill the two maps; `FragmentAckReceivedHandler` and
`streamErrorReportHandler` are the callbacks, which come at any time.  Time is
counted in clips (`unacked`).  `fragments`, `opener` and `mixed` say what the SDK
was really given: the clip whose I frame opened each fragment, and whether a
frame of another clip ever went in; `trouble` says that something failed.

`FrameUpload` is `do_cvr` around it, for both cores (`core`).  Actions `R_...` are
the osi core's or both cores', `C_...` those of the older core, which has a session
of its own for the sound and goes on in places where the osi core gives up.  A
clip is named by its first I frame; reload of the configuration, audio
switching, disabling, SIGTERM and the retries of `kvsInit` are all there, and so is the
older core's wait for memory at the end of a round (`C_MemoryBack`,
`core/cvr_daemon.cpp:1257`).

### FrameThread - a thread for the upload

`R_...` is the recorder, `U_...` the thread `pushFramesToKVS`; the queue
(`kvsDataQ`) has a limit and its own lock, and the fields the watch reads are
read outside of it.  `Sample` is the watch: it counts pushes
(`counterForSample`), takes a sample every so many and counts the samples that
found the last uploaded timestamp unmoved (`counterHang`).  A frame is the
end of a clip, the I frame after it with the same timestamp, or any other, whose
timestamp may be newer than the one the watch noted, the same or older: sound
and video share the session, and `prevUploadedFrame_ts` is never reset when the
camera's timestamps start again.  An upload may hang (`U_Hang`).  `idle` counts, as
history, the pushes since an upload of another timestamp, and `behind` says that
that upload was not past the timestamp noted.

### LegacyUpload and LegacyDaemon

`LegacyUpload` is the queue with its purge (`T_Purge`: the size is read once, the
clips popped one by one while the recorder pushes), and `doCVRUpload`:
posts, refusals, pauses that double, and the time of the clip.
`LegacyDaemon` adds `do_cvr` as far as it makes and removes files.  A clip's name
is the second it started in and the clock goes round a few names, so two clips
may share their files.  SIGINT reaches the upload only.

### PollingConfig and Polling

`PollingConfig` writes `XPC_apply_config` as functions from settings to settings,
a tag at a time, folded over the children of a document.  Attributes may be
missing, the vendor's `set_*` functions may fail (`broken`), and values take the
code's conversions: periods, percentages to levels, enumerations, the
event table with its slots and its overall switch.  `Texts` are the strings
(`STRING` for TLC); `AreSettings` and `IsDocument` give the types of the settings'
fields and of attributes.  That the documents (`Docs`) and the settings at the
start (`Initial`) have them is `SettingsAssumption`: the XML parser and the
vendor's library are outside the model.

`Polling` is the process.  Each instance follows the lock protocol
(`XPC_check_filelock`, step by step: create, read, signal, unlink, write), and
`Main` also polls: `P_Request` with its outcomes, `P_Failed` and the
count towards the recovery URL, the doubling pause, the response that is freed
through a copy of its pointer (`receiveData`), applying, saving, rereading.

Faulty variants of definitions, such as `PopMsg_kvs_Keeps`, are not used by
`Next`; each stands before the definition it varies and is the plausible mistake with which one
of the properties was tried out: with the variant in its place TLC finds the
property violated.

## 3. The runs

| Run | Bounds | Result |
|---|---|---|
| `clip_upload` | threshold 1, one retry, no post retry, 5 clips, 4 clock readings, symmetric | all hold; 94,521 states up to symmetry |
| `clip_upload_live` | threshold 0, no retry, one post retry, 3 clips, 4 readings, names in turn | both hold; 407,438 states |
| `clip_upload_flush` | as `clip_upload`, one post retry | `FlushFindsClips` fails |
| `kvs_play` | 3 clips, with and without sound | all hold; 15,833 states |
| `kvs_play_ack` | 2 clips | `AckOfOwnClip` fails |
| `kvs_play_eos` | 1 clip | `LastEosFlushes` fails |
| `recorder` | 4 video and 4 audio frames | all hold; 422,857 states |
| `recorder_audio` | the same | `AudioFailureIgnored` fails |
| `motion` | queue of 2, 2 frames kept, a table of 1 second, time up to 6 half seconds, results half a second late, 3 kinds of results, quiet interval 0 or 2 | all hold; 4,154,132 states |
| `frame_upload` | both cores, 3 video frames, 1 change of configuration, 1 retry of `kvsInit`, maps of 2 clips, silence of 1 clip, 1 refused frame | all hold; 803,896 states |
| `daemons` | legacy: 2 clip names, queue of 2, threshold 1, 3 seconds; threaded: queue of 3, 3 samples, 1 retry | all hold; 712,400 states |
| `polling` | 2 instances, 2 documents, error count 2, one retry interval | all hold; 282,639 states |

**Why the bounds are enough.**  `DiskBound` allows threshold + 3 clips, so 5
clips for threshold 1 let one more exist than may be in use.  The slots
remember three readings and `Never`; a fourth reading is always free.  Three clips in
`kvs_play` let an acknowledgement be late for two clips.  Four video frames in
`recorder` give three consecutive clips and a clip of two frames; four audio frames
let the sound lag behind and run ahead.  In `motion` frames of six half seconds, which the recorder starts to read
at the fourth, hold more than two clips, with a gap, key frames read up to three half seconds
late (without its named exception `EventsOfClip` fails), and a second event of the same
type inside and outside the quiet interval; the queue overflows, the stack drops a frame, and the table of one
second is overrun.  In `frame_upload` three frames are three clips of one frame or
a long and a short one, so the maps of two are emptied in between and a report can
be late for an earlier clip; every threshold is passed within two clips.  In
`daemons` a clip meets its namesake and both queues overflow; three samples are
the least with which the watch's count can start over.  In `polling` the two documents
together use every tag, change values back and forth and leave attributes
out, and the second one polls more often than retries pause, so that the
excuse in `AppliesReceived` and `KeepsPolling` occurs next to the normal case.
For most of the safety properties the bounds are then proved to be irrelevant (section 5).

`daemons` runs two unrelated small models side by side: an image carries one of
the two daemons (`image`), and only its steps are taken.

**Symmetry** is used in `clip_upload` only (safety).  `clip_upload_live` instead
lets every step take the next free name and the next reading, which removes no
behaviour up to renaming; there SIGTERM comes from the watchdog only, since a
signal from outside merely lets the process end.

**Deadlock** is not checked: in every module the process may end, and in most the
clips, frames or time of the bounded instance are used up.

**Fairness.**

* `ClipUpload`: weak fairness of the recorder and of the upload thread's own code (the
  scheduler runs both), strong fairness of `R_Submit` (not every clip fails for a stream error or
  SIGTERM - the watchdog only runs when clips are pushed).  Nothing is assumed of
  `UploadCalls`, the calls that depend on the network, nor of the statistics thread's post.
* `KvsPlay`: the player, the streaming threads (every file ends and GStreamer
  delivers it) and a handler that has started go on; acknowledgements and errors need not come.
* `Recorder`, `FrameUpload`: weak fairness of the main thread; memory need not come
  back (`R_MemoryBack` and `C_MemoryBack` have no fairness), SIGTERM and the SDK's callbacks need
  not come.
* `FrameThread`: weak fairness of both threads' code.  An upload may hang, and a camera that
  delivers nothing lets the recorder loop without a push: `HangDetected` therefore
  supposes that frames go on coming.
* `LegacyDaemon`: weak fairness of the upload thread only, whose posts return within
  the time limit that libcurl is given.  The recorder may stop.
* `Polling`: weak fairness of `Main`'s loop (a request is answered or fails: it has a
  time limit), of the time that passes, and of its start through the lock.
* `Motion` has no liveness property: it counts what comes.

## 4. What the runs show

*Clip uploader.*  Files on disk are exactly the clips somebody owns; no clip is
played by one thread and deleted by the other; at most threshold + 3 clips on
disk although the size is stale; one verdict per clip; the watchdog fires at
exactly the third quiet push; the queue is a lossy FIFO; a blocked upload thread
does not stay so for good, unless the recorder itself is in the wait described
next, and no clip stays in the queue (the variant with which `NoClipStuck` was
tried out, a flush that deletes the clip just made instead of the oldest, breaks no safety property); no more successes than acknowledgements; the play loop ends except in three
named ways; clips join, in video and sound; no clip with a failed read is
uploaded; SIGTERM ends `do_cvr` unless memory stays low.

*Motion.*  The statistics have for each second the level of exactly the frames counted to
it, the last second included, as far as the table has room (`LevelsComplete`); although the last
result is used again while there is none newer, and across clips, no event
older than the clip hides one of the clip (`EventsOfClip`), with one exception: when a key
frame is read in a later second than it was made in (`ReadLate`), the clip is said to start
later than its first frame, and an event of its first frames may be older than
that, though not more than a second older than the first frame; it is then not reported, and
hides a later one of its type.  Furthermore the frame with the
most motion is the first of those sent although a full stack drops frames
(`BestFrame`); an event is skipped only within the quiet interval
after a reported one (`SkipsJustified`).

*Frame uploaders.*  In both cores an acknowledgement leads to the clip whose I frame
opened the fragment (`ReportsTruthful`), although the maps are filled, emptied
and read by different threads; frames of two clips share a fragment only after
something failed (`FragmentsSeparate`); past the silence limit the stream has been
reset or is about to be created again (`SilenceBounded`); SIGTERM ends every loop,
the retries included, but one: the older core's loop that waits for memory does not look at
`term_flag` (`core/cvr_daemon.cpp:1257`), and `TermStops` names it as its exception.  In the
threaded one, the watch ends the daemon only if no upload changed the timestamp during the
whole series of samples, or if the last upload was not past the timestamp
the watch had noted (`HangJustified`).  In the second case, sound that is older than the
frame before it or timestamps that have started again (`osi_cvr_daemon.cpp:624`), the
daemon may be killed although frames go out.  The watch does end it when an upload hangs
while frames come (`HangDetected`).

*Legacy.*  Each file belongs to the recorder, to a queued clip or to the upload
thread (`FilesOwned`), also when two clips share a name; a clip that was handed over
does not stay (`ClipsLeave`).

*Polling.*  Of two overlapping instances the first has been told to go once the second one
runs, unless it has lost its configuration (`OneInstance`).  This is about **two**
instances: with three, the exit of the first can unlink the lock file of the
second, and the third then finds none and starts beside it.  The property excludes
that case by name (`OnlyTwo`), for the code promises nothing about it.  A round
applies only what it received itself (`AppliesReceived`), as long as the polling
interval is longer than the longest pause; otherwise the response of an earlier
round, already freed, is applied or freed again (`P_DoubleFree`), and the loop
may stop asking at all (`KeepsPolling` names the same exception).  The recovery
URL is used exactly when the last `XPC_MAX_ERROR_COUNT` requests could not connect;
a document applied twice changes nothing the second time but bit rates, which may come from an
uninitialized variable, and once it has switched motion detection, by a `<motion>` that has attributes,
`usr_config` and `All_Conf` agree on it (`Settled`); the overall event switch follows
the entries of the table (`TriggerFollowsEvents`); changed settings reach the daemons (`ChangesReact`).

Disagreements between the code and its comments, each with a run:

1. **Flush on an empty queue** (`cvrUploadAPI.cpp:247`, `FlushFindsClips`).  The
   upload thread can empty the queue between the size read and the flush; the
   recorder then waits for ever in `PopMsg_kvs`, and the watchdog, which lives in the
   push, with it.
2. **A late acknowledgement counts for the next clip** (`kvsupload.cpp:1985`,
   `AckOfOwnClip`).  `SuccessesAcked` is what remains true.
3. **Two first ends of stream** (`kvsupload.cpp:1502`, `LastEosFlushes`).
   Nothing is flushed and the main loop goes on.
4. **Audio failure is not ignored** (`cvr_daemon.cpp:1524`, `AudioFailureIgnored`).
   The clip has no audio track but is announced with one.

`LoopEnds` names the other two ways in which the main loop can run for ever: a callback
that quits before `g_main_loop_run` (`kvsupload.cpp:1920`), and the
error callbacks that only log (`:967`, `:1481`).  In all three the watchdog of
`PushMsg_kvs` is what ends the process (`HangDetected`).

## 5. The proofs

Each `*_proofs` module proves for **every** value of the constants that satisfy
the named assumptions of the module it extends (`ThreadConstants`, an operator of
`FrameThread`, is an assumption of its theorems, because the module is also used
through `INSTANCE`).

| Module | Theorem | States | Along |
|---|---|---|---|
| `ClipUpload_proofs` | `TypeCorrect` | `[]TypeOK` | `TypeInv`: types, who has a clip in hand where (`Hands`), `RetryBound` |
| | `OneOwner`, `FilesAreOwned` | `[]SingleOwner`, `[]FilesOwned` | `OwnInv`: both together with `LevelsGone`, on top of `TypeInv` |
| | `DiskBounded` | `[]DiskBound` | `QueueBound`, `OwnInv`, cardinality lemmas |
| | `VerdictOnce` | `OneVerdict` | `VerdictHeld` |
| | `KillsAtThirdQuietPush` | `WatchdogExact` | `SlotsQuiet` |
| | `ImplementsLossyFifo` | `LossyFifo` | step simulation under `OwnInv` and `QueueBound` |
| `KvsPlay_proofs` | `TypeCorrect`, `SuccessesPaid` | `[]TypeOK`, `[]SuccessesAcked` | `TypeInv`, `Paid` |
| `Recorder_proofs` | `TypeCorrect` | `[]TypeOK` | itself |
| | `OnlyCleanClips` | `CleanClips` | `BadFlagged` |
| | `ClipsAreJoined` | `ClipsJoin` | `KeyHeld`, `Holding`, `Contents`, `Links` |
| | `SoundIsJoined` | `SoundJoins` | `Drained`, `SoundLinks` |
| `Motion_proofs` | `TypeCorrect`, `EventsAreOfTheClip`, `BestIsFirst`, `SkipsAreJustified` | `[]TypeOK`, `[]EventsOfClip`, `[]BestFrame`, `[]SkipsJustified` | `IInv` |
| | `LevelsAreComplete` | `[]LevelsComplete` | `Tallied` (`Open`), part of `IInv` |
| `FrameUpload_proofs` | `TypeCorrect` | `[]TypeOK` | `TypeInv` |
| | `NoLongSilence` | `[]SilenceBounded` | `SilenceInv` |
| | `ReportsAreTruthful` | `[]ReportsTruthful` | `ReportInv` (`Timecodes`, `Kept`) |
| | `FragmentsAreSeparate` | `[]FragmentsSeparate` | `SeparateInv` |
| `FrameThread_proofs` | `WatchKnowsIdle`, `HangsAreReal`, `TypeCorrect` | `[](WatchType /\ Watching)`, `HangJustified`, `[]TypeOK` | `Watching`, `Types` |
| `LegacyDaemon_proofs` | `TypeCorrect`, `NoFileLeaks` | `[]TypeOK`, `[]FilesOwned` | `IInv` |
| | `ImageTypes`, `ImageFiles`, `ImageHangs` | `[]ImageTypeOK`, `[]FilesOwned`, `HangJustified` of `MCSpec` | `ImageInv`: the invariant of the daemon that runs |
| `Polling_proofs` | `TypeCorrect` | `[]TypeOK` | `Stored`, `LoopInv`, `Attempts`, `LockType` |
| | `ChangesAreMadeToWork` | `ChangesReact` | `Stored`, `Reached` |
| | `SwitchFollowsEvents` | `[]TriggerFollowsEvents` | `Stored`, `Reached` |
| | `RecoveryIsJustified` | `[]RecoveryWhenUnreachable` | `Counted` |
| | `OnlyReceivedIsApplied` | `[]AppliesReceived` | `AppliesInv` (`Pauses`, `Excused`) |
| | `DocumentsSettle` | `[]Settled` | `Stored`, `FromDocument`; `Again` |
| | `FirstIsTold` | `[]OneInstance` | `LockInv` |

None of the main properties is inductive alone.

*Ownership* (`ClipUpload`): a pop may not give out a clip that somebody else
has, which needs that the queue has no duplicates, that a new name is not a
file, and therefore that files are exactly the owned clips.  *Bound*:
`queue_size` is stale, but only the recorder pushes, so from the read to the push
it is an upper bound of the real length (`QueueBound`).  *Watchdog*: the slots that
hold the present stamp are exactly those written in the last `quiet` pushes,
counted backwards from `clipcounter` (`SlotsQuiet`).

*Payment* (`KvsPlay`): an acknowledgement pays for one success, or waits in
`clip_upload_status_`, or is in the verdict about to be returned; the three
together never exceed the clips acknowledged (`Paid`).

*Joining* (`Recorder`): where a key frame is held back it is the last frame
read (`KeyHeld`, `Holding`), what a clip holds runs from its first frame to the
last one written (`Contents`), and consecutive submitted clips meet (`Links`); the
sound adds what the drain has taken (`Drained`, `SoundLinks`).

*Events and frames* (`Motion`): a result counts only if its timestamp is at most a second from
its frame's, its time is no earlier than its timestamp, and a clip's frames are no earlier than
its first one, so that an event is at most a second older than that; only a key frame read in
a later second makes it older than the clip.  Between two clips no event time is left
(`NoneLeft`).  The
times that suppress are those of the events last reported (`Remembered`).  The
first entry of the stack has the best score, and the bound a frame has to pass to
enter is no higher than that (`Best`).

*Silence* (`FrameUpload`): a clip's end is the only push that lengthens the
silence, and the status it leaves is kept until the stream is created again
(`SilenceInv`, over the locations `Between`).  *Reports*: timecodes are those of
frames already read, the I frame that is held back is newer than all of
them, and it is not in the map before its clip starts (`Timecodes`, `Kept`).
*Fragments*: as long as nothing failed, within a clip the fragment open is the
clip's, and outside the next frame is a first one (`Separate`).

*Hangs* (`FrameThread`): the pushes since the last upload of another timestamp are at
least those between the samples counted, unless that upload was behind the timestamp noted
(`Watching`).  Nothing is assumed about the order of timestamps.

*Files* (`LegacyDaemon`): every thread location says which files its clip still has
(`Recording`, `Uploading`, `Purging`), and a file on disk has a name that is in a hand
or in the queue (`Clean`).

*The lock* (`Polling`): who has made a lock file still finds it there, or one of the two has been
told to go (`Pair`); whoever reads the file meets the other's, with its pid unless it is
being written; after the kill the other one has been told.  *What is applied*: no
pause is longer than the longest one (`Pauses`); so a round begins with a
request, and its outcome decides about the response, unless the polling interval is
no longer than that or SIGTERM has come (`Excused`).

*Documents* (`PollingConfig`): a document is a fold over the children of tags, two or
three deep, and a theorem about it speaks of every document, of any length.  The
community modules' `FoldLeft` is a recursive function on the subsets of the
positions.  What the provers cannot do with an induction scheme over an operator,
they can do with sets: strict inclusion of finite sets is well-founded
(`FiniteSetTheorems`), so a set of numbers has a least element (`Least`), so a
set that has 0 and successors has all numbers (`Induction`).  A solution of the
fold's equation grows with the sequence (`FoldingExists`), hence the fold is one, and
it stays in any set that its steps stay in (`FoldStays`).  The set is `Reached(c0, b)`: the
settings of the right types in which a field that differs from `c0` is marked
(`Unmarked`), and the switch follows the events if it did in `c0`.  There is one
lemma per parser (`MotionAttr`, `SystemSegment`, `CvrSegment`, ...), each a
chain of `SetStays`, and `Applied` for the whole document; `TypeOK`, `ChangesReact` and
`TriggerFollowsEvents` follow.  `SwitchFollowsEvents` supposes that the
switch is right at the start and that setting it does not fail: with a failure
it is wrong, which the code does not prevent.

*A document that comes again* (`Settled`): when the settings are about to be read again
they are what the last document made of some settings (`FromDocument`), so the theorem is
about applying a document `t` to settings `c`, which gives `e`, and then to `e`.  That is
two folds over the same tags, and `FoldsFollow` says when two folds stay related.  The
relation, after each tag: a setting of the second run is what the first one has there now
or what it ends with (`Follows`); where a tag sets a value it sets the same in both, so at
the end, where "now" and "ends with" are the same, nothing has changed.  For this no tag
may read what another one set, which one lemma per parser shows (`CvrAttrFollows`,
`SegmentsFollow`, `DatasetFollows`, ...); bit rates are left out, for the code reads them
where no tag need have set them.  The table of events does depend on its past: an event
takes the entry that has its name, else the first free one.  So the relation `Again` adds that
every entry of `e` was there already, or was free, at each point of the first run
(`Leads`), and that the second run's table differs from `e` only in values still to be
written (`Entries`).  `Leads` is known at the end and goes backwards, because no tag frees an
entry (`SavedBack`, `EventsBack`, `SegmentBack`); hence the set `E` of `FoldsFollow`.  Motion
detection agrees from the first tag that switches it (`DocumentSpeaks`, `FoldReaches`).

*Levels* (`Motion`): the second that is open has what its frames said in the recorder's
variables, later ones nothing, and earlier ones their level, written when the
second was left (`Open`).

*One image* (`MCDaemons`): `FrameThread_proofs` is instantiated there, and its lemmas are
cited for the image that carries the threaded daemon.

The invariants were model-checked before they were proved.

**Only model-checked.**  Liveness (`HangDetected`, `NoClipStuck`, `LoopEnds`, `TermStops`,
`ClipsLeave`, `KeepsPolling`), which is out of the prover's reach.
The violated properties of section 4, of course, are refuted
by TLC's counterexamples.

## 6. Not modelled

* The older GStreamer recorder beside the legacy daemon (`legacy/core/cvr_gst.cpp`): no
  Makefile compiles it (`legacy/core/Makefile` builds `cvr_daemon.cpp` only) and nothing
  calls its `do_cvr`.
* The legacy daemon's motion statistics, a copy of an earlier state of those in `Motion`.
* `kvs/trial`, which no build file includes; the sample application; memory statistics,
  which only log; the build files.
* Clocks, except where a property is about them (`Motion`, `LegacyUpload`): durations,
  timestamps, clip names as seconds in `ClipUpload`, which assumes fresh names.  `Motion` assumes
  that the time of day is not set while the daemon runs, that the timestamps of frames go
  as fast as it and do not start again, that no frame is read before it was made, and that
  analytics looks at frames in their order and after they were made.  `FrameThread` assumes
  nothing about timestamps.
* Silence in wall-clock time: `SilenceBounded` counts the ends of clips where the code
  compares the time of the last acknowledgement with a limit in seconds (a clip takes its
  configured duration, so that one bounds the other only as long as clips are cut in time).
* `retryFactor` of the legacy upload and of polling is 2, the value without a setting in the
  environment (`legacy/upload/cvrUpload.cpp:310`, `polling/xfinity_polling_config.cpp:2815`).
  What is said about the lengths of pauses, and with it `KeepsPolling`, `AppliesReceived`,
  `ClipsLeave` and the types of the pauses, is about this factor.
* Two threads at once inside one map of the frame uploaders: an access is a step.
* Results that the full queue of `Motion` drops: `LevelsComplete` is about the results that were
  counted, and does not tell a missing result from a frame the analytics said nothing about.
* In `clipupload`: configuration reload (SIGUSR1; `FrameUpload` has it), statistics
  values, `updateStatConfiguration`.
* In `polling`: HTTP headers and sequence numbers, the firmware and SD-card tags
  nothing calls, the XML parser, the daemons' own part of reloading.
* In the frame uploaders: absolute timestamps and frame durations, credentials, thumbnails.
* A restart after an exit: the new process does not look at the files that remain in `/tmp/cvr`.
* Reference counts and memory of GStreamer objects; frame timestamps in `on_new_sample`.

A component is `partly` modelled where one of these is part of it.

## 7. Plan

Done: the clip uploader, motion statistics, both frame uploaders, the legacy
upload, polling, and proofs for each.  What is left, in this order:

1. **FrameThread with FrameStream** - the threaded daemon fills the same maps
   from another thread; a composition would carry `ReportsTruthful` over to it, and
   state that it implements `FrameUpload`'s order of pushes.
2. **Restart** - the files an exit leaves behind, and `/tmp/cvr` filling up over restarts.
3. **Reload in the clip uploader** - the SIGUSR1 that comes while the configuration is read.
4. **Proofs** - every invariant and every action property of the runs is proved; what 1 to 3
   add needs its own.
