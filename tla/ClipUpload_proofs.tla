------------------------- MODULE ClipUpload_proofs -------------------------
(***************************************************************************)
(* Proofs, for every threshold, retry limit and set of clips, of the       *)
(* safety properties of ClipUpload.                                        *)
(***************************************************************************)
EXTENDS ClipUpload, FiniteSetTheorems, TLAPS

-----------------------------------------------------------------------------
(* The inductive invariant, one named part per idea. *)

\* A thread has a clip in hand exactly at these places.
Hands ==
  /\ rclip # NoClip <=>
       rpc \in {"recording", "decide", "hangcheck", "test", "unlink", "push", "kill"}
  /\ flushed # NoClip <=> rpc = "unlink"
  /\ uclip # NoClip <=>
       upc \in {"init", "streaminit", "unlink_m", "play", "playing", "acking", "delete"}

\* Once unlinked, the motion levels of the popped clip stay away.
LevelsGone == upc \in {"play", "playing", "acking", "delete"} => uclip \notin m_files

\* The process ends with the failure that exceeds the limit.
RetryBound == alive => retry <= MAXRETRY

\* Only the recorder pushes: its stale size is an upper bound until it does.
QueueBound ==
  /\ Len(msgQ_kvs) <= CVR_THRESHHOLD_COUNT + 1
  /\ rpc \in {"unlink", "push"} => Len(msgQ_kvs) <= CVR_THRESHHOLD_COUNT
  /\ rpc \in {"hangcheck", "test", "kill"} => Len(msgQ_kvs) <= queue_size

VerdictHeld == verdict # "none" <=> upc = "delete"

\* Pushes since slot i was written: clipcounter is the slot written last (0: slot 3).
Age(i) == (clipcounter + 3 - i) % 3

\* The slots that hold the present sign of life are those of the quiet pushes.
SlotsQuiet ==
  /\ quiet \in 0..3
  /\ hangdetecttime = Never => quiet = 0
  /\ hangdetecttime # Never =>
       \A i \in 1..3 : hangdetecttimes[i] = hangdetecttime <=> Age(i) < quiet
  /\ rpc # "kill" => quiet < 3

-----------------------------------------------------------------------------
(* Type correctness. *)

TypeInv == TypeOK /\ Hands /\ RetryBound

LEMMA TypeInvInit == Init => TypeInv
<1> SUFFICES ASSUME Init PROVE TypeInv
  OBVIOUS
<1>1. FlagsOK
  BY Zenon DEF Init, FlagsOK
<1>2. DataOK
  BY RetryAssumption DEF RetryAssumption, Init, DataOK
<1>3. Hands /\ RetryBound
  BY RetryAssumption DEF RetryAssumption, Init, Hands, RetryBound
<1> QED
  BY <1>1, <1>2, <1>3 DEF TypeInv, TypeOK

\* The flags stay Boolean.
LEMMA FlagsStep == FlagsOK /\ [Next]_vars => FlagsOK'
<1> SUFFICES ASSUME FlagsOK, [Next]_vars PROVE FlagsOK'
  OBVIOUS
<1> USE DEF FlagsOK, rvars, rpush, uvars, kvs, svars, life, disk, proc
<1>1. CASE R_NewClip
  BY <1>1, Zenon DEF R_NewClip
<1>2. CASE R_WriteLevels
  BY <1>2, Zenon DEF R_WriteLevels
<1>3. CASE R_Discard
  BY <1>3, Zenon DEF R_Discard
<1>4. CASE R_Submit
  BY <1>4, Zenon DEF R_Submit
<1>5. CASE R_HangCheck
  BY <1>5, Zenon DEF R_HangCheck
<1>6. CASE R_HangTerm
  BY <1>6, Zenon DEF R_HangTerm
<1>7. CASE R_HangKill
  BY <1>7, Zenon DEF R_HangKill, Exit
<1>8. CASE R_Flush
  BY <1>8, Zenon DEF R_Flush, PopMsg_kvs
<1>9. CASE R_NoFlush
  BY <1>9, Zenon DEF R_NoFlush
<1>10. CASE R_UnlinkFlushed
  BY <1>10, Zenon DEF R_UnlinkFlushed
<1>11. CASE R_Push
  BY <1>11, Zenon DEF R_Push
<1>12. CASE R_Close
  BY <1>12, Zenon DEF R_Close
<1>13. CASE R_Return
  BY <1>13, Zenon DEF R_Return, Exit
<1>14. CASE U_Loop
  BY <1>14, Zenon DEF U_Loop
<1>15. CASE U_Pop
  BY <1>15, Zenon DEF U_Pop, PopMsg_kvs
<1>16. CASE U_KvsInit
  BY <1>16, Zenon DEF U_KvsInit, Exit
<1>17. CASE U_FirstStamp
  BY <1>17, Zenon DEF U_FirstStamp, Stamp
<1>18. CASE U_StreamInit
  BY <1>18, Zenon DEF U_StreamInit, Stamp, Exit
<1>19. CASE U_UnlinkLevels
  BY <1>19, Zenon DEF U_UnlinkLevels
<1>20. CASE U_Play
  BY <1>20, Zenon DEF U_Play, Stamp
<1>21. CASE U_MainLoopDone
  BY <1>21, Zenon DEF U_MainLoopDone, Stamp
<1>22. CASE U_PlaySuccess
  BY <1>22, Zenon DEF U_PlaySuccess
<1>23. CASE U_PlayFailure
  BY <1>23, Zenon DEF U_PlayFailure, Stamp
<1>24. CASE U_PlayAgain
  BY <1>24, Zenon DEF U_PlayAgain, Stamp
<1>25. CASE U_PlayExit
  BY <1>25, Zenon DEF U_PlayExit, Exit
<1>26. CASE U_Delete
  BY <1>26, Zenon DEF U_Delete
<1>27. CASE U_Report
  BY <1>27, Zenon DEF U_Report
<1>28. CASE S_Wake
  BY <1>28, Zenon DEF S_Wake
<1>29. CASE S_Retry
  BY <1>29, Zenon DEF S_Retry
<1>30. CASE S_Done
  BY <1>30, Zenon DEF S_Done
<1>31. CASE self_term
  BY <1>31, Zenon DEF self_term
<1>32. CASE UNCHANGED vars
  BY <1>32, Zenon DEF vars
<1> QED
  BY <1>1, <1>2, <1>3, <1>4, <1>5, <1>6, <1>7, <1>8, <1>9, <1>10, <1>11, <1>12, <1>13, <1>14,
     <1>15, <1>16, <1>17, <1>18, <1>19, <1>20, <1>21, <1>22, <1>23, <1>24, <1>25, <1>26,
     <1>27, <1>28, <1>29, <1>30, <1>31, <1>32
  DEF Next, Recorder, UploadCode, UploadCalls, Statistics

LEMMA ExitEnds == Exit => ~alive'
  BY Zenon DEF Exit

\* The other types, what the threads hold, and the retry count.
LEMMA DataStep == TypeInv /\ [Next]_vars => (DataOK /\ Hands /\ RetryBound)'
<1> SUFFICES ASSUME TypeInv, [Next]_vars PROVE (DataOK /\ Hands /\ RetryBound)'
  OBVIOUS
<1> USE NamesAssumption DEF NamesAssumption, TypeInv, TypeOK, DataOK, Hands, RetryBound, rvars, rpush, uvars, kvs, svars,
        life, disk, proc
<1>1. CASE R_NewClip
  BY <1>1 DEF R_NewClip
<1>2. CASE R_WriteLevels
  BY <1>2 DEF R_WriteLevels
<1>3. CASE R_Discard
  BY <1>3 DEF R_Discard
<1>4. CASE R_Submit
  BY <1>4 DEF R_Submit
<1>5. CASE R_HangCheck
  BY <1>5 DEF R_HangCheck
<1>6. CASE R_HangTerm
  BY <1>6 DEF R_HangTerm
<1>7. CASE R_HangKill
  BY <1>7 DEF R_HangKill, Exit
<1>8. CASE R_Flush
  BY <1>8 DEF R_Flush, PopMsg_kvs
<1>9. CASE R_NoFlush
  BY <1>9 DEF R_NoFlush
<1>10. CASE R_UnlinkFlushed
  BY <1>10 DEF R_UnlinkFlushed
<1>11. CASE R_Push
  BY <1>11 DEF R_Push
<1>12. CASE R_Close
  BY <1>12 DEF R_Close
<1>13. CASE R_Return
  BY <1>13 DEF R_Return, Exit
<1>14. CASE U_Loop
  BY <1>14 DEF U_Loop
<1>15. CASE U_Pop
  BY <1>15 DEF U_Pop, PopMsg_kvs
<1>16. CASE U_KvsInit
  <2>1. /\ alive /\ upc' = upc
        /\ retry' = retry \/ (retry' = retry + 1 /\ (retry + 1 > MAXRETRY => ~alive'))
    BY <1>16, ExitEnds, Zenon DEF U_KvsInit
  <2>2. UNCHANGED <<rvars, uclip, iskvsstreaminitdone, verdict, svars, msgQ_kvs, life, disk>>
    BY <1>16 DEF U_KvsInit
  <2> QED
    BY <2>1, <2>2, RetryAssumption DEF RetryAssumption
<1>17. CASE U_FirstStamp
  BY <1>17 DEF U_FirstStamp, Stamp
<1>18. CASE U_StreamInit
  <2>1. CASE Exit /\ UNCHANGED <<upc, iskvsstreaminitdone, life>>
    BY <1>18, <2>1, ExitEnds DEF U_StreamInit
  <2>2. CASE upc' = "unlink_m" /\ (Stamp \/ UNCHANGED life) /\ UNCHANGED proc
    BY <1>18, <2>2 DEF U_StreamInit, Stamp
  <2> QED
    BY <1>18, <2>1, <2>2 DEF U_StreamInit
<1>19. CASE U_UnlinkLevels
  BY <1>19 DEF U_UnlinkLevels
<1>20. CASE U_Play
  BY <1>20 DEF U_Play, Stamp
<1>21. CASE U_MainLoopDone
  BY <1>21 DEF U_MainLoopDone, Stamp
<1>22. CASE U_PlaySuccess
  BY <1>22 DEF U_PlaySuccess
<1>23. CASE U_PlayFailure
  BY <1>23 DEF U_PlayFailure, Stamp
<1>24. CASE U_PlayAgain
  BY <1>24 DEF U_PlayAgain, Stamp
<1>25. CASE U_PlayExit
  BY <1>25 DEF U_PlayExit, Exit
<1>26. CASE U_Delete
  BY <1>26 DEF U_Delete
<1>27. CASE U_Report
  BY <1>27 DEF U_Report
<1>28. CASE S_Wake
  BY <1>28 DEF S_Wake
<1>29. CASE S_Retry
  BY <1>29 DEF S_Retry
<1>30. CASE S_Done
  BY <1>30 DEF S_Done
<1>31. CASE self_term
  BY <1>31 DEF self_term
<1>32. CASE UNCHANGED vars
  BY <1>32 DEF vars
<1> QED
  BY <1>1, <1>2, <1>3, <1>4, <1>5, <1>6, <1>7, <1>8, <1>9, <1>10, <1>11, <1>12, <1>13, <1>14,
     <1>15, <1>16, <1>17, <1>18, <1>19, <1>20, <1>21, <1>22, <1>23, <1>24, <1>25, <1>26,
     <1>27, <1>28, <1>29, <1>30, <1>31, <1>32
  DEF Next, Recorder, UploadCode, UploadCalls, Statistics

LEMMA TypeInvStep == TypeInv /\ [Next]_vars => TypeInv'
  BY FlagsStep, DataStep DEF TypeInv, TypeOK

\* TypeOK holds of every reachable state, for every value of the constants.
THEOREM TypeCorrect == Spec => []TypeOK
<1>1. TypeInv => TypeOK
  BY DEF TypeInv
<1> QED
  BY TypeInvInit, TypeInvStep, <1>1, PTL DEF Spec

-----------------------------------------------------------------------------
(* Facts about the queue as a sequence. *)

Elems(s) == {s[i] : i \in DOMAIN s}

Distinct(s) == \A i, j \in DOMAIN s : s[i] = s[j] => i = j

\* A push adds one element, and keeps the queue without repetition if it is new.
LEMMA AppendElems ==
  ASSUME NEW S, NEW s \in Seq(S), NEW x \in S
  PROVE  /\ Elems(Append(s, x)) = Elems(s) \cup {x}
         /\ Distinct(s) /\ x \notin Elems(s) => Distinct(Append(s, x))
<1>1. /\ DOMAIN Append(s, x) = DOMAIN s \cup {Len(s) + 1}
      /\ \A i \in DOMAIN s : Append(s, x)[i] = s[i]
      /\ Append(s, x)[Len(s) + 1] = x
      /\ Len(s) + 1 \notin DOMAIN s
  OBVIOUS
<1>2. Elems(Append(s, x)) = Elems(s) \cup {x}
  BY <1>1, Zenon DEF Elems
<1>3. ASSUME Distinct(s), x \notin Elems(s) PROVE Distinct(Append(s, x))
  BY <1>1, <1>3, Zenon DEF Elems, Distinct
<1> QED
  BY <1>2, <1>3

\* A pop removes exactly the head of a queue without repetition.
LEMMA TailElems ==
  ASSUME NEW S, NEW s \in Seq(S), s # <<>>, Distinct(s)
  PROVE  /\ Head(s) \in Elems(s)
         /\ Elems(Tail(s)) = Elems(s) \ {Head(s)}
         /\ Distinct(Tail(s))
<1>1. /\ Len(s) \in Nat \ {0} /\ DOMAIN s = 1..Len(s)
      /\ DOMAIN Tail(s) = 1..(Len(s) - 1)
      /\ \A i \in DOMAIN Tail(s) : Tail(s)[i] = s[i + 1]
      /\ Head(s) = s[1]
  OBVIOUS
<1>2. Head(s) \in Elems(s)
  BY <1>1 DEF Elems
<1>3. ASSUME NEW e \in Elems(Tail(s)) PROVE e \in Elems(s) \ {Head(s)}
  <2>1. PICK i \in DOMAIN Tail(s) : e = Tail(s)[i]
    BY <1>3 DEF Elems
  <2>2. i + 1 \in DOMAIN s /\ e = s[i + 1] /\ 1 \in DOMAIN s /\ i + 1 # 1
    BY <1>1, <2>1
  <2> QED
    BY <1>1, <2>2 DEF Elems, Distinct
<1>4. ASSUME NEW e \in Elems(s) \ {Head(s)} PROVE e \in Elems(Tail(s))
  <2>1. PICK i \in DOMAIN s : e = s[i]
    BY <1>4 DEF Elems
  <2>2. i # 1 /\ i - 1 \in DOMAIN Tail(s) /\ Tail(s)[i - 1] = e
    BY <1>1, <2>1
  <2> QED
    BY <2>2 DEF Elems
<1>5. Distinct(Tail(s))
  BY <1>1 DEF Distinct
<1> QED
  BY <1>2, <1>3, <1>4, <1>5

-----------------------------------------------------------------------------
(* Who has which clip, and which files exist. *)

OwnInv == SingleOwner /\ FilesOwned /\ LevelsGone

LEMMA OwnInvInit == Init => OwnInv
  BY DEF Init, OwnInv, SingleOwner, FilesOwned, LevelsGone, Owned, Waiting

\* The same with the queue's elements by name.
LEMMA OwnElems ==
  ASSUME msgQ_kvs \in Seq(Clips)
  PROVE  /\ Waiting = Elems(msgQ_kvs)
         /\ SingleOwner <=> /\ Distinct(msgQ_kvs)
                            /\ rclip \notin Waiting /\ flushed \notin Waiting
                            /\ uclip \notin Waiting
                            /\ rclip # NoClip => rclip # flushed /\ rclip # uclip
                            /\ flushed # NoClip => flushed # uclip
  BY DEF SingleOwner, Distinct, Waiting, Elems

\* Steps that move no clip and write no file.
LEMMA OwnInvStutter ==
  ASSUME OwnInv,
         UNCHANGED <<rclip, flushed, uclip, msgQ_kvs, files, m_files>>,
         upc' \in {"play", "playing", "acking", "delete"} =>
           upc \in {"play", "playing", "acking", "delete"}
  PROVE  OwnInv'
<1>1. SingleOwner' /\ FilesOwned'
  BY DEF OwnInv, SingleOwner, FilesOwned, Owned, Waiting
<1>2. LevelsGone'
  BY DEF OwnInv, LevelsGone
<1> QED
  BY <1>1, <1>2 DEF OwnInv

LEMMA OwnInvStep == TypeInv /\ TypeInv' /\ OwnInv /\ [Next]_vars => OwnInv'
<1> SUFFICES ASSUME TypeInv, TypeInv', OwnInv, [Next]_vars PROVE OwnInv'
  OBVIOUS
<1>a. /\ msgQ_kvs \in Seq(Clips) /\ rclip \in Clips \cup {NoClip}
      /\ flushed \in Clips \cup {NoClip} /\ uclip \in Clips \cup {NoClip}
      /\ NoClip \notin Elems(msgQ_kvs)
  BY NamesAssumption DEF NamesAssumption, TypeInv, TypeOK, DataOK, Elems
<1>b. /\ Waiting = Elems(msgQ_kvs) /\ Distinct(msgQ_kvs)
      /\ rclip \notin Waiting /\ flushed \notin Waiting /\ uclip \notin Waiting
      /\ rclip # NoClip => rclip # flushed /\ rclip # uclip
      /\ flushed # NoClip => flushed # uclip
      /\ files = Elems(msgQ_kvs) \cup ({rclip, flushed, uclip} \ {NoClip})
      /\ m_files \subseteq files
      /\ LevelsGone
  BY <1>a, OwnElems DEF OwnInv, FilesOwned, Owned
<1>c. ASSUME Distinct(msgQ_kvs'),
             rclip' \notin Elems(msgQ_kvs'), flushed' \notin Elems(msgQ_kvs'),
             uclip' \notin Elems(msgQ_kvs'),
             rclip' # NoClip => rclip' # flushed' /\ rclip' # uclip',
             flushed' # NoClip => flushed' # uclip',
             files' = Elems(msgQ_kvs') \cup ({rclip', flushed', uclip'} \ {NoClip}),
             m_files' \subseteq files',
             LevelsGone'
      PROVE  OwnInv'
  BY <1>c DEF OwnInv, SingleOwner, FilesOwned, Owned, Distinct, Waiting, Elems
<1> USE DEF rvars, rpush, uvars, kvs, svars, life, disk, proc
<1>1. CASE R_NewClip
  <2>1. /\ UNCHANGED <<msgQ_kvs, flushed, uclip, upc, m_files>>
        /\ rclip = NoClip /\ rclip' \in Clips \ files /\ files' = files \cup {rclip'}
    BY <1>1 DEF R_NewClip, TypeInv, Hands
  <2>2. LevelsGone'
    BY <1>b, <2>1 DEF LevelsGone
  <2> QED
    BY <1>a, <1>b, <1>c, <2>1, <2>2, NamesAssumption DEF NamesAssumption
<1>2. CASE R_WriteLevels
  <2>1. /\ UNCHANGED <<msgQ_kvs, flushed, rclip, uclip, upc, files>>
        /\ rclip # NoClip /\ m_files' = m_files \cup {rclip}
    BY <1>2 DEF R_WriteLevels, TypeInv, Hands
  <2>2. LevelsGone'
    BY <1>b, <2>1 DEF LevelsGone
  <2> QED
    BY <1>a, <1>b, <1>c, <2>1, <2>2
<1>3. CASE R_Discard
  <2>1. /\ UNCHANGED <<msgQ_kvs, flushed, uclip, upc>>
        /\ rclip # NoClip /\ rclip' = NoClip
        /\ files' = files \ {rclip} /\ m_files' = m_files \ {rclip}
    BY <1>3 DEF R_Discard, TypeInv, Hands
  <2>2. LevelsGone'
    BY <1>b, <2>1 DEF LevelsGone
  <2> QED
    BY <1>a, <1>b, <1>c, <2>1, <2>2
<1>4. CASE R_Submit
  BY <1>4, OwnInvStutter DEF R_Submit
<1>5. CASE R_HangCheck
  BY <1>5, OwnInvStutter DEF R_HangCheck
<1>6. CASE R_HangTerm
  BY <1>6, OwnInvStutter DEF R_HangTerm
<1>7. CASE R_HangKill
  BY <1>7, OwnInvStutter DEF R_HangKill
<1>8. CASE R_Flush
  <2>1. /\ UNCHANGED <<rclip, uclip, upc, files, m_files>> /\ msgQ_kvs # <<>>
        /\ flushed = NoClip /\ flushed' = Head(msgQ_kvs) /\ msgQ_kvs' = Tail(msgQ_kvs)
    BY <1>8 DEF R_Flush, PopMsg_kvs, TypeInv, Hands
  <2>2. /\ Head(msgQ_kvs) \in Elems(msgQ_kvs)
        /\ Elems(msgQ_kvs') = Elems(msgQ_kvs) \ {Head(msgQ_kvs)} /\ Distinct(msgQ_kvs')
    BY <1>a, <1>b, <2>1, TailElems
  <2>3. LevelsGone'
    BY <1>b, <2>1 DEF LevelsGone
  <2> QED
    BY <1>a, <1>b, <1>c, <2>1, <2>2, <2>3
<1>9. CASE R_NoFlush
  BY <1>9, OwnInvStutter DEF R_NoFlush
<1>10. CASE R_UnlinkFlushed
  <2>1. /\ UNCHANGED <<msgQ_kvs, rclip, uclip, upc>>
        /\ flushed # NoClip /\ flushed' = NoClip
        /\ files' = files \ {flushed} /\ m_files' = m_files \ {flushed}
    BY <1>10 DEF R_UnlinkFlushed, TypeInv, Hands
  <2>2. LevelsGone'
    BY <1>b, <2>1 DEF LevelsGone
  <2> QED
    BY <1>a, <1>b, <1>c, <2>1, <2>2
<1>11. CASE R_Push
  <2>1. /\ UNCHANGED <<flushed, uclip, upc, files, m_files>>
        /\ rclip \in Clips /\ rclip' = NoClip /\ msgQ_kvs' = Append(msgQ_kvs, rclip)
    BY <1>a, <1>11 DEF R_Push, TypeInv, Hands
  <2>2. Elems(msgQ_kvs') = Elems(msgQ_kvs) \cup {rclip} /\ Distinct(msgQ_kvs')
    BY <1>a, <1>b, <2>1, AppendElems
  <2>3. LevelsGone'
    BY <1>b, <2>1 DEF LevelsGone
  <2> QED
    BY <1>a, <1>b, <1>c, <2>1, <2>2, <2>3, NamesAssumption DEF NamesAssumption
<1>12. CASE R_Close
  BY <1>12, OwnInvStutter DEF R_Close
<1>13. CASE R_Return
  BY <1>13, OwnInvStutter DEF R_Return
<1>14. CASE U_Loop
  BY <1>14, OwnInvStutter DEF U_Loop
<1>15. CASE U_Pop
  <2>1. /\ UNCHANGED <<rclip, flushed, files, m_files>> /\ msgQ_kvs # <<>>
        /\ uclip = NoClip /\ uclip' = Head(msgQ_kvs) /\ msgQ_kvs' = Tail(msgQ_kvs)
        /\ upc' = "init"
    BY <1>15 DEF U_Pop, PopMsg_kvs, TypeInv, Hands
  <2>2. /\ Head(msgQ_kvs) \in Elems(msgQ_kvs)
        /\ Elems(msgQ_kvs') = Elems(msgQ_kvs) \ {Head(msgQ_kvs)} /\ Distinct(msgQ_kvs')
    BY <1>a, <1>b, <2>1, TailElems
  <2>3. LevelsGone'
    BY <2>1 DEF LevelsGone
  <2> QED
    BY <1>a, <1>b, <1>c, <2>1, <2>2, <2>3
<1>16. CASE U_KvsInit
  BY <1>16, OwnInvStutter DEF U_KvsInit
<1>17. CASE U_FirstStamp
  BY <1>17, OwnInvStutter DEF U_FirstStamp
<1>18. CASE U_StreamInit
  BY <1>18, OwnInvStutter DEF U_StreamInit
<1>19. CASE U_UnlinkLevels
  <2>1. /\ UNCHANGED <<msgQ_kvs, flushed, rclip, uclip, files>>
        /\ m_files' = m_files \ {uclip}
    BY <1>19 DEF U_UnlinkLevels
  <2>2. LevelsGone'
    BY <2>1 DEF LevelsGone
  <2> QED
    BY <1>a, <1>b, <1>c, <2>1, <2>2
<1>20. CASE U_Play
  BY <1>20, OwnInvStutter DEF U_Play
<1>21. CASE U_MainLoopDone
  BY <1>21, OwnInvStutter DEF U_MainLoopDone
<1>22. CASE U_PlaySuccess
  BY <1>22, OwnInvStutter DEF U_PlaySuccess
<1>23. CASE U_PlayFailure
  BY <1>23, OwnInvStutter DEF U_PlayFailure
<1>24. CASE U_PlayAgain
  BY <1>24, OwnInvStutter DEF U_PlayAgain
<1>25. CASE U_PlayExit
  BY <1>25, OwnInvStutter DEF U_PlayExit
<1>26. CASE U_Delete
  <2>1. /\ UNCHANGED <<msgQ_kvs, flushed, rclip, m_files>>
        /\ uclip # NoClip /\ uclip' = NoClip /\ files' = files \ {uclip}
        /\ upc = "delete" /\ upc' \in {"loop", "report"}
    BY <1>26 DEF U_Delete, TypeInv, Hands
  <2>2. uclip \notin m_files /\ LevelsGone'
    BY <1>b, <2>1 DEF LevelsGone
  <2> QED
    BY <1>a, <1>b, <1>c, <2>1, <2>2
<1>27. CASE U_Report
  BY <1>27, OwnInvStutter DEF U_Report
<1>28. CASE S_Wake
  BY <1>28, OwnInvStutter DEF S_Wake
<1>29. CASE S_Retry
  BY <1>29, OwnInvStutter DEF S_Retry
<1>30. CASE S_Done
  BY <1>30, OwnInvStutter DEF S_Done
<1>31. CASE self_term
  BY <1>31, OwnInvStutter DEF self_term
<1>32. CASE UNCHANGED vars
  BY <1>32, OwnInvStutter DEF vars
<1> QED
  BY <1>1, <1>2, <1>3, <1>4, <1>5, <1>6, <1>7, <1>8, <1>9, <1>10, <1>11, <1>12, <1>13, <1>14,
     <1>15, <1>16, <1>17, <1>18, <1>19, <1>20, <1>21, <1>22, <1>23, <1>24, <1>25, <1>26,
     <1>27, <1>28, <1>29, <1>30, <1>31, <1>32
  DEF Next, Recorder, UploadCode, UploadCalls, Statistics

\* No clip is ever with two owners.
THEOREM OneOwner == Spec => []SingleOwner
<1>1. Init => TypeInv /\ OwnInv
  BY TypeInvInit, OwnInvInit
<1>2. TypeInv /\ OwnInv /\ [Next]_vars => (TypeInv /\ OwnInv)'
  BY TypeInvStep, OwnInvStep
<1>3. OwnInv => SingleOwner
  BY DEF OwnInv
<1> QED
  BY <1>1, <1>2, <1>3, PTL DEF Spec

\* The files on disk are exactly those of the clips somebody has.
THEOREM FilesAreOwned == Spec => []FilesOwned
<1>1. Init => TypeInv /\ OwnInv
  BY TypeInvInit, OwnInvInit
<1>2. TypeInv /\ OwnInv /\ [Next]_vars => (TypeInv /\ OwnInv)'
  BY TypeInvStep, OwnInvStep
<1>3. OwnInv => FilesOwned
  BY DEF OwnInv
<1> QED
  BY <1>1, <1>2, <1>3, PTL DEF Spec

-----------------------------------------------------------------------------
(* The bound of the queue, and with it that of the disk. *)

LEMMA QueueBoundInit == Init => QueueBound
  BY ThresholdAssumption DEF ThresholdAssumption, Init, QueueBound

\* The size the recorder read may be stale, but only the upload thread has
\* popped since: it errs on the side that flushes.
LEMMA QueueBoundStep == TypeInv /\ QueueBound /\ [Next]_vars => QueueBound'
<1> SUFFICES ASSUME TypeInv, QueueBound, [Next]_vars PROVE QueueBound'
  OBVIOUS
<1>a. /\ msgQ_kvs \in Seq(Clips) /\ Len(msgQ_kvs) \in Nat /\ queue_size \in Nat
      /\ CVR_THRESHHOLD_COUNT \in Nat
  BY ThresholdAssumption DEF ThresholdAssumption, TypeInv, TypeOK, DataOK
<1>b. msgQ_kvs # <<>> => Len(Tail(msgQ_kvs)) = Len(msgQ_kvs) - 1
  BY <1>a
<1> USE <1>a DEF QueueBound, rvars, rpush, uvars, kvs, svars, life, disk, proc
<1>1. CASE R_NewClip
  BY <1>1 DEF R_NewClip
<1>2. CASE R_WriteLevels
  BY <1>2 DEF R_WriteLevels
<1>3. CASE R_Discard
  BY <1>3 DEF R_Discard
<1>4. CASE R_Submit
  BY <1>4 DEF R_Submit
<1>5. CASE R_HangCheck
  <2>1. UNCHANGED <<msgQ_kvs, queue_size>> /\ rpc = "hangcheck" /\ rpc' \in {"test", "kill"}
    BY <1>5 DEF R_HangCheck
  <2> QED
    BY <2>1
<1>6. CASE R_HangTerm
  BY <1>6 DEF R_HangTerm
<1>7. CASE R_HangKill
  BY <1>7 DEF R_HangKill
<1>8. CASE R_Flush
  BY <1>8, <1>b DEF R_Flush, PopMsg_kvs
<1>9. CASE R_NoFlush
  BY <1>9 DEF R_NoFlush
<1>10. CASE R_UnlinkFlushed
  BY <1>10 DEF R_UnlinkFlushed
<1>11. CASE R_Push
  <2>1. /\ rclip \in Clips /\ msgQ_kvs' = Append(msgQ_kvs, rclip) /\ rpc = "push"
        /\ rpc' = "loop"
    BY <1>11 DEF R_Push, TypeInv, TypeOK, DataOK, Hands
  <2>2. Len(msgQ_kvs') = Len(msgQ_kvs) + 1
    BY <2>1
  <2> QED
    BY <2>1, <2>2
<1>12. CASE R_Close
  BY <1>12 DEF R_Close
<1>13. CASE R_Return
  BY <1>13 DEF R_Return
<1>14. CASE U_Loop
  BY <1>14 DEF U_Loop
<1>15. CASE U_Pop
  BY <1>15, <1>b DEF U_Pop, PopMsg_kvs
<1>16. CASE U_KvsInit
  BY <1>16 DEF U_KvsInit
<1>17. CASE U_FirstStamp
  BY <1>17 DEF U_FirstStamp
<1>18. CASE U_StreamInit
  BY <1>18 DEF U_StreamInit
<1>19. CASE U_UnlinkLevels
  BY <1>19 DEF U_UnlinkLevels
<1>20. CASE U_Play
  BY <1>20 DEF U_Play
<1>21. CASE U_MainLoopDone
  BY <1>21 DEF U_MainLoopDone
<1>22. CASE U_PlaySuccess
  BY <1>22 DEF U_PlaySuccess
<1>23. CASE U_PlayFailure
  BY <1>23 DEF U_PlayFailure
<1>24. CASE U_PlayAgain
  BY <1>24 DEF U_PlayAgain
<1>25. CASE U_PlayExit
  BY <1>25 DEF U_PlayExit
<1>26. CASE U_Delete
  BY <1>26 DEF U_Delete
<1>27. CASE U_Report
  BY <1>27 DEF U_Report
<1>28. CASE S_Wake
  BY <1>28 DEF S_Wake
<1>29. CASE S_Retry
  BY <1>29 DEF S_Retry
<1>30. CASE S_Done
  BY <1>30 DEF S_Done
<1>31. CASE self_term
  BY <1>31 DEF self_term
<1>32. CASE UNCHANGED vars
  BY <1>32 DEF vars
<1> QED
  BY <1>1, <1>2, <1>3, <1>4, <1>5, <1>6, <1>7, <1>8, <1>9, <1>10, <1>11, <1>12, <1>13, <1>14,
     <1>15, <1>16, <1>17, <1>18, <1>19, <1>20, <1>21, <1>22, <1>23, <1>24, <1>25, <1>26,
     <1>27, <1>28, <1>29, <1>30, <1>31, <1>32
  DEF Next, Recorder, UploadCode, UploadCalls, Statistics

LEMMA QueueBounded == Spec => [](TypeInv /\ OwnInv /\ QueueBound)
<1>1. Init => TypeInv /\ OwnInv /\ QueueBound
  BY TypeInvInit, OwnInvInit, QueueBoundInit
<1>2. TypeInv /\ OwnInv /\ QueueBound /\ [Next]_vars => (TypeInv /\ OwnInv /\ QueueBound)'
  BY TypeInvStep, OwnInvStep, QueueBoundStep
<1> QED
  BY <1>1, <1>2, PTL DEF Spec

\* A sequence has at most as many elements as it is long.
LEMMA ElemsCardinality ==
  ASSUME NEW S, NEW s \in Seq(S)
  PROVE  IsFiniteSet(Elems(s)) /\ Cardinality(Elems(s)) <= Len(s)
<1>1. /\ Len(s) \in Nat /\ DOMAIN s = 1..Len(s)
      /\ s = [i \in 1..Len(s) |-> s[i]]
  OBVIOUS
<1>2. s \in Surjection(1..Len(s), Elems(s))
  BY <1>1 DEF Surjection, Elems
<1>3. /\ IsFiniteSet(1..Len(s))
      /\ Cardinality(1..Len(s)) = IF 1 > Len(s) THEN 0 ELSE Len(s) - 1 + 1
  <2>1. 1 \in Int /\ Len(s) \in Int
    BY <1>1
  <2> QED
    BY <2>1, FS_Interval, Zenon
<1>4. Cardinality(1..Len(s)) = Len(s)
  BY <1>1, <1>3
<1>5. IsFiniteSet(Elems(s)) /\ Cardinality(Elems(s)) <= Cardinality(1..Len(s))
  BY <1>2, <1>3, FS_Surjection, Zenon
<1> QED
  BY <1>4, <1>5

\* One more element: one more at most.
LEMMA OneMore ==
  ASSUME NEW E, IsFiniteSet(E), NEW n \in Nat, Cardinality(E) <= n, NEW a
  PROVE  /\ IsFiniteSet(E \cup {a}) /\ Cardinality(E \cup {a}) <= n + 1
<1>1. /\ IsFiniteSet(E \cup {a})
      /\ Cardinality(E \cup {a}) = IF a \in E THEN Cardinality(E) ELSE Cardinality(E) + 1
  BY FS_AddElement, Zenon
<1>2. Cardinality(E) \in Nat
  BY FS_CardinalityType, Zenon
<1> QED
  BY <1>1, <1>2

\* A set of the elements of s and two more.
LEMMA TwoMore ==
  ASSUME NEW E, IsFiniteSet(E), NEW n \in Nat, Cardinality(E) <= n,
         NEW a, NEW b, NEW F, F \subseteq E \cup {a} \cup {b}
  PROVE  IsFiniteSet(F) /\ Cardinality(F) <= n + 2
<1>1. IsFiniteSet(E \cup {a}) /\ Cardinality(E \cup {a}) <= n + 1
  BY OneMore, Zenon
<1>2. n + 1 \in Nat /\ (n + 1) + 1 = n + 2
  OBVIOUS
<1>3. /\ IsFiniteSet((E \cup {a}) \cup {b})
      /\ Cardinality((E \cup {a}) \cup {b}) <= n + 2
  BY <1>1, <1>2, OneMore, Zenon
<1>4. IsFiniteSet(F) /\ Cardinality(F) <= Cardinality((E \cup {a}) \cup {b})
  BY <1>3, FS_Subset, Zenon
<1>5. /\ Cardinality(F) \in Nat
      /\ Cardinality((E \cup {a}) \cup {b}) \in Nat
  BY <1>3, <1>4, FS_CardinalityType, Zenon
<1> QED
  BY <1>3, <1>4, <1>5

\* The clips on disk never exceed the queue's limit and the two being recorded
\* and uploaded.
THEOREM DiskBounded == Spec => []DiskBound
<1>1. ASSUME TypeInv, OwnInv, QueueBound PROVE DiskBound
  <2>1. /\ msgQ_kvs \in Seq(Clips) /\ CVR_THRESHHOLD_COUNT \in Nat /\ Len(msgQ_kvs) \in Nat
        /\ flushed # NoClip => rpc = "unlink" /\ rclip # NoClip
    BY <1>1, ThresholdAssumption
    DEF ThresholdAssumption, TypeInv, TypeOK, DataOK, Hands
  <2>2. files = Elems(msgQ_kvs) \cup ({rclip, flushed, uclip} \ {NoClip})
    BY <1>1 DEF OwnInv, FilesOwned, Owned, Waiting, Elems
  <2>3. /\ IsFiniteSet(Elems(msgQ_kvs)) /\ Cardinality(Elems(msgQ_kvs)) <= Len(msgQ_kvs)
        /\ Cardinality(Elems(msgQ_kvs)) \in Nat
    BY <2>1, ElemsCardinality, FS_CardinalityType
  <2>4. CVR_THRESHHOLD_COUNT + 1 \in Nat
    BY <2>1
  <2>5. CASE flushed = NoClip
    <3>1. files \subseteq Elems(msgQ_kvs) \cup {rclip} \cup {uclip}
      BY <2>2, <2>5
    <3>2. Cardinality(Elems(msgQ_kvs)) <= CVR_THRESHHOLD_COUNT + 1
      BY <1>1, <2>1, <2>3 DEF QueueBound
    <3>3. Cardinality(files) <= (CVR_THRESHHOLD_COUNT + 1) + 2
      BY <2>3, <2>4, <3>1, <3>2, TwoMore, Zenon
    <3> QED
      BY <2>1, <3>3 DEF DiskBound
  <2>6. CASE flushed # NoClip
    <3> DEFINE E == Elems(msgQ_kvs) \cup {flushed}
    <3>1. Cardinality(Elems(msgQ_kvs)) <= CVR_THRESHHOLD_COUNT
      BY <1>1, <2>1, <2>3, <2>6 DEF QueueBound
    <3>2. IsFiniteSet(E) /\ Cardinality(E) <= CVR_THRESHHOLD_COUNT + 1
      BY <2>1, <2>3, <3>1, OneMore, Zenon
    <3>3. files \subseteq E \cup {rclip} \cup {uclip}
      BY <2>2
    <3> HIDE DEF E
    <3>4. Cardinality(files) <= (CVR_THRESHHOLD_COUNT + 1) + 2
      BY <2>4, <3>2, <3>3, TwoMore, Zenon
    <3> QED
      BY <2>1, <3>4 DEF DiskBound
  <2> QED
    BY <2>5, <2>6
<1> QED
  BY QueueBounded, <1>1, PTL

-----------------------------------------------------------------------------
(* The verdicts. *)

LEMMA VerdictInit == Init => VerdictHeld
  BY DEF Init, VerdictHeld

LEMMA VerdictStep == VerdictHeld /\ [Next]_vars => VerdictHeld'
<1> SUFFICES ASSUME VerdictHeld, [Next]_vars PROVE VerdictHeld'
  OBVIOUS
<1> USE DEF VerdictHeld, rvars, rpush, uvars, kvs, svars, life, disk, proc
<1>1. CASE R_NewClip
  BY <1>1 DEF R_NewClip
<1>2. CASE R_WriteLevels
  BY <1>2 DEF R_WriteLevels
<1>3. CASE R_Discard
  BY <1>3 DEF R_Discard
<1>4. CASE R_Submit
  BY <1>4 DEF R_Submit
<1>5. CASE R_HangCheck
  BY <1>5 DEF R_HangCheck
<1>6. CASE R_HangTerm
  BY <1>6 DEF R_HangTerm
<1>7. CASE R_HangKill
  BY <1>7 DEF R_HangKill
<1>8. CASE R_Flush
  BY <1>8 DEF R_Flush
<1>9. CASE R_NoFlush
  BY <1>9 DEF R_NoFlush
<1>10. CASE R_UnlinkFlushed
  BY <1>10 DEF R_UnlinkFlushed
<1>11. CASE R_Push
  BY <1>11 DEF R_Push
<1>12. CASE R_Close
  BY <1>12 DEF R_Close
<1>13. CASE R_Return
  BY <1>13 DEF R_Return
<1>14. CASE U_Loop
  BY <1>14 DEF U_Loop
<1>15. CASE U_Pop
  BY <1>15 DEF U_Pop
<1>16. CASE U_KvsInit
  BY <1>16 DEF U_KvsInit
<1>17. CASE U_FirstStamp
  BY <1>17 DEF U_FirstStamp
<1>18. CASE U_StreamInit
  BY <1>18 DEF U_StreamInit
<1>19. CASE U_UnlinkLevels
  BY <1>19 DEF U_UnlinkLevels
<1>20. CASE U_Play
  BY <1>20 DEF U_Play
<1>21. CASE U_MainLoopDone
  BY <1>21 DEF U_MainLoopDone
<1>22. CASE U_PlaySuccess
  BY <1>22 DEF U_PlaySuccess
<1>23. CASE U_PlayFailure
  BY <1>23 DEF U_PlayFailure
<1>24. CASE U_PlayAgain
  BY <1>24 DEF U_PlayAgain
<1>25. CASE U_PlayExit
  BY <1>25 DEF U_PlayExit
<1>26. CASE U_Delete
  BY <1>26 DEF U_Delete
<1>27. CASE U_Report
  BY <1>27 DEF U_Report
<1>28. CASE S_Wake
  BY <1>28 DEF S_Wake
<1>29. CASE S_Retry
  BY <1>29 DEF S_Retry
<1>30. CASE S_Done
  BY <1>30 DEF S_Done
<1>31. CASE self_term
  BY <1>31 DEF self_term
<1>32. CASE UNCHANGED vars
  BY <1>32 DEF vars
<1> QED
  BY <1>1, <1>2, <1>3, <1>4, <1>5, <1>6, <1>7, <1>8, <1>9, <1>10, <1>11, <1>12, <1>13, <1>14,
     <1>15, <1>16, <1>17, <1>18, <1>19, <1>20, <1>21, <1>22, <1>23, <1>24, <1>25, <1>26,
     <1>27, <1>28, <1>29, <1>30, <1>31, <1>32
  DEF Next, Recorder, UploadCode, UploadCalls, Statistics

\* A clip leaves the upload thread with a verdict, and keeps the one it got.
LEMMA VerdictKept ==
  TypeInv /\ VerdictHeld /\ [Next]_vars =>
    /\ uclip # NoClip /\ uclip' = NoClip => verdict # "none"
    /\ verdict # "none" /\ verdict' # verdict => uclip' = NoClip
<1> SUFFICES ASSUME TypeInv, VerdictHeld, [Next]_vars
             PROVE  /\ uclip # NoClip /\ uclip' = NoClip => verdict # "none"
                    /\ verdict # "none" /\ verdict' # verdict => uclip' = NoClip
  OBVIOUS
<1>a. uclip # NoClip => upc \notin {"loop", "pop", "report", "ended"}
  BY DEF TypeInv, Hands
<1> USE DEF VerdictHeld, rvars, rpush, uvars, kvs, svars, life, disk, proc
<1>1. CASE R_NewClip
  BY <1>1 DEF R_NewClip
<1>2. CASE R_WriteLevels
  BY <1>2 DEF R_WriteLevels
<1>3. CASE R_Discard
  BY <1>3 DEF R_Discard
<1>4. CASE R_Submit
  BY <1>4 DEF R_Submit
<1>5. CASE R_HangCheck
  BY <1>5 DEF R_HangCheck
<1>6. CASE R_HangTerm
  BY <1>6 DEF R_HangTerm
<1>7. CASE R_HangKill
  BY <1>7 DEF R_HangKill
<1>8. CASE R_Flush
  BY <1>8 DEF R_Flush
<1>9. CASE R_NoFlush
  BY <1>9 DEF R_NoFlush
<1>10. CASE R_UnlinkFlushed
  BY <1>10 DEF R_UnlinkFlushed
<1>11. CASE R_Push
  BY <1>11 DEF R_Push
<1>12. CASE R_Close
  BY <1>12 DEF R_Close
<1>13. CASE R_Return
  BY <1>13 DEF R_Return
<1>14. CASE U_Loop
  BY <1>14 DEF U_Loop
<1>15. CASE U_Pop
  BY <1>a, <1>15 DEF U_Pop
<1>16. CASE U_KvsInit
  BY <1>16 DEF U_KvsInit
<1>17. CASE U_FirstStamp
  BY <1>17 DEF U_FirstStamp
<1>18. CASE U_StreamInit
  BY <1>18 DEF U_StreamInit
<1>19. CASE U_UnlinkLevels
  BY <1>19 DEF U_UnlinkLevels
<1>20. CASE U_Play
  BY <1>20 DEF U_Play
<1>21. CASE U_MainLoopDone
  BY <1>21 DEF U_MainLoopDone
<1>22. CASE U_PlaySuccess
  BY <1>22 DEF U_PlaySuccess
<1>23. CASE U_PlayFailure
  BY <1>23 DEF U_PlayFailure
<1>24. CASE U_PlayAgain
  BY <1>24 DEF U_PlayAgain
<1>25. CASE U_PlayExit
  BY <1>25 DEF U_PlayExit
<1>26. CASE U_Delete
  BY <1>26 DEF U_Delete
<1>27. CASE U_Report
  BY <1>27 DEF U_Report
<1>28. CASE S_Wake
  BY <1>28 DEF S_Wake
<1>29. CASE S_Retry
  BY <1>29 DEF S_Retry
<1>30. CASE S_Done
  BY <1>30 DEF S_Done
<1>31. CASE self_term
  BY <1>31 DEF self_term
<1>32. CASE UNCHANGED vars
  BY <1>32 DEF vars
<1> QED
  BY <1>1, <1>2, <1>3, <1>4, <1>5, <1>6, <1>7, <1>8, <1>9, <1>10, <1>11, <1>12, <1>13, <1>14,
     <1>15, <1>16, <1>17, <1>18, <1>19, <1>20, <1>21, <1>22, <1>23, <1>24, <1>25, <1>26,
     <1>27, <1>28, <1>29, <1>30, <1>31, <1>32
  DEF Next, Recorder, UploadCode, UploadCalls, Statistics

THEOREM VerdictOnce == Spec => OneVerdict
<1>1. Init => TypeInv /\ VerdictHeld
  BY TypeInvInit, VerdictInit
<1>2. TypeInv /\ VerdictHeld /\ [Next]_vars => (TypeInv /\ VerdictHeld)'
  BY TypeInvStep, VerdictStep
<1>3. TypeInv /\ VerdictHeld /\ [Next]_vars =>
        [/\ uclip # NoClip /\ uclip' = NoClip => verdict # "none"
         /\ verdict # "none" /\ verdict' # verdict => uclip' = NoClip]_vars
  BY VerdictKept
<1> QED
  BY <1>1, <1>2, <1>3, PTL DEF Spec, OneVerdict

-----------------------------------------------------------------------------
(* The watchdog. *)

LEMMA SlotsInit == Init => SlotsQuiet
  BY DEF Init, SlotsQuiet

\* What a push does to the ages of the slots.
LEMMA AgeAdvance ==
  ASSUME clipcounter \in 0..2, clipcounter' = (clipcounter + 1) % 3, NEW i \in 1..3
  PROVE  IF i = clipcounter + 1 THEN Age(i) = 2 /\ Age(i)' = 0
                                ELSE Age(i)' = Age(i) + 1 /\ Age(i) \in 0..1
<1>1. CASE clipcounter = 0
  BY <1>1 DEF Age
<1>2. CASE clipcounter = 1
  BY <1>2 DEF Age
<1>3. CASE clipcounter = 2
  BY <1>3 DEF Age
<1> QED
  BY <1>1, <1>2, <1>3

\* The check: it kills at the third quiet push and never before.
LEMMA HangCheckExact ==
  ASSUME TypeInv, SlotsQuiet, R_HangCheck
  PROVE  SlotsQuiet' /\ (rpc' = "kill" <=> quiet' >= 3)
<1>a. /\ clipcounter \in 0..2 /\ hangdetecttimes \in [1..3 -> Stamps \cup {Never}]
      /\ quiet \in 0..2 /\ rpc = "hangcheck" /\ UNCHANGED hangdetecttime
  BY DEF TypeInv, TypeOK, DataOK, SlotsQuiet, R_HangCheck
<1>1. CASE hangdetecttime = Never
  <2>1. rpc' = "test" /\ UNCHANGED <<clipcounter, hangdetecttimes, quiet>> /\ quiet = 0
    BY <1>1 DEF R_HangCheck, SlotsQuiet
  <2> QED
    BY <1>a, <1>1, <2>1 DEF SlotsQuiet
<1>2. CASE hangdetecttime # Never
  <2>1. /\ hangdetecttimes' = [hangdetecttimes EXCEPT ![clipcounter + 1] = hangdetecttime]
        /\ clipcounter' = (clipcounter + 1) % 3 /\ quiet' = quiet + 1
        /\ rpc' = IF Hung(hangdetecttimes') THEN "kill" ELSE "test"
    BY <1>2 DEF R_HangCheck
  <2>2. \A i \in 1..3 : hangdetecttimes[i] = hangdetecttime <=> Age(i) < quiet
    BY <1>2 DEF SlotsQuiet
  <2>3. ASSUME NEW i \in 1..3
        PROVE  hangdetecttimes'[i] = hangdetecttime' <=> Age(i)' < quiet'
    <3>1. CASE i = clipcounter + 1
      <4>1. Age(i)' = 0
        BY <1>a, <2>1, <3>1, AgeAdvance
      <4> QED
        BY <1>a, <2>1, <3>1, <4>1
    <3>2. CASE i # clipcounter + 1
      <4>1. Age(i)' = Age(i) + 1 /\ Age(i) \in 0..1
        BY <1>a, <2>1, <3>2, AgeAdvance
      <4>2. hangdetecttimes'[i] = hangdetecttimes[i]
        BY <1>a, <2>1, <3>2
      <4> QED
        BY <1>a, <2>1, <2>2, <4>1, <4>2
    <3> QED
      BY <3>1, <3>2
  <2>4. \A i \in 1..3 : Age(i)' \in 0..2
    <3> TAKE i \in 1..3
    <3> QED
      BY <1>a, <2>1, AgeAdvance
  <2>5. \E i \in 1..3 : Age(i)' = 2
    <3>1. CASE clipcounter = 0
      BY <2>1, <3>1 DEF Age
    <3>2. CASE clipcounter = 1
      BY <2>1, <3>2 DEF Age
    <3>3. CASE clipcounter = 2
      BY <2>1, <3>3 DEF Age
    <3> QED
      BY <1>a, <3>1, <3>2, <3>3
  <2>6. hangdetecttimes'[clipcounter + 1] = hangdetecttime' /\ clipcounter + 1 \in 1..3
    BY <1>a, <2>1
  <2>7. Hung(hangdetecttimes') <=> \A i \in 1..3 : hangdetecttimes'[i] = hangdetecttime'
    BY <2>6 DEF Hung
  <2>8. Hung(hangdetecttimes') <=> quiet' >= 3
    BY <1>a, <2>1, <2>3, <2>4, <2>5, <2>7
  <2>9. rpc' = "kill" <=> quiet' >= 3
    BY <2>1, <2>8
  <2> QED
    BY <1>a, <1>2, <2>1, <2>3, <2>9 DEF SlotsQuiet
<1> QED
  BY <1>1, <1>2

\* A sign of life is none of the remembered ones.
LEMMA StampSlots ==
  ASSUME TypeInv, SlotsQuiet, Stamp, UNCHANGED <<clipcounter, hangdetecttimes, rpc>>
  PROVE  SlotsQuiet'
<1>1. /\ hangdetecttime' \in Stamps /\ quiet' = 0
      /\ \A i \in 1..3 : hangdetecttimes'[i] # hangdetecttime'
  BY DEF Stamp
<1>2. clipcounter' \in 0..2
  BY DEF TypeInv, TypeOK, DataOK
<1>3. \A i \in 1..3 : ~(Age(i)' < 0)
  BY <1>2 DEF Age
<1>4. hangdetecttime' # Never
  BY <1>1, StampsAssumption DEF StampsAssumption
<1> QED
  BY <1>1, <1>3, <1>4 DEF SlotsQuiet

LEMMA SlotsKept ==
  ASSUME SlotsQuiet, UNCHANGED <<clipcounter, hangdetecttimes, hangdetecttime, quiet>>,
         rpc' # "kill" => rpc # "kill"
  PROVE  SlotsQuiet'
  BY DEF SlotsQuiet, Age

LEMMA SlotsStep ==
  TypeInv /\ SlotsQuiet /\ [Next]_vars =>
    /\ SlotsQuiet'
    /\ rpc = "hangcheck" /\ rpc' # "hangcheck" => (rpc' = "kill" <=> quiet' >= 3)
<1> SUFFICES ASSUME TypeInv, SlotsQuiet, [Next]_vars
             PROVE  /\ SlotsQuiet'
                    /\ rpc = "hangcheck" /\ rpc' # "hangcheck" => (rpc' = "kill" <=> quiet' >= 3)
  OBVIOUS
<1> USE DEF rvars, rpush, uvars, kvs, svars, life, disk, proc
<1>1. CASE R_NewClip
  BY <1>1, SlotsKept DEF R_NewClip
<1>2. CASE R_WriteLevels
  BY <1>2, SlotsKept DEF R_WriteLevels
<1>3. CASE R_Discard
  BY <1>3, SlotsKept DEF R_Discard
<1>4. CASE R_Submit
  BY <1>4, SlotsKept DEF R_Submit
<1>5. CASE R_HangCheck
  BY <1>5, HangCheckExact
<1>6. CASE R_HangTerm
  BY <1>6, SlotsKept DEF R_HangTerm
<1>7. CASE R_HangKill
  BY <1>7, SlotsKept DEF R_HangKill
<1>8. CASE R_Flush
  BY <1>8, SlotsKept DEF R_Flush
<1>9. CASE R_NoFlush
  BY <1>9, SlotsKept DEF R_NoFlush
<1>10. CASE R_UnlinkFlushed
  BY <1>10, SlotsKept DEF R_UnlinkFlushed
<1>11. CASE R_Push
  BY <1>11, SlotsKept DEF R_Push
<1>12. CASE R_Close
  BY <1>12, SlotsKept DEF R_Close
<1>13. CASE R_Return
  BY <1>13, SlotsKept DEF R_Return
<1>14. CASE U_Loop
  BY <1>14, SlotsKept DEF U_Loop
<1>15. CASE U_Pop
  BY <1>15, SlotsKept DEF U_Pop
<1>16. CASE U_KvsInit
  BY <1>16, SlotsKept DEF U_KvsInit
<1>17. CASE U_FirstStamp
  BY <1>17, StampSlots DEF U_FirstStamp
<1>18. CASE U_StreamInit
  <2>1. CASE Stamp
    BY <1>18, <2>1, StampSlots DEF U_StreamInit
  <2>2. CASE UNCHANGED life
    BY <1>18, <2>2, SlotsKept DEF U_StreamInit
  <2> QED
    BY <1>18, <2>1, <2>2 DEF U_StreamInit
<1>19. CASE U_UnlinkLevels
  BY <1>19, SlotsKept DEF U_UnlinkLevels
<1>20. CASE U_Play
  BY <1>20, StampSlots DEF U_Play
<1>21. CASE U_MainLoopDone
  BY <1>21, StampSlots DEF U_MainLoopDone
<1>22. CASE U_PlaySuccess
  BY <1>22, SlotsKept DEF U_PlaySuccess
<1>23. CASE U_PlayFailure
  <2>1. CASE Stamp
    BY <1>23, <2>1, StampSlots DEF U_PlayFailure
  <2>2. CASE UNCHANGED life
    BY <1>23, <2>2, SlotsKept DEF U_PlayFailure
  <2> QED
    BY <1>23, <2>1, <2>2 DEF U_PlayFailure
<1>24. CASE U_PlayAgain
  <2>1. CASE Stamp
    BY <1>24, <2>1, StampSlots DEF U_PlayAgain
  <2>2. CASE UNCHANGED life
    BY <1>24, <2>2, SlotsKept DEF U_PlayAgain
  <2> QED
    BY <1>24, <2>1, <2>2 DEF U_PlayAgain
<1>25. CASE U_PlayExit
  BY <1>25, SlotsKept DEF U_PlayExit
<1>26. CASE U_Delete
  BY <1>26, SlotsKept DEF U_Delete
<1>27. CASE U_Report
  BY <1>27, SlotsKept DEF U_Report
<1>28. CASE S_Wake
  BY <1>28, SlotsKept DEF S_Wake
<1>29. CASE S_Retry
  BY <1>29, SlotsKept DEF S_Retry
<1>30. CASE S_Done
  BY <1>30, SlotsKept DEF S_Done
<1>31. CASE self_term
  BY <1>31, SlotsKept DEF self_term
<1>32. CASE UNCHANGED vars
  BY <1>32, SlotsKept DEF vars
<1> QED
  BY <1>1, <1>2, <1>3, <1>4, <1>5, <1>6, <1>7, <1>8, <1>9, <1>10, <1>11, <1>12, <1>13, <1>14,
     <1>15, <1>16, <1>17, <1>18, <1>19, <1>20, <1>21, <1>22, <1>23, <1>24, <1>25, <1>26,
     <1>27, <1>28, <1>29, <1>30, <1>31, <1>32
  DEF Next, Recorder, UploadCode, UploadCalls, Statistics

THEOREM KillsAtThirdQuietPush == Spec => WatchdogExact
<1>1. Init => TypeInv /\ SlotsQuiet
  BY TypeInvInit, SlotsInit
<1>2. TypeInv /\ SlotsQuiet /\ [Next]_vars => (TypeInv /\ SlotsQuiet)'
  BY TypeInvStep, SlotsStep
<1>3. TypeInv /\ SlotsQuiet /\ [Next]_vars =>
        [rpc = "hangcheck" /\ rpc' # "hangcheck" => (rpc' = "kill" <=> quiet' >= 3)]_vars
  BY SlotsStep
<1> QED
  BY <1>1, <1>2, <1>3, PTL DEF Spec, WatchdogExact

-----------------------------------------------------------------------------
(* Refinement: the queue and the upload thread implement the lossy FIFO. *)

LEMMA BufferInit == Init => Buffer!Init
  BY DEF Init, Buffer!Init

LEMMA BufferStutter ==
  ASSUME UNCHANGED <<msgQ_kvs, uclip>>
  PROVE  UNCHANGED Buffer!vars
  BY DEF Buffer!vars

\* A push is a Put, a flush loses the oldest clip, a pop is a Take, a deletion
\* the Finish; nothing else touches the buffer.
LEMMA BufferStep ==
  TypeInv /\ OwnInv /\ QueueBound /\ [Next]_vars => [Buffer!Next]_(Buffer!vars)
<1> SUFFICES ASSUME TypeInv, OwnInv, QueueBound, [Next]_vars
             PROVE  Buffer!Next \/ UNCHANGED Buffer!vars
  OBVIOUS
<1> USE DEF rvars, rpush, uvars, kvs, svars, life, disk, proc
<1>1. CASE R_NewClip
  BY <1>1, BufferStutter DEF R_NewClip
<1>2. CASE R_WriteLevels
  BY <1>2, BufferStutter DEF R_WriteLevels
<1>3. CASE R_Discard
  BY <1>3, BufferStutter DEF R_Discard
<1>4. CASE R_Submit
  BY <1>4, BufferStutter DEF R_Submit
<1>5. CASE R_HangCheck
  BY <1>5, BufferStutter DEF R_HangCheck
<1>6. CASE R_HangTerm
  BY <1>6, BufferStutter DEF R_HangTerm
<1>7. CASE R_HangKill
  BY <1>7, BufferStutter DEF R_HangKill
<1>8. CASE R_Flush
  BY <1>8 DEF R_Flush, PopMsg_kvs, Buffer!Next, Buffer!Lose
<1>9. CASE R_NoFlush
  BY <1>9, BufferStutter DEF R_NoFlush
<1>10. CASE R_UnlinkFlushed
  BY <1>10, BufferStutter DEF R_UnlinkFlushed
<1>11. CASE R_Push
  <2>1. /\ rclip \in Clips /\ msgQ_kvs' = Append(msgQ_kvs, rclip) /\ UNCHANGED uclip
        /\ Len(msgQ_kvs) <= CVR_THRESHHOLD_COUNT
    BY <1>11 DEF R_Push, TypeInv, TypeOK, DataOK, Hands, QueueBound
  <2>2. Len(msgQ_kvs) < CVR_THRESHHOLD_COUNT + 1
    <3>1. Len(msgQ_kvs) \in Nat /\ CVR_THRESHHOLD_COUNT \in Nat
      BY ThresholdAssumption DEF ThresholdAssumption, TypeInv, TypeOK, DataOK
    <3> QED
      BY <2>1, <3>1
  <2>3. rclip \notin Buffer!Buffered \cup {uclip}
    <3>1. rclip # NoClip
      BY <2>1, NamesAssumption DEF NamesAssumption
    <3> QED
      BY <3>1 DEF OwnInv, SingleOwner, Waiting, Buffer!Buffered
  <2>4. Buffer!Put(rclip)
    BY <2>1, <2>2, <2>3 DEF Buffer!Put
  <2> QED
    BY <2>1, <2>4 DEF Buffer!Next
<1>12. CASE R_Close
  BY <1>12, BufferStutter DEF R_Close
<1>13. CASE R_Return
  BY <1>13, BufferStutter DEF R_Return
<1>14. CASE U_Loop
  BY <1>14, BufferStutter DEF U_Loop
<1>15. CASE U_Pop
  <2>1. uclip = NoClip
    BY <1>15 DEF U_Pop, TypeInv, Hands
  <2> QED
    BY <1>15, <2>1 DEF U_Pop, PopMsg_kvs, Buffer!Next, Buffer!Take
<1>16. CASE U_KvsInit
  BY <1>16, BufferStutter DEF U_KvsInit
<1>17. CASE U_FirstStamp
  BY <1>17, BufferStutter DEF U_FirstStamp
<1>18. CASE U_StreamInit
  BY <1>18, BufferStutter DEF U_StreamInit
<1>19. CASE U_UnlinkLevels
  BY <1>19, BufferStutter DEF U_UnlinkLevels
<1>20. CASE U_Play
  BY <1>20, BufferStutter DEF U_Play
<1>21. CASE U_MainLoopDone
  BY <1>21, BufferStutter DEF U_MainLoopDone
<1>22. CASE U_PlaySuccess
  BY <1>22, BufferStutter DEF U_PlaySuccess
<1>23. CASE U_PlayFailure
  BY <1>23, BufferStutter DEF U_PlayFailure
<1>24. CASE U_PlayAgain
  BY <1>24, BufferStutter DEF U_PlayAgain
<1>25. CASE U_PlayExit
  BY <1>25, BufferStutter DEF U_PlayExit
<1>26. CASE U_Delete
  <2>1. uclip # NoClip
    BY <1>26 DEF U_Delete, TypeInv, Hands
  <2> QED
    BY <1>26, <2>1 DEF U_Delete, Buffer!Next, Buffer!Finish
<1>27. CASE U_Report
  BY <1>27, BufferStutter DEF U_Report
<1>28. CASE S_Wake
  BY <1>28, BufferStutter DEF S_Wake
<1>29. CASE S_Retry
  BY <1>29, BufferStutter DEF S_Retry
<1>30. CASE S_Done
  BY <1>30, BufferStutter DEF S_Done
<1>31. CASE self_term
  BY <1>31, BufferStutter DEF self_term
<1>32. CASE UNCHANGED vars
  BY <1>32, BufferStutter DEF vars
<1> QED
  BY <1>1, <1>2, <1>3, <1>4, <1>5, <1>6, <1>7, <1>8, <1>9, <1>10, <1>11, <1>12, <1>13, <1>14,
     <1>15, <1>16, <1>17, <1>18, <1>19, <1>20, <1>21, <1>22, <1>23, <1>24, <1>25, <1>26,
     <1>27, <1>28, <1>29, <1>30, <1>31, <1>32
  DEF Next, Recorder, UploadCode, UploadCalls, Statistics

THEOREM ImplementsLossyFifo == Spec => LossyFifo
<1>1. Init => TypeInv /\ OwnInv /\ QueueBound
  BY TypeInvInit, OwnInvInit, QueueBoundInit
<1>2. TypeInv /\ OwnInv /\ QueueBound /\ [Next]_vars => (TypeInv /\ OwnInv /\ QueueBound)'
  BY TypeInvStep, OwnInvStep, QueueBoundStep
<1> QED
  BY <1>1, <1>2, BufferInit, BufferStep, PTL DEF Spec, LossyFifo, Buffer!Spec

=============================================================================
