---------------------------- MODULE MCClipUpload ----------------------------
(* ClipUpload for TLC.  Clip names and clock readings are only compared for  *)
(* equality.  The safety run uses that as a symmetry; the liveness run, for  *)
(* which symmetry is not sound, lets every step pick the next free name and  *)
(* the next reading (its Clips and Stamps are numbers), which removes no     *)
(* behaviour up to renaming and disables no action.                          *)
EXTENDS ClipUpload, TLC

Symmetry == Permutations(Clips) \cup Permutations(Stamps)

LastRemembered == hangdetecttimes[IF clipcounter = 0 THEN 3 ELSE clipcounter]

NamesInTurn ==
  /\ rpc = "loop" /\ rpc' = "recording" => \A c \in Clips \ files : rclip' <= c
  /\ hangdetecttime' # hangdetecttime =>
       hangdetecttime' = IF LastRemembered = Never
                           THEN 0 ELSE (LastRemembered + 1) % Cardinality(Stamps)

\* Further, nobody else sends SIGTERM: after it the process may only end.
LiveSteps == NamesInTurn /\ (term_flag' # term_flag => rpc = "kill")
=============================================================================
