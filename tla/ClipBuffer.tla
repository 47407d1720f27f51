----------------------------- MODULE ClipBuffer -----------------------------
(***************************************************************************)
(* What msgQ_kvs and the kvsUpload thread promise together: a FIFO buffer  *)
(* of bounded capacity with one consumer that uses one clip at a time.     *)
(* The buffer may lose clips, but only the oldest one, so that clips are   *)
(* always used in the order in which they were recorded.                   *)
(***************************************************************************)
EXTENDS Naturals, Sequences

CONSTANTS Clips, NoClip, Capacity

VARIABLES buffer,  \* recorded clips nobody has taken yet, oldest first
          inUse    \* the clip the consumer works on, or NoClip

vars == <<buffer, inUse>>

Init == buffer = <<>> /\ inUse = NoClip

Buffered == {buffer[i] : i \in DOMAIN buffer}

Put(c) == /\ Len(buffer) < Capacity
          /\ c \notin Buffered \cup {inUse}
          /\ buffer' = Append(buffer, c)
          /\ UNCHANGED inUse

Lose == /\ buffer # <<>>
        /\ buffer' = Tail(buffer)
        /\ UNCHANGED inUse

Take == /\ inUse = NoClip /\ buffer # <<>>
        /\ inUse' = Head(buffer)
        /\ buffer' = Tail(buffer)

Finish == /\ inUse # NoClip
          /\ inUse' = NoClip
          /\ UNCHANGED buffer

Next == (\E c \in Clips : Put(c)) \/ Lose \/ Take \/ Finish

Spec == Init /\ [][Next]_vars

=============================================================================
