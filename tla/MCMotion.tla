------------------------------ MODULE MCMotion ------------------------------
(* Motion for TLC: three kinds of results, and scores that come in any order. *)
EXTENDS Motion

Result(score, level, types) == [score |-> score, level |-> level, events |-> types]

MCResults == {Result(1, 0, {"tamper"}), Result(2, 60, {"motion"}), Result(3, 60, {"people"})}
=============================================================================
