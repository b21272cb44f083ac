---------------------------- MODULE MCWorkBench ----------------------------
(* Small instances of WorkBench for TLC. *)
EXTENDS WorkBench

MCOptions == {<<1, 3>>, <<2, 3>>, <<3, 1>>}
=============================================================================
