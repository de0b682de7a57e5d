---------------------------- MODULE MCOrderedWave ----------------------------
(* OrderedWave with more targets than workers. *)
EXTENDS OrderedWave
=============================================================================
