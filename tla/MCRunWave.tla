----------------------------- MODULE MCRunWave ------------------------------
(* Instance of RunWave for TLC; its bounds are in MCRunWave.cfg. *)
EXTENDS RunWave
=============================================================================
