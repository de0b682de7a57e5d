----------------------------- MODULE MCAttempt -----------------------------
(* Attempt with every proxy, every dialogue and one that is not supported. *)
EXTENDS Attempt

AllProtocols == {"none", "gopher"} \cup DOMAIN Dialogue
=============================================================================
