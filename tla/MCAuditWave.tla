----------------------------- MODULE MCAuditWave -----------------------------
(* AuditWave with more targets than workers and slots. *)
EXTENDS AuditWave
=============================================================================
