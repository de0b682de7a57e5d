--------------------------- MODULE MCAuditProbes ---------------------------
(***************************************************************************)
(* AuditProbes with one cipher of every kind: sha is offered by default    *)
(* and accepted from TLS 1.0 on; rc4 is weak and not offered by default,   *)
(* so that a version with it alone is not seen by its version probe; gcm   *)
(* needs TLS 1.2 and aes is TLS 1.3.  A day has two ticks, so that a leaf  *)
(* can have half a day more or less than the limits; one outlives every    *)
(* Duration.                                                               *)
(***************************************************************************)
EXTENDS AuditProbes

FourCiphers == {"rc4", "sha", "gcm", "aes"}
Offered == {"sha", "gcm", "aes"}
Chosen == {<<10, "rc4">>, <<10, "sha">>, <<12, "sha">>, <<12, "gcm">>}
Severity == [c \in FourCiphers |->
               IF c = "rc4" THEN "high" ELSE IF c = "sha" THEN "medium" ELSE "none"]

ModernServer == {<<12, "gcm">>, <<13, "aes">>}
OldServer == {<<12, "gcm">>, <<12, "sha">>, <<10, "sha">>}
WeakServer == {<<12, "gcm">>, <<12, "sha">>, <<10, "rc4">>}
SomeServers == {ModernServer, OldServer, WeakServer}

Good ==
  [notBefore |-> -10, notAfter |-> 60, named |-> TRUE, selfSigned |-> FALSE,
   anchored |-> TRUE, strongKey |-> TRUE, strongSignature |-> TRUE]
SomeLeaves == {
  Good,
  [Good EXCEPT !.notAfter = 59],
  [Good EXCEPT !.notAfter = 13],
  [Good EXCEPT !.notAfter = -1],
  [Good EXCEPT !.notBefore = 1, !.notAfter = 900],
  [Good EXCEPT !.notAfter = 900, !.selfSigned = TRUE, !.anchored = FALSE],
  [Good EXCEPT !.named = FALSE] }
=============================================================================
