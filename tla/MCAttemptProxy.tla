-------------------------- MODULE MCAttemptProxy --------------------------
(* Attempt through an HTTP proxy that accepts connections and may stay silent. *)
EXTENDS Attempt

\* "A remote server returning malformed TLS or application-protocol data [...] should
\* never [...] escape configured timeouts" (SECURITY.md:18): no answer, and none that
\* never comes, holds an attempt beyond the timeouts of its dial and its connection.
NoEscape == now <= Timeout + Timeout
=============================================================================
