---------------------------- MODULE ResultStream ----------------------------
(***************************************************************************)
(* What a caller of Scanner.ScanStream is promised, stated without         *)
(* workers or channels: targets are offered, at most one result is         *)
(* delivered for each of them, and the stream ends only when every offered *)
(* target has been delivered after the input was closed, or when the       *)
(* context was canceled ("The returned channel closes when input is        *)
(* exhausted or ctx is canceled; cancellation may leave queued targets     *)
(* unprocessed", pkg/ctscan/scanner.go:321-323).                           *)
(***************************************************************************)
EXTENDS Naturals

CONSTANT NumTargets       \* the caller offers the targets 1 .. NumTargets

VARIABLES
  offered,                \* how many targets the caller has offered
  inputClosed,            \* the caller has closed its channel
  canceled,               \* the context is done
  delivered,              \* the targets whose result the caller received
  ended                   \* the caller saw the end of the result stream

vars == <<offered, inputClosed, canceled, delivered, ended>>

Init ==
  /\ offered = 0
  /\ inputClosed = FALSE
  /\ canceled = FALSE
  /\ delivered = {}
  /\ ended = FALSE

Offer ==
  /\ ~inputClosed
  /\ offered < NumTargets
  /\ offered' = offered + 1
  /\ UNCHANGED <<inputClosed, canceled, delivered, ended>>

CloseInput ==
  /\ inputClosed' = TRUE
  /\ UNCHANGED <<offered, canceled, delivered, ended>>

Cancel ==
  /\ canceled' = TRUE
  /\ UNCHANGED <<offered, inputClosed, delivered, ended>>

Deliver(t) ==
  /\ ~ended
  /\ t \notin delivered
  /\ delivered' = delivered \cup {t}
  /\ UNCHANGED <<offered, inputClosed, canceled, ended>>

End ==
  /\ canceled \/ (inputClosed /\ delivered = 1 .. offered)
  /\ ended' = TRUE
  /\ UNCHANGED <<offered, inputClosed, canceled, delivered>>

Next ==
  \/ Offer
  \/ CloseInput
  \/ Cancel
  \/ \E t \in 1 .. offered : Deliver(t)
  \/ End

Spec == Init /\ [][Next]_vars
=============================================================================
