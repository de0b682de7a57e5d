-------------------------------- MODULE Wave --------------------------------
(***************************************************************************)
(* What runWave (internal/cli/cli.go:406-502) promises runScan, stated     *)
(* without channels or goroutines: it calls emit for one target at a time  *)
(* and at most once per target, stops at the first error of emit, and      *)
(* returns nil only when every target was emitted or the context ended.    *)
(* RunWave, OrderedWave and AuditWave are its three branches.              *)
(***************************************************************************)

VARIABLES
  targets,                \* the targets of the wave
  emitted,                \* the targets emit was called for
  outcome,                \* "none" while running, then what runWave returns
  interrupted             \* the context ended

vars == <<targets, emitted, outcome, interrupted>>

Init ==
  /\ emitted = {}
  /\ outcome = "none"
  /\ interrupted = FALSE

Emit(t) ==
  /\ outcome = "none"
  /\ t \notin emitted
  /\ emitted' = emitted \cup {t}
  /\ UNCHANGED <<targets, outcome, interrupted>>

EmitFails(t) ==
  /\ outcome = "none"
  /\ t \notin emitted
  /\ emitted' = emitted \cup {t}
  /\ outcome' = "emit"
  /\ UNCHANGED <<targets, interrupted>>

ReturnNil ==
  /\ outcome = "none"
  /\ emitted = targets \/ interrupted
  /\ outcome' = "nil"
  /\ UNCHANGED <<targets, emitted, interrupted>>

ReturnCanceled ==
  /\ outcome = "none"
  /\ interrupted
  /\ emitted = {}
  /\ outcome' = "ctx"
  /\ UNCHANGED <<targets, emitted, interrupted>>

Interrupt ==
  /\ interrupted' = TRUE
  /\ UNCHANGED <<targets, emitted, outcome>>

Next ==
  \/ \E t \in targets : Emit(t) \/ EmitFails(t)
  \/ ReturnNil
  \/ ReturnCanceled
  \/ Interrupt

Spec == Init /\ [][Next]_vars
=============================================================================
